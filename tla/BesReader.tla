----------------------------- MODULE BesReader ------------------------------
(***************************************************************************)
(* The Build Event Stream of one ctx.bazel.build call: the reader thread   *)
(* of crates/axl-runtime/src/engine/bazel/stream/build_event.rs over the   *)
(* FIFO of crates/galvanize, between Bazel, which opens and closes the     *)
(* FIFO once per build attempt, and the task's thread, which binds its     *)
(* iterator, drains it, and waits for the child, the reader and the file   *)
(* sink (Build::spawn, Build::wait, BuildEventSink::wait of build.rs).     *)
(*                                                                         *)
(* A read that finds no writer, the look at the server's descriptors, the  *)
(* look at the client's pid and the flush are steps of their own: Bazel    *)
(* moves between them.  The broadcaster is reduced to what Broadcaster.tla *)
(* shows of it: a consumer is served all that is sent from its             *)
(* subscription on, and then the end.                                      *)
(***************************************************************************)
EXTENDS Integers, Sequences

CONSTANTS
  MaxAttempts,  \* attempts of the build: Bazel retries a cache eviction
  FifoCap,      \* events the FIFO holds before its writer blocks
  Faults,       \* what may fail of a file sink, "none" in a run without failures
  MayDie        \* the client may exit before opening the FIFO, the server may crash

ASSUME BesReaderAssumption ==
  /\ MaxAttempts \in Nat \ {0} /\ FifoCap \in Nat \ {0}
  /\ Faults \subseteq {"none", "open", "reopen", "write", "flush"}
  /\ MayDie \in BOOLEAN

VARIABLES
  fault,     \* which of Faults may happen
  client,    \* the spawned process, "dead" as a zombie too
  stage,     \* what the server has written of the current attempt
  att,       \* the attempt
  retrying,  \* a further attempt will come
  written,   \* history: the events written into the FIFO
  fifo,      \* the events in it
  reader,    \* where the reader thread is
  expecting, \* expecting_retry
  sent,      \* the events broadcast
  closed,    \* the broadcaster is closed
  file,      \* the file sink: the events written since it was last truncated
  signal,    \* its FileSignal
  outcome,   \* what the reader thread returned
  task,      \* where the task's thread is
  from, got  \* its iterator: events broadcast before it was bound (-1: it is
             \* not bound, or to a closed stream), and events received

bazelVars == <<client, stage, att, retrying, written>>
threadVars == <<reader, expecting, outcome>>
streamVars == <<sent, closed>>
sinkVars == <<file, signal>>
taskVars == <<task, from, got>>
vars == <<fault, bazelVars, fifo, threadVars, streamVars, sinkVars, taskVars>>

Event == [att : 1..MaxAttempts, kind : {"started", "finished", "evicted", "other"},
          last : BOOLEAN]

Writing == {"begun", "started", "tail", "complete"}
\* A writer blocked in open() counts: read() blocks instead of returning 0.
HasWriter == stage \in Writing \cup {"opening"}
\* From Pipe::open to the end of the thread.
HasReader == reader \in {"read", "checkFd", "checkPid", "flush"}

Init ==
  /\ fault \in Faults
  /\ client = "alive" /\ stage = "idle" /\ att = 0 /\ retrying = FALSE
  /\ written = <<>> /\ fifo = <<>>
  /\ reader = "none" /\ expecting = FALSE /\ outcome = "none"
  /\ sent = <<>> /\ closed = FALSE
  /\ file = <<>> /\ signal = "none"
  /\ task = "spawn" /\ from = -1 /\ got = 0

-----------------------------------------------------------------------------
(* Bazel.                                                                  *)
ServerOpen ==
  /\ stage = "idle" /\ client = "alive"
  /\ att = 0 \/ retrying
  /\ stage' = "opening" /\ att' = att + 1 /\ retrying' = FALSE
  /\ UNCHANGED <<client, written, fifo, threadVars, streamVars, sinkVars, taskVars, fault>>

ServerOpened ==
  /\ stage = "opening" /\ HasReader
  /\ stage' = "begun"
  /\ UNCHANGED <<client, att, retrying, written, fifo, threadVars, streamVars,
                 sinkVars, taskVars, fault>>

Write(kind, last, then) ==
  LET e == [att |-> att, kind |-> kind, last |-> last]
  IN /\ HasReader /\ Len(fifo) < FifoCap
     /\ fifo' = Append(fifo, e) /\ written' = Append(written, e)
     /\ stage' = then

\* An attempt is BuildStarted, BuildFinished and what Bazel reports after it.
\* Either of the last two carries last_message.
WriteEvent ==
  /\ \/ /\ stage = "begun"
        /\ Write("started", FALSE, "started")
        /\ UNCHANGED retrying
     \/ /\ stage = "started"
        /\ \/ Write("finished", FALSE, "tail") \/ Write("finished", TRUE, "complete")
        /\ UNCHANGED retrying
     \/ /\ stage = "started"
        /\ \/ Write("evicted", FALSE, "tail") \/ Write("evicted", TRUE, "complete")
        /\ retrying' \in IF att < MaxAttempts THEN BOOLEAN ELSE {FALSE}
     \/ /\ stage = "tail"
        /\ Write("other", TRUE, "complete")
        /\ UNCHANGED retrying
  /\ UNCHANGED <<client, att, threadVars, streamVars, sinkVars, taskVars, fault>>

\* The end of an attempt, or EPIPE once the read end is closed.
ServerClose ==
  /\ stage = "complete" \/ (stage \in Writing /\ ~HasReader)
  /\ stage' = "idle"
  /\ UNCHANGED <<client, att, retrying, written, fifo, threadVars, streamVars,
                 sinkVars, taskVars, fault>>

\* The client exits when no attempt is left.  The upload mode is fully_async:
\* it does not wait for the rest of the events.
ClientExit ==
  /\ client = "alive" /\ att > 0 /\ ~retrying
  /\ stage \in {"tail", "complete", "idle"}
  /\ client' = "dead"
  /\ UNCHANGED <<stage, att, retrying, written, fifo, threadVars, streamVars,
                 sinkVars, taskVars, fault>>

\* It exits without having opened the FIFO, or the server dies under it.
BazelDies ==
  /\ MayDie /\ client = "alive"
  /\ (stage = "idle" /\ att = 0) \/ stage \in Writing
  /\ client' = "dead" /\ stage' = "idle" /\ retrying' = FALSE
  /\ UNCHANGED <<att, written, fifo, threadVars, streamVars, sinkVars, taskVars, fault>>

-----------------------------------------------------------------------------
(* The reader thread.                                                      *)
ReturnUntold(result) == reader' = "done" /\ UNCHANGED outcome   \* mutant
ReturnWith(result) == reader' = "done" /\ outcome' = result

\* FileSignal::complete keeps the first result.
Complete(result) == signal' = IF signal = "none" THEN result ELSE signal

OpenSinks ==
  /\ reader = "sinks"
  /\ \/ reader' = "open" /\ UNCHANGED <<outcome, signal>>
     \/ fault = "open" /\ Complete("err") /\ ReturnWith("err")
  /\ UNCHANGED <<bazelVars, fifo, expecting, streamVars, file, taskVars, fault>>

\* Pipe::open blocks until a writer is there.
OpenFifo ==
  /\ reader = "open" /\ HasWriter
  /\ reader' = "read"
  /\ UNCHANGED <<bazelVars, fifo, expecting, outcome, streamVars, sinkVars, taskVars, fault>>

\* read_event fails with anything but BrokenPipe.
ReadError ==
  /\ Complete("err") /\ closed' = TRUE /\ ReturnWith("err")
  /\ UNCHANGED <<expecting, sent, file>>

\* expecting_retry once e was looked at.
ExpectingAfter(e) == e.kind = "evicted" \/ (expecting /\ e.kind # "started")

ReopenSilently(e) ==       \* mutant: the failure is not signalled
  /\ fault = "reopen" /\ e.kind = "evicted"
  /\ expecting' = TRUE /\ closed' = TRUE /\ file' = Append(file, e)
  /\ ReturnWith("err")
  /\ UNCHANGED <<sent, signal>>

ReopenFails(e) ==
  /\ fault = "reopen" /\ e.kind = "evicted"
  /\ expecting' = TRUE /\ Complete("err") /\ closed' = TRUE /\ file' = Append(file, e)
  /\ ReturnWith("err")
  /\ UNCHANGED sent

FileTruncatedAtFinish(e) ==  \* mutant: whatever the exit code
  IF e.kind \in {"evicted", "finished"} THEN <<>> ELSE Append(file, e)
FileKeptAtEviction(e) == Append(file, e)     \* mutant: the old attempt stays
\* The file once e was mirrored, and the sinks reopened after an eviction.
FileAfter(e) == IF e.kind = "evicted" THEN <<>> ELSE Append(file, e)

EndsAtFinish(e) == e.kind = "finished"       \* mutant: last_message is not asked
EndsStream(e) == e.last /\ ~ExpectingAfter(e)

\* Mirror, truncate after an eviction, broadcast, and stop at the last message of
\* an attempt that no retry follows.
Deliver(e) ==
  /\ file' = FileAfter(e)
  /\ expecting' = ExpectingAfter(e)
  /\ sent' = Append(sent, e)
  /\ IF EndsStream(e)
     THEN closed' = TRUE /\ reader' = "flush"
     ELSE UNCHANGED <<closed, reader>>
  /\ UNCHANGED <<outcome, signal>>

ReadEvent ==
  /\ reader = "read" /\ fifo # <<>>
  /\ fifo' = Tail(fifo)
  /\ \/ Deliver(Head(fifo))
     \/ ReopenFails(Head(fifo))
     \/ fault = "write" /\ ReadError
  /\ UNCHANGED <<bazelVars, taskVars, fault>>

\* read() returns 0: the FIFO is empty and has no writer.
ReadEof ==
  /\ reader = "read" /\ fifo = <<>> /\ ~HasWriter
  /\ reader' = "checkFd"
  /\ UNCHANGED <<bazelVars, fifo, expecting, outcome, streamVars, sinkVars, taskVars, fault>>

CheckFdForgiving ==        \* mutant: a gap is always taken for the end
  /\ reader = "checkFd"
  /\ stage \notin Writing
  /\ reader' = "flush" /\ closed' = TRUE
  /\ UNCHANGED <<bazelVars, fifo, expecting, outcome, sent, sinkVars, taskVars, fault>>

CheckFdStrict ==           \* mutant: an end without last_message is an error
  /\ reader = "checkFd"
  /\ stage \in Writing \/ ~expecting
  /\ ReadError
  /\ UNCHANGED <<bazelVars, fifo, taskVars, fault>>

\* is_path_open_for_pid: while the server holds the FIFO the 0 is passed on, and
\* read_exact makes it an UnexpectedEof; otherwise it is the BrokenPipe that ends
\* an attempt.
CheckFd ==
  /\ reader = "checkFd"
  /\ \/ stage \in Writing /\ ReadError
     \/ /\ stage \notin Writing /\ expecting
        /\ reader' = "checkPid"
        /\ UNCHANGED <<expecting, outcome, streamVars, sinkVars>>
     \/ /\ stage \notin Writing /\ ~expecting
        /\ closed' = TRUE /\ reader' = "flush"
        /\ UNCHANGED <<expecting, outcome, sent, sinkVars>>
  /\ UNCHANGED <<bazelVars, fifo, taskVars, fault>>

CheckPidPatient ==         \* mutant: the client's death is not noticed
  /\ reader = "checkPid"
  /\ reader' = "read"
  /\ UNCHANGED <<bazelVars, fifo, expecting, outcome, streamVars, sinkVars, taskVars, fault>>

\* is_pid_alive(writer_pid): between two attempts, or no retry is coming.
CheckPid ==
  /\ reader = "checkPid"
  /\ \/ client = "alive" /\ reader' = "read" /\ UNCHANGED closed
     \/ client = "dead" /\ reader' = "flush" /\ closed' = TRUE
  /\ UNCHANGED <<bazelVars, fifo, expecting, outcome, sent, sinkVars, taskVars, fault>>

Flush ==
  /\ reader = "flush"
  /\ \/ Complete("ok") /\ ReturnWith("ok")
     \/ fault = "flush" /\ Complete("err") /\ ReturnWith("err")
  /\ UNCHANGED <<bazelVars, fifo, expecting, streamVars, file, taskVars, fault>>

-----------------------------------------------------------------------------
(* The task's thread.                                                      *)
SpawnReader ==
  /\ task = "spawn"
  /\ task' = "bind" /\ reader' = "sinks"
  /\ UNCHANGED <<bazelVars, fifo, expecting, outcome, streamVars, sinkVars, from, got, fault>>

\* The task drains its iterator before build.wait(), or leaves it alone.
BindIterator ==
  /\ task = "bind"
  /\ from' = IF closed THEN -1 ELSE Len(sent)
  /\ task' \in {"iterate", "childWait"}
  /\ UNCHANGED <<bazelVars, fifo, threadVars, streamVars, sinkVars, got, fault>>

Drained == from = -1 \/ from + got = Len(sent)

IteratorNext ==
  /\ task = "iterate" /\ ~Drained
  /\ got' = got + 1
  /\ UNCHANGED <<bazelVars, fifo, threadVars, streamVars, sinkVars, task, from, fault>>

\* The stream keeps the task's own clone of the broadcaster until it is joined:
\* only close() ends the iteration.
IteratorEnds ==
  /\ task = "iterate" /\ Drained /\ (closed \/ from = -1)
  /\ task' = "childWait"
  /\ UNCHANGED <<bazelVars, fifo, threadVars, streamVars, sinkVars, from, got, fault>>

ChildWait ==
  /\ task = "childWait" /\ client = "dead"
  /\ task' = "join"
  /\ UNCHANGED <<bazelVars, fifo, threadVars, streamVars, sinkVars, from, got, fault>>

\* The reader's error makes build.wait() fail.
Join ==
  /\ task = "join" /\ reader = "done"
  /\ task' = IF outcome = "ok" THEN "sinkWait" ELSE "failed"
  /\ UNCHANGED <<bazelVars, fifo, threadVars, streamVars, sinkVars, from, got, fault>>

SinkWait ==
  /\ task = "sinkWait" /\ signal # "none"
  /\ task' = "end"
  /\ UNCHANGED <<bazelVars, fifo, threadVars, streamVars, sinkVars, from, got, fault>>

-----------------------------------------------------------------------------
Bazel == ServerOpen \/ ServerOpened \/ WriteEvent \/ ServerClose \/ ClientExit
Reader == OpenSinks \/ OpenFifo \/ ReadEvent \/ ReadEof \/ CheckFd \/ CheckPid \/ Flush
Task == SpawnReader \/ BindIterator \/ IteratorNext \/ IteratorEnds \/ ChildWait
          \/ Join \/ SinkWait

Next == Bazel \/ BazelDies \/ Reader \/ Task

\* Threads and processes are scheduled, and a build that writes goes on to its
\* end; nothing must fail or die.
Spec == Init /\ [][Next]_vars
FairSpec == Spec /\ WF_vars(Reader) /\ WF_vars(Task)
                 /\ WF_vars(ServerOpen \/ ServerOpened \/ WriteEvent \/ ServerClose)
                 /\ WF_vars(ClientExit)

-----------------------------------------------------------------------------
TypeOK ==
  /\ fault \in Faults
  /\ client \in {"alive", "dead"}
  /\ stage \in Writing \cup {"idle", "opening"}
  /\ att \in 0..MaxAttempts /\ retrying \in BOOLEAN
  /\ written \in Seq(Event) /\ fifo \in Seq(Event) /\ Len(fifo) <= FifoCap
  /\ reader \in {"none", "sinks", "open", "read", "checkFd", "checkPid", "flush", "done"}
  /\ expecting \in BOOLEAN
  /\ outcome \in {"none", "ok", "err"} /\ (outcome = "none") = (reader # "done")
  /\ sent \in Seq(Event) /\ closed \in BOOLEAN
  /\ file \in Seq(Event) /\ signal \in {"none", "ok", "err"}
  /\ task \in {"spawn", "bind", "iterate", "childWait", "join", "sinkWait", "end", "failed"}
  /\ from \in -1..Len(sent) /\ got \in 0..Len(sent)

\* A stream that ends without an error is not cut off before a retry that is
\* still to come: neither the last_message nor the close of an evicted attempt
\* is the end.
GapIsNotTheEnd == closed /\ outcome # "err" => ~retrying

\* The reader answers Ok only when everything Bazel wrote was delivered: neither
\* a gap between attempts nor the client's early exit is taken for the end.
NothingLeftBehind == outcome = "ok" => sent = written

\* It does so at least for a build of one attempt, whatever the client does.
FirstAttemptDelivered == att = 1 => NothingLeftBehind

\* A stream that ended well is the stream that Bazel wrote (read loop of
\* build_event.rs, Pipe::read of galvanize).
StreamIsWhole == TypeOK /\ GapIsNotTheEnd /\ FirstAttemptDelivered

\* Nothing that Bazel does in an attempt that is not retried, crashing included,
\* makes the reader fail: an error is a file sink's.
OnlySinksFail == att = 1 /\ outcome = "err" => fault # "none"

\* Whichever way the reader ends, the file sink's waiter is told, and told the
\* same as the joiner.
SignalAgrees == reader = "done" => signal = outcome

\* The reader's seven ways out: each with the right answer, and the same one to
\* both who wait for it (build_event.rs:184).
EndsAgree == SignalAgrees /\ OnlySinksFail

\* k is the place of the last eviction in s, 0 if there is none.
LastEviction(s, k) ==
  /\ k > 0 => s[k].kind = "evicted"
  /\ \A i \in (k + 1)..Len(s) : s[i].kind # "evicted"

\* A file sink that reports ok holds what was broadcast since the last eviction,
\* all of it and nothing of the attempts before: the whole stream of a build
\* without one, and the last attempt of a build that was retried.
FileMirrorsStream ==
  signal = "ok" => \E k \in 0..Len(sent) :
    LastEviction(sent, k) /\ file = SubSeq(sent, k + 1, Len(sent))

\* Bazel waits in open() for a reader that has failed and left.
Abandoned == stage = "opening" /\ outcome = "err"

\* Once Bazel is about to open the stream, the task gets through its iteration,
\* build.wait() and sink.wait(); what can keep it is only an attempt that begins
\* after the reader failed.
TaskReturns == att > 0 ~> task \in {"end", "failed"} \/ Abandoned
=============================================================================
