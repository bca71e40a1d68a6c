------------------------------ MODULE ExecLog -------------------------------
(***************************************************************************)
(* The execution log of one ctx.bazel.build call                           *)
(* (crates/axl-runtime/src/engine/bazel/stream/execlog.rs): a thread reads *)
(* the file Bazel's server is still writing, decodes its entries and       *)
(* broadcasts them over a bounded ring to the decoded-file sinks           *)
(* (sink/execlog.rs) and to the execution_logs() iterator                  *)
(* (iter/execlog.rs); build.wait() joins them all.                         *)
(*                                                                         *)
(* Every clone of the ring's receiver is a subscriber of its own that the  *)
(* sender may not lap, the one the stream keeps for itself included.  An   *)
(* entry is read as a whole: one cut short is met as the end before it.    *)
(***************************************************************************)
EXTENDS Integers, Sequences, Functions

CONSTANTS
  Sinks,       \* the execution_log.file sinks a build may be given
  Iterations,  \* what the script may do with execution_logs(): "none",
               \* "drained" before wait(), or "held" unread across it
  Cap,         \* the ring's capacity, 1000 in the code
  MaxEntries,  \* bound: the entries Bazel writes
  Faults       \* what may fail: "create", "write", "flush" of a sink, "tee"

ASSUME ExecLogAssumption ==
  /\ Cap \in Nat \ {0} /\ MaxEntries \in Nat
  /\ "own" \notin Sinks /\ "iter" \notin Sinks
  /\ Iterations \subseteq {"none", "drained", "held"} /\ Iterations # {}
  /\ Faults \subseteq {"create", "write", "flush", "tee"}

VARIABLES
  client, server,  \* Bazel's two processes
  log,             \* its file: "absent", "open" in the server, "closed"
  written,         \* the entries in it, numbered from 1
  reader,          \* where the reader thread is
  read,            \* entries it has read
  hasReaders,      \* has_readers: it still decodes for the iterator
  outcome,         \* what it returned
  ring, closed,    \* the entries sent so far; the sender is closed or gone
  tail,            \* for each live receiver: the entries it has consumed
  from,            \* for each receiver made: where it started
  sink, file,      \* for each sink: where its thread is ("unused": it is not one
                   \* of this build's), the entries on disk
  handles,         \* file_sink_handles: the sinks in the order they were attached
  iteration, task, \* what this script does with the iterator; where it is
  result           \* what build.wait() returned

bazelVars == <<client, server, log, written>>
readerVars == <<reader, read, hasReaders, outcome>>
sinkVars == <<sink, file, handles>>
taskVars == <<iteration, task, result>>
vars == <<bazelVars, readerVars, ring, closed, tail, from, sinkVars, taskVars>>

Receivers == {"own", "iter"} \cup Sinks
FileSinks == {s \in Sinks : sink[s] # "unused"}
HasFileSinks == FileSinks # {}

Init ==
  /\ client = "alive" /\ server = "alive" /\ log = "absent" /\ written = 0
  /\ reader = "open" /\ read = 0 /\ hasReaders = TRUE /\ outcome = "none"
  /\ ring = <<>> /\ closed = FALSE
  /\ tail = [r \in {"own"} |-> 0] /\ from = tail
  /\ sink \in [Sinks -> {"none", "unused"}] /\ file = [s \in Sinks |-> <<>>]
  /\ handles = <<>>
  /\ iteration \in Iterations /\ task = "attach" /\ result = "none"

-----------------------------------------------------------------------------
(* Bazel: a server that writes the file and a client that may leave it     *)
(* early.  Nothing it does waits for the reader: the file is a plain one.  *)
ThreadsIdle == UNCHANGED <<readerVars, ring, closed, tail, from, sinkVars, taskVars>>

CreateLog ==
  /\ log = "absent" /\ client = "alive" /\ server = "alive"
  /\ log' = "open"
  /\ UNCHANGED <<client, server, written>>

WriteEntry ==
  /\ log = "open" /\ written < MaxEntries
  /\ written' = written + 1
  /\ UNCHANGED <<client, server, log>>

CloseLog ==
  /\ log = "open"
  /\ log' = "closed"
  /\ UNCHANGED <<client, server, written>>

ClientExit ==
  /\ client = "alive"
  /\ client' = "dead"
  /\ UNCHANGED <<server, log, written>>

ServerDies ==
  /\ server = "alive"
  /\ server' = "dead" /\ client' = "dead"
  /\ log' = IF log = "open" THEN "closed" ELSE log
  /\ UNCHANGED written

Bazel ==
  /\ CreateLog \/ WriteEntry \/ CloseLog \/ ClientExit \/ ServerDies
  /\ ThreadsIdle

-----------------------------------------------------------------------------
(* The ring.                                                               *)
Live == DOMAIN tail
Full == \E r \in Live : Len(ring) - tail[r] >= Cap
Push(entry) == ring' = Append(ring, entry)
\* A clone starts where the receiver it is made from stands, or at the newest
\* entry: the code does not depend on which.
Subscribe(r) ==
  \E start \in {tail["own"], Len(ring)} :
    /\ tail' = [x \in Live \cup {r} |-> IF x = r THEN start ELSE tail[x]]
    /\ from' = [x \in DOMAIN from \cup {r} |-> IF x = r THEN start ELSE from[x]]
Unsubscribe(r) == tail' = Restrict(tail, Live \ {r})
Consume(r) == tail' = [tail EXCEPT ![r] = @ + 1]
Pending(r) == tail[r] < Len(ring)
\* An empty ring taken for the end of the stream.
Empty(r) == ~Pending(r)
Disconnected(r) == closed /\ ~Pending(r)

-----------------------------------------------------------------------------
(* The reader thread.                                                      *)
ReaderReturns(how) ==
  /\ reader' = "done" /\ outcome' = how
  /\ closed' = TRUE
  /\ UNCHANGED <<read, hasReaders, ring>>

OpenLog ==
  /\ reader = "open"
  /\ \/ /\ log # "absent"
        /\ reader' = "read"
        /\ UNCHANGED <<read, hasReaders, outcome, ring, closed>>
     \/ /\ log # "absent" /\ "tee" \in Faults
        /\ ReaderReturns("io")
     \/ /\ log = "absent" /\ server = "dead"
        /\ ReaderReturns("io")

\* try_send: a full ring drops the entry, no receiver ends the decoding.
TrySend(entry) ==
  /\ hasReaders' = (hasReaders /\ Live # {})
  /\ IF hasReaders /\ Live # {} /\ ~Full THEN Push(entry) ELSE UNCHANGED ring

\* A file sink in place, but what the ring cannot take is dropped.
DeliverDropping(entry) == TrySend(entry) /\ UNCHANGED reader

Deliver(entry) ==
  IF HasFileSinks
  THEN /\ reader' = "send"
       /\ UNCHANGED <<hasReaders, ring>>
  ELSE /\ TrySend(entry)
       /\ UNCHANGED reader

ReadEntry ==
  /\ reader = "read" /\ read < written
  /\ \/ /\ read' = read + 1
        /\ Deliver(read + 1)
        /\ UNCHANGED <<outcome, closed>>
     \/ /\ "tee" \in Faults
        /\ ReaderReturns("io")

\* read() finds the end of what has been written so far ...
ReadNothing ==
  /\ reader = "read" /\ read = written
  /\ reader' = "checkFd"
  /\ UNCHANGED <<read, hasReaders, outcome, ring, closed>>

\* ... and only then are the server's descriptors looked at.
CheckFd ==
  /\ reader = "checkFd"
  /\ IF log = "open"
     THEN /\ reader' = "read"
          /\ UNCHANGED <<read, hasReaders, outcome, ring, closed>>
     ELSE \/ ReaderReturns("ok")
          \/ "tee" \in Faults /\ ReaderReturns("io")

\* The slowest receiver is not waited for.
SendLapping ==
  /\ reader = "send"
  /\ \/ /\ Live # {}
        /\ Push(read) /\ reader' = "read"
        /\ UNCHANGED <<read, hasReaders, outcome, closed>>
     \/ /\ Live = {}
        /\ ReaderReturns("send")

\* send: waits while the slowest receiver is a whole ring behind.
Send ==
  /\ reader = "send"
  /\ \/ /\ Live # {} /\ ~Full
        /\ Push(read) /\ reader' = "read"
        /\ UNCHANGED <<read, hasReaders, outcome, closed>>
     \/ /\ Live = {}
        /\ ReaderReturns("send")

Reader ==
  /\ OpenLog \/ ReadEntry \/ ReadNothing \/ CheckFd \/ Send
  /\ UNCHANGED <<bazelVars, tail, from, sinkVars, taskVars>>

-----------------------------------------------------------------------------
(* A decoded-file sink: ExecLogSink::spawn_file.                           *)
SinkGoes(s, to) == sink' = [sink EXCEPT ![s] = to]
SinkFails(s) == SinkGoes(s, "err") /\ Unsubscribe(s) /\ UNCHANGED file

SinkCreate(s) ==
  /\ sink[s] = "create"
  /\ \/ SinkGoes(s, "recv") /\ UNCHANGED <<file, tail>>
     \/ "create" \in Faults /\ SinkFails(s)

SinkRecv(s) ==
  /\ sink[s] = "recv" /\ Pending(s)
  /\ \/ /\ Consume(s)
        /\ file' = [file EXCEPT ![s] = Append(@, ring[tail[s] + 1])]
        /\ UNCHANGED sink
     \/ "write" \in Faults /\ SinkFails(s)

\* The BufWriter is dropped without a flush of its own: what it still holds is
\* written, or the error is lost with it.
SinkEnd(s) ==
  /\ sink[s] = "recv" /\ Disconnected(s)
  /\ SinkGoes(s, "ok") /\ Unsubscribe(s)
  /\ \/ UNCHANGED file
     \/ /\ "flush" \in Faults
        /\ \E n \in 0..Len(file[s]) : file' = [file EXCEPT ![s] = SubSeq(@, 1, n)]

Sink(s) ==
  /\ SinkCreate(s) \/ SinkRecv(s) \/ SinkEnd(s)
  /\ UNCHANGED <<handles, bazelVars, readerVars, ring, closed, from, taskVars>>

-----------------------------------------------------------------------------
(* The task's thread: Build::spawn, the script, Build::wait.               *)
AttachSink(s) ==
  /\ task = "attach" /\ sink[s] = "none"
  /\ Subscribe(s) /\ SinkGoes(s, "create") /\ handles' = Append(handles, s)
  /\ UNCHANGED <<iteration, task, result, file>>

Spawned ==
  /\ task = "attach" /\ \A s \in FileSinks : sink[s] # "none"
  /\ task' = IF iteration = "none" THEN "wait" ELSE "subscribe"
  /\ UNCHANGED <<iteration, result, tail, from, sinkVars>>

\* execution_logs()
ExecutionLogs ==
  /\ task = "subscribe"
  /\ Subscribe("iter")
  /\ task' = IF iteration = "drained" THEN "iterate" ELSE "wait"
  /\ UNCHANGED <<iteration, result, sinkVars>>

\* `for entry in ...` runs until the sender is closed.
IteratorNext ==
  /\ task = "iterate"
  /\ \/ Pending("iter") /\ Consume("iter") /\ UNCHANGED task
     \/ Disconnected("iter") /\ task' = "wait" /\ UNCHANGED tail
  /\ UNCHANGED <<iteration, result, from, sinkVars>>

\* The receiver is kept until the reader is joined.
ChildWaitHolding ==
  /\ task = "wait" /\ client = "dead"
  /\ task' = "join"
  /\ UNCHANGED <<iteration, result, tail, from, sinkVars>>

\* The child is reaped; join() first gives up the stream's own receiver.
ChildWait ==
  /\ task = "wait" /\ client = "dead"
  /\ task' = "join" /\ Unsubscribe("own")
  /\ UNCHANGED <<iteration, result, from, sinkVars>>

Returns(how) == task' = "done" /\ result' = how

\* The reader, then the sinks one after the other: the first that failed is
\* reported without waiting for those behind it, the reader's own result last.
Join ==
  /\ task = "join" /\ reader = "done"
  /\ \/ /\ \E i \in DOMAIN handles : /\ sink[handles[i]] = "err"
                                     /\ \A j \in 1..(i - 1) : sink[handles[j]] = "ok"
        /\ Returns("error")
     \/ /\ \A i \in DOMAIN handles : sink[handles[i]] = "ok"
        /\ Returns(IF outcome = "ok" THEN "ok" ELSE "error")
  /\ UNCHANGED <<iteration, tail, from, sinkVars>>

Task ==
  /\ \/ \E s \in Sinks : AttachSink(s)
     \/ Spawned \/ ExecutionLogs \/ IteratorNext \/ ChildWait \/ Join
  /\ UNCHANGED <<bazelVars, readerVars, ring, closed>>

Next == Bazel \/ Reader \/ Task \/ \E s \in Sinks : Sink(s)

\* Threads are scheduled; Bazel closes the log it has opened and its client
\* leaves.  Nothing must be created, written, fail or die.
Spec == Init /\ [][Next]_vars
FairSpec == Spec /\ WF_vars(Reader) /\ WF_vars(Task)
                 /\ (\A s \in Sinks : WF_vars(Sink(s)))
                 /\ WF_vars(CloseLog /\ ThreadsIdle) /\ WF_vars(ClientExit /\ ThreadsIdle)

-----------------------------------------------------------------------------
Entries == Seq(1..MaxEntries)

TypeOK ==
  /\ client \in {"alive", "dead"} /\ server \in {"alive", "dead"}
  /\ log \in {"absent", "open", "closed"} /\ written \in 0..MaxEntries
  /\ reader \in {"open", "read", "checkFd", "send", "done"}
  /\ read \in 0..written /\ hasReaders \in BOOLEAN
  /\ outcome \in {"none", "ok", "io", "send"} /\ closed = (reader = "done")
  /\ ring \in Entries
  /\ DOMAIN from \subseteq Receivers /\ Live \subseteq DOMAIN from
  /\ \A r \in DOMAIN from : from[r] \in Nat
  /\ \A r \in Live : tail[r] \in from[r]..Len(ring) /\ Len(ring) - tail[r] <= Cap
  /\ sink \in [Sinks -> {"unused", "none", "create", "recv", "ok", "err"}]
  /\ file \in [Sinks -> Entries]
  /\ handles \in Seq(Sinks) /\ IsInjective(handles)
  /\ Range(handles) = FileSinks \cap DOMAIN from
  /\ iteration \in Iterations
  /\ task \in {"attach", "subscribe", "iterate", "wait", "join", "done"}
  /\ result \in {"none", "ok", "error"} /\ (result # "none") = (task = "done")

\* When build.wait() succeeds, every decoded-file sink has on disk, in order and
\* without a gap, all the reader read from the log since the sink subscribed.
NoSinkGap ==
  result = "ok" /\ "flush" \notin Faults =>
    \A s \in FileSinks : file[s] = [i \in 1..(read - from[s]) |-> from[s] + i]

\* What the ring and its receivers hold, and what a successful build leaves in the
\* file sinks (spawn_from_file and join of execlog.rs).
SinksSound == TypeOK /\ NoSinkGap

\* The reader's "no receivers" error is only ever the echo of sinks that failed:
\* however the sinks' start and the stream's own receiver interleave with the
\* log, it never stops for want of a receiver that is still to come.
SendErrorIsSinks == outcome = "send" => \A s \in FileSinks : sink[s] = "err"

\* Once the log exists or the server is gone, build.wait() is reached and
\* returns, unless the script keeps an unread iterator next to a file sink.
WaitReturns ==
  (log # "absent" \/ server = "dead") /\ ~(HasFileSinks /\ iteration # "none")
    ~> task = "done"

\* The same with a file sink and an iterator drained before wait().
DrainedWaitReturns ==
  (log # "absent" \/ server = "dead") /\ iteration # "held" ~> task = "done"
=============================================================================
