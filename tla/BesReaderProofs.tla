--------------------------- MODULE BesReaderProofs ---------------------------
(***************************************************************************)
(* What the BES reader keeps, for any number of attempts, capacity of the  *)
(* FIFO, faults of the sinks and deaths of Bazel.                          *)
(*                                                                         *)
(* The reader never sees `retrying`; it infers it from the events.  That   *)
(* the inference is right needs expecting_retry to say of the prefix read  *)
(* what Bazel's own state says of the whole stream (Unanswered, Expects),  *)
(* and the last message of an attempt that no retry follows to be the last *)
(* event there is (BazelOK).                                               *)
(***************************************************************************)
EXTENDS BesReader, SequenceTheorems, TLAPS

\* The parts of TypeOK.
BazelTypes ==
  /\ fault \in Faults
  /\ client \in {"alive", "dead"} /\ stage \in Writing \cup {"idle", "opening"}
  /\ att \in 0..MaxAttempts /\ retrying \in BOOLEAN /\ written \in Seq(Event)
FifoTypes == fifo \in Seq(Event) /\ Len(fifo) <= FifoCap
ReaderTypes ==
  /\ reader \in {"none", "sinks", "open", "read", "checkFd", "checkPid", "flush", "done"}
  /\ expecting \in BOOLEAN
  /\ outcome \in {"none", "ok", "err"} /\ (outcome = "none" <=> reader # "done")
StreamTypes ==
  /\ sent \in Seq(Event) /\ closed \in BOOLEAN
  /\ file \in Seq(Event) /\ signal \in {"none", "ok", "err"}
TaskTypes ==
  /\ task \in {"spawn", "bind", "iterate", "childWait", "join", "sinkWait", "end", "failed"}
  /\ from \in -1..Len(sent) /\ got \in 0..Len(sent)

\* Of the first k events, an eviction is the newest thing but for its tail.
Unanswered(k) ==
  \E i \in 1..k : /\ written[i].kind = "evicted"
                  /\ \A j \in 1..k : i < j => written[j].kind # "started"

BazelOK ==
  /\ stage \in Writing \cup {"opening"} => att > 0
  /\ att = 0 => written = <<>> /\ stage = "idle"
  /\ stage = "started" => written # <<>> /\ written[Len(written)].kind = "started"
  /\ retrying => /\ att < MaxAttempts /\ Unanswered(Len(written))
                 /\ stage \notin {"opening", "begun", "started"}
  /\ client = "dead" => ~retrying /\ stage \notin {"opening", "begun", "started"}
  /\ \A i \in 1..Len(written) :
       written[i].last /\ ~Unanswered(i) =>
         i = Len(written) /\ stage \in {"complete", "idle"} /\ ~retrying

\* What was broadcast and what is in the FIFO make up what Bazel wrote.
Carried ==
  outcome # "err" =>
    /\ Len(written) = Len(sent) + Len(fifo)
    /\ \A i \in 1..Len(sent) : sent[i] = written[i]
    /\ \A i \in 1..Len(fifo) : fifo[i] = written[Len(sent) + i]

Expects == outcome # "err" => (expecting <=> Unanswered(Len(sent)))

\* The gap between two attempts: what the looks at the descriptors and at the
\* client may still find.
GapOK ==
  /\ reader = "checkFd" /\ ~expecting => ~retrying /\ stage = "idle" /\ fifo = <<>>
  /\ reader \in {"checkFd", "checkPid"} /\ att = 1 => stage = "idle" /\ fifo = <<>>

EndOK ==
  /\ reader \notin {"flush", "done"} => ~closed
  /\ reader = "flush" \/ outcome = "ok" => closed
  /\ reader \in {"read", "checkFd", "checkPid", "flush"} \/ closed => att > 0
  /\ closed /\ outcome # "err" => ~retrying /\ stage \in {"tail", "complete", "idle"}
  /\ closed /\ outcome # "err" /\ att = 1 => fifo = <<>> /\ stage \in {"complete", "idle"}

SignalOK ==
  /\ reader # "done" => signal = "none"
  /\ SignalAgrees
  /\ att <= 1 /\ outcome = "err" => fault # "none"

\* f is what follows the last eviction of s.
Since(s, f) ==
  \E k \in 0..Len(s) : /\ LastEviction(s, k)
                       /\ Len(f) = Len(s) - k
                       /\ \A i \in 1..Len(f) : f[i] = s[k + i]
Mirrored == outcome # "err" => Since(sent, file)

TaskOK ==
  /\ from # -1 => from + got <= Len(sent)
  /\ task \in {"spawn", "bind"} => got = 0
  /\ task = "spawn" => reader = "none"

IInv ==
  /\ BazelTypes /\ FifoTypes /\ ReaderTypes /\ StreamTypes /\ TaskTypes
  /\ BazelOK /\ Carried /\ Expects
  /\ GapOK /\ EndOK /\ SignalOK /\ Mirrored /\ TaskOK

-----------------------------------------------------------------------------
LEMMA TypesSplit ==
  TypeOK <=> BazelTypes /\ FifoTypes /\ ReaderTypes /\ StreamTypes /\ TaskTypes
BY DEF TypeOK, BazelTypes, FifoTypes, ReaderTypes, StreamTypes, TaskTypes

-----------------------------------------------------------------------------
(* Whether an eviction of the first k events is unanswered.                *)

\* One more event answers it, renews it, or leaves it.
LEMMA UnansweredNext ==
  ASSUME written \in Seq(Event), NEW k \in 0..Len(written), k < Len(written)
  PROVE  Unanswered(k + 1) <=> \/ written[k + 1].kind = "evicted"
                               \/ Unanswered(k) /\ written[k + 1].kind # "started"
<1>1. ASSUME Unanswered(k + 1), written[k + 1].kind # "evicted"
      PROVE  Unanswered(k) /\ written[k + 1].kind # "started"
  <2>1. PICK i \in 1..(k + 1) :
           /\ written[i].kind = "evicted"
           /\ \A j \in 1..(k + 1) : i < j => written[j].kind # "started"
    BY <1>1 DEF Unanswered
  <2>2. i \in 1..k
    BY <1>1, <2>1
  <2>3. \A j \in 1..k : j \in 1..(k + 1)
    OBVIOUS
  <2>4. Unanswered(k)
    BY <2>1, <2>2, <2>3 DEF Unanswered
  <2> QED BY <2>1, <2>2, <2>4
<1>2. ASSUME written[k + 1].kind = "evicted"
      PROVE  Unanswered(k + 1)
  BY <1>2 DEF Unanswered
<1>3. ASSUME Unanswered(k), written[k + 1].kind # "started"
      PROVE  Unanswered(k + 1)
  <2>1. PICK i \in 1..k :
           /\ written[i].kind = "evicted"
           /\ \A j \in 1..k : i < j => written[j].kind # "started"
    BY <1>3 DEF Unanswered
  <2>2. \A j \in 1..(k + 1) : j \in 1..k \/ j = k + 1
    OBVIOUS
  <2> QED BY <1>3, <2>1, <2>2 DEF Unanswered
<1> QED BY <1>1, <1>2, <1>3

\* It is a matter of what is written.
LEMMA UnansweredStays ==
  ASSUME UNCHANGED written
  PROVE  \A k : Unanswered(k)' <=> Unanswered(k)
BY DEF Unanswered

\* What is appended changes nothing about the events before it.
LEMMA UnansweredGrows ==
  ASSUME written \in Seq(Event), NEW e \in Event, written' = Append(written, e)
  PROVE  /\ \A k \in 0..Len(written) : Unanswered(k)' <=> Unanswered(k)
         /\ Unanswered(Len(written))' <=>
              e.kind = "evicted" \/ (Unanswered(Len(written)) /\ e.kind # "started")
<1>1. /\ Len(written') = Len(written) + 1
      /\ \A i \in 1..Len(written) : written'[i] = written[i]
      /\ written'[Len(written) + 1] = e
  OBVIOUS
<1>2. ASSUME NEW k \in 0..Len(written)
      PROVE  Unanswered(k)' <=> Unanswered(k)
  <2>1. \A i \in 1..k : written'[i] = written[i]
    BY <1>1
  <2> QED BY <2>1 DEF Unanswered
<1>3. ASSUME Unanswered(Len(written))', e.kind # "evicted"
      PROVE  Unanswered(Len(written)) /\ e.kind # "started"
  <2>1. PICK i \in 1..(Len(written) + 1) :
           /\ written'[i].kind = "evicted"
           /\ \A j \in 1..(Len(written) + 1) : i < j => written'[j].kind # "started"
    BY <1>3 DEF Unanswered
  <2>2. i \in 1..Len(written)
    BY <1>1, <1>3, <2>1
  <2>3. e.kind # "started"
    BY <1>1, <2>1, <2>2
  <2>4. \A j \in 1..Len(written) : i < j => written[j].kind # "started"
    BY <1>1, <2>1
  <2> QED BY <1>1, <2>1, <2>2, <2>3, <2>4 DEF Unanswered
<1>4. ASSUME e.kind = "evicted"
      PROVE  Unanswered(Len(written))'
  <2>1. \A j \in 1..(Len(written) + 1) : ~(Len(written) + 1 < j)
    OBVIOUS
  <2> QED BY <1>1, <1>4, <2>1 DEF Unanswered
<1>5. ASSUME Unanswered(Len(written)), e.kind # "started"
      PROVE  Unanswered(Len(written))'
  <2>1. PICK i \in 1..Len(written) :
           /\ written[i].kind = "evicted"
           /\ \A j \in 1..Len(written) : i < j => written[j].kind # "started"
    BY <1>5 DEF Unanswered
  <2>2. \A j \in 1..(Len(written) + 1) : j \in 1..Len(written) \/ j = Len(written) + 1
    OBVIOUS
  <2> QED BY <1>1, <1>5, <2>1, <2>2 DEF Unanswered
<1> QED BY <1>2, <1>3, <1>4, <1>5

-----------------------------------------------------------------------------
(* The initial states.                                                     *)
LEMMA InitIInv == Init => IInv
<1> SUFFICES ASSUME Init PROVE IInv
  OBVIOUS
<1> USE DEF Init
<1>0. <<>> \in Seq(Event) /\ Len(<<>>) = 0
  OBVIOUS
<1>1. BazelTypes
  <2>1. retrying \in BOOLEAN
    OBVIOUS
  <2>2. att \in 0..MaxAttempts
    BY BesReaderAssumption
  <2> QED BY <1>0, <2>1, <2>2 DEF BazelTypes, Writing
<1>7. FifoTypes
  BY BesReaderAssumption DEF FifoTypes
<1>8. ReaderTypes
  BY DEF ReaderTypes
<1>9. StreamTypes
  BY <1>0 DEF StreamTypes
<1>10. TaskTypes
  BY DEF TaskTypes
<1>2. BazelOK
  BY DEF BazelOK, Writing
<1>3. Carried /\ Mirrored
  BY DEF Carried, Mirrored, Since, LastEviction
<1>4. Expects
  BY DEF Expects, Unanswered
<1>5. GapOK /\ EndOK /\ TaskOK
  BY DEF GapOK, EndOK, TaskOK
<1>6. SignalOK
  BY DEF SignalOK, SignalAgrees
<1> QED BY <1>1, <1>2, <1>3, <1>4, <1>5, <1>6, <1>7, <1>8, <1>9, <1>10 DEF IInv

-----------------------------------------------------------------------------
(* Bazel.  Its steps leave the threads alone.                              *)
LEMMA QuietKeeps ==
  ASSUME IInv, BazelTypes', BazelOK', GapOK', EndOK', att' <= 1 => att <= 1,
         UNCHANGED <<written, fifo, threadVars, streamVars, sinkVars, taskVars, fault>>
  PROVE  IInv'
<1> USE DEF IInv, threadVars, streamVars, sinkVars, taskVars
<1>1. FifoTypes' /\ ReaderTypes' /\ StreamTypes' /\ TaskTypes'
  BY DEF FifoTypes, ReaderTypes, StreamTypes, TaskTypes
<1>2. Carried'
  BY DEF Carried
<1>3. Expects'
  BY UnansweredStays DEF Expects
<1>4. SignalOK'
  BY DEF SignalOK, SignalAgrees
<1>5. Mirrored'
  BY DEF Mirrored, Since, LastEviction
<1>6. TaskOK'
  BY DEF TaskOK
<1> QED BY <1>1, <1>2, <1>3, <1>4, <1>5, <1>6

LEMMA ServerOpenKeeps == IInv /\ ServerOpen => IInv'
<1> SUFFICES ASSUME IInv, ServerOpen PROVE IInv'
  OBVIOUS
<1> USE DEF ServerOpen, threadVars, streamVars, sinkVars, taskVars
<1>1. att \in 0..MaxAttempts /\ (att = 0 \/ retrying) /\ (retrying => att < MaxAttempts)
  BY DEF IInv, BazelTypes, BazelOK
<1>2. BazelTypes'
  <2>1. att' \in 0..MaxAttempts
    BY <1>1, BesReaderAssumption
  <2>2. retrying' \in BOOLEAN
    OBVIOUS
  <2> QED BY <2>1, <2>2 DEF IInv, BazelTypes
<1>3. ASSUME NEW i \in 1..Len(written), written[i].last
      PROVE  Unanswered(i)
  BY <1>1, <1>3 DEF IInv, BazelOK
<1>4. BazelOK'
  BY <1>1, <1>3, UnansweredStays DEF BazelOK, IInv, Writing
<1>5. att > 0 => retrying
  BY <1>1
<1>6. GapOK'
  BY <1>1, <1>5 DEF IInv, GapOK, EndOK
<1>7. EndOK'
  BY <1>1, <1>5 DEF IInv, EndOK
<1> QED BY <1>1, <1>2, <1>4, <1>6, <1>7, QuietKeeps

LEMMA ServerOpenedKeeps == IInv /\ ServerOpened => IInv'
<1> SUFFICES ASSUME IInv, ServerOpened PROVE IInv'
  OBVIOUS
<1> USE DEF ServerOpened, threadVars, streamVars, sinkVars, taskVars
<1>1. BazelTypes'
  BY DEF IInv, BazelTypes, Writing
<1>2. BazelOK'
  BY UnansweredStays DEF BazelOK, IInv, Writing
<1>3. GapOK'
  BY DEF IInv, GapOK
<1>4. EndOK'
  BY DEF IInv, EndOK
<1> QED BY <1>1, <1>2, <1>3, <1>4, QuietKeeps DEF IInv, BazelTypes

LEMMA ServerCloseKeeps == IInv /\ ServerClose => IInv'
<1> SUFFICES ASSUME IInv, ServerClose PROVE IInv'
  OBVIOUS
<1> USE DEF ServerClose, threadVars, streamVars, sinkVars, taskVars
<1>1. BazelTypes'
  BY DEF IInv, BazelTypes, Writing
<1>2. BazelOK'
  BY UnansweredStays DEF BazelOK, IInv, Writing
<1>3. GapOK'
  BY DEF IInv, GapOK
<1>4. EndOK'
  BY DEF IInv, EndOK
<1> QED BY <1>1, <1>2, <1>3, <1>4, QuietKeeps

LEMMA ClientExitKeeps == IInv /\ ClientExit => IInv'
<1> SUFFICES ASSUME IInv, ClientExit PROVE IInv'
  OBVIOUS
<1> USE DEF ClientExit, threadVars, streamVars, sinkVars, taskVars
<1>1. BazelTypes'
  BY DEF IInv, BazelTypes
<1>2. BazelOK'
  BY UnansweredStays DEF BazelOK, IInv, Writing
<1>3. GapOK'
  BY DEF IInv, GapOK
<1>4. EndOK'
  BY DEF IInv, EndOK
<1> QED BY <1>1, <1>2, <1>3, <1>4, QuietKeeps

LEMMA BazelDiesKeeps == IInv /\ BazelDies => IInv'
<1> SUFFICES ASSUME IInv, BazelDies PROVE IInv'
  OBVIOUS
<1> USE DEF BazelDies, threadVars, streamVars, sinkVars, taskVars
<1>1. BazelTypes'
  BY DEF IInv, BazelTypes
<1>2. BazelOK'
  BY UnansweredStays DEF BazelOK, IInv, Writing
<1>3. GapOK'
  BY DEF IInv, GapOK
<1>4. EndOK'
  BY DEF IInv, EndOK
<1> QED BY <1>1, <1>2, <1>3, <1>4, QuietKeeps

\* One event more in the FIFO and in what is written.
LEMMA WriteKeeps ==
  ASSUME IInv, NEW kind, NEW last, NEW then, Write(kind, last, then),
         kind \in {"started", "finished", "evicted", "other"}, last \in BOOLEAN,
         stage \in {"begun", "started", "tail"}, then \in {"started", "tail", "complete"},
         kind = "started" <=> stage = "begun", kind = "started" <=> then = "started",
         last => then = "complete",
         stage = "tail" => then = "complete",
         retrying' \in BOOLEAN,
         retrying' # retrying => kind = "evicted" /\ att < MaxAttempts /\ stage = "started",
         UNCHANGED <<client, att, threadVars, streamVars, sinkVars, taskVars, fault>>
  PROVE  IInv'
<1> USE DEF threadVars, streamVars, sinkVars, taskVars
<1> DEFINE e == [att |-> att, kind |-> kind, last |-> last]
<1>1. /\ HasReader /\ Len(fifo) < FifoCap
      /\ fifo' = Append(fifo, e) /\ written' = Append(written, e) /\ stage' = then
  BY DEF Write
<1>2. att \in 1..MaxAttempts /\ att > 0
  BY DEF IInv, BazelOK, BazelTypes, Writing
<1>3. e \in Event
  BY <1>2 DEF Event
<1>4. written \in Seq(Event) /\ fifo \in Seq(Event) /\ sent \in Seq(Event)
  BY DEF IInv, BazelTypes, FifoTypes, StreamTypes
<1> HIDE DEF e
<1>5. /\ Len(written') = Len(written) + 1 /\ written' \in Seq(Event)
      /\ \A i \in 1..Len(written) : written'[i] = written[i]
      /\ written'[Len(written) + 1] = e
  BY <1>1, <1>3, <1>4
<1>6. /\ Len(fifo') = Len(fifo) + 1 /\ fifo' \in Seq(Event)
      /\ \A i \in 1..Len(fifo) : fifo'[i] = fifo[i]
      /\ fifo'[Len(fifo) + 1] = e
  BY <1>1, <1>3, <1>4
<1>7. /\ \A k \in 0..Len(written) : Unanswered(k)' <=> Unanswered(k)
      /\ Unanswered(Len(written))' <=>
           kind = "evicted" \/ (Unanswered(Len(written)) /\ kind # "started")
  BY <1>1, <1>3, <1>4, UnansweredGrows DEF e
<1>8. BazelTypes'
  BY <1>1, <1>5 DEF IInv, BazelTypes, Writing
<1>9. FifoTypes'
  BY <1>1, <1>4, <1>6, BesReaderAssumption DEF FifoTypes
<1>10. ReaderTypes' /\ StreamTypes' /\ TaskTypes'
  BY DEF IInv, ReaderTypes, StreamTypes, TaskTypes
<1>11. BazelOK'
  <2>1. stage = "started" => ~Unanswered(Len(written)) /\ ~retrying
    <3>1. ASSUME stage = "started" PROVE ~Unanswered(Len(written))
      <4>1. written # <<>> /\ written[Len(written)].kind = "started"
        BY <3>1 DEF IInv, BazelOK
      <4> QED BY <4>1 DEF Unanswered
    <3> QED BY <3>1 DEF IInv, BazelOK
  <2>2. retrying' => /\ att' < MaxAttempts /\ Unanswered(Len(written))'
                     /\ stage' \notin {"opening", "begun", "started"}
    BY <1>1, <1>7, <2>1 DEF IInv, BazelOK
  <2>3. ASSUME NEW i \in 1..Len(written'), written'[i].last, ~Unanswered(i)'
        PROVE  i = Len(written') /\ stage' \in {"complete", "idle"} /\ ~retrying'
    <3>1. CASE i \in 1..Len(written)
      <4>1. written[i].last /\ ~Unanswered(i)
        BY <1>5, <1>7, <2>3, <3>1
      <4> QED BY <3>1, <4>1 DEF IInv, BazelOK
    <3>2. CASE i = Len(written) + 1
      <4>1. last /\ ~Unanswered(Len(written))'
        BY <1>5, <2>3, <3>2 DEF e
      <4> QED BY <1>1, <1>5, <2>2, <3>2, <4>1
    <3> QED BY <1>4, <1>5, <3>1, <3>2
  <2>4. stage' = "started" => written' # <<>> /\ written'[Len(written')].kind = "started"
    BY <1>1, <1>4, <1>5 DEF e
  <2>5. client' = "dead" => ~retrying' /\ stage' \notin {"opening", "begun", "started"}
    BY <1>1, <2>1 DEF IInv, BazelOK
  <2> QED BY <1>2, <2>2, <2>3, <2>4, <2>5 DEF BazelOK, Writing
<1>12. Carried'
  <2> SUFFICES ASSUME outcome # "err" PROVE Carried'
    BY DEF Carried
  <2>1. /\ Len(written) = Len(sent) + Len(fifo)
        /\ \A i \in 1..Len(sent) : sent[i] = written[i]
        /\ \A i \in 1..Len(fifo) : fifo[i] = written[Len(sent) + i]
    BY DEF IInv, Carried
  <2>2. \A i \in 1..Len(sent) : i \in 1..Len(written)
    BY <1>4, <2>1
  <2>3. \A i \in 1..Len(fifo) : Len(sent) + i \in 1..Len(written)
    BY <1>4, <2>1
  <2>4. \A i \in 1..Len(fifo') : fifo'[i] = written'[Len(sent) + i]
    <3>1. ASSUME NEW i \in 1..Len(fifo) PROVE fifo'[i] = written'[Len(sent) + i]
      BY <1>5, <1>6, <2>1, <2>3
    <3>2. fifo'[Len(fifo) + 1] = written'[Len(sent) + (Len(fifo) + 1)]
      BY <1>4, <1>5, <1>6, <2>1
    <3>3. \A i \in 1..Len(fifo') : i \in 1..Len(fifo) \/ i = Len(fifo) + 1
      BY <1>4, <1>6
    <3> QED BY <3>1, <3>2, <3>3
  <2>5. Len(written') = Len(sent) + Len(fifo')
    BY <1>4, <1>5, <1>6, <2>1
  <2>6. \A i \in 1..Len(sent) : sent[i] = written'[i]
    BY <1>5, <2>1, <2>2
  <2> QED BY <2>4, <2>5, <2>6 DEF Carried
<1>13. Expects'
  <2>1. outcome # "err" => Len(sent) \in 0..Len(written)
    BY <1>4 DEF IInv, Carried
  <2>2. outcome # "err" => (Unanswered(Len(sent))' <=> Unanswered(Len(sent)))
    <3>1. Len(sent)' = Len(sent)
      OBVIOUS
    <3> QED BY <1>7, <2>1, <3>1 DEF Unanswered
  <2> QED BY <2>2 DEF IInv, Expects
<1>14. GapOK'
  BY <1>2 DEF IInv, GapOK
<1>15. EndOK'
  BY <1>1, <1>2 DEF IInv, EndOK
<1>16. SignalOK'
  BY DEF IInv, SignalOK, SignalAgrees
<1>17. Mirrored' /\ TaskOK'
  BY DEF IInv, Mirrored, TaskOK, Since, LastEviction
<1> QED BY <1>8, <1>9, <1>10, <1>11, <1>12, <1>13, <1>14, <1>15, <1>16, <1>17 DEF IInv

LEMMA WriteEventKeeps == IInv /\ WriteEvent => IInv'
<1> SUFFICES ASSUME IInv, WriteEvent PROVE IInv'
  OBVIOUS
<1>1. retrying \in BOOLEAN
  BY DEF IInv, BazelTypes
<1>2. UNCHANGED <<client, att, threadVars, streamVars, sinkVars, taskVars, fault>>
  BY DEF WriteEvent
<1>3. CASE stage = "begun" /\ Write("started", FALSE, "started") /\ UNCHANGED retrying
  BY <1>1, <1>2, <1>3, WriteKeeps
<1>4. CASE /\ stage = "started" /\ UNCHANGED retrying
           /\ Write("finished", FALSE, "tail") \/ Write("finished", TRUE, "complete")
  BY <1>1, <1>2, <1>4, WriteKeeps
<1>5. CASE /\ stage = "started"
           /\ Write("evicted", FALSE, "tail") \/ Write("evicted", TRUE, "complete")
           /\ retrying' \in IF att < MaxAttempts THEN BOOLEAN ELSE {FALSE}
  <2>1. ~retrying
    <3>1. stage = "started"
      BY <1>5
    <3> QED BY <3>1 DEF IInv, BazelOK
  <2>2. retrying' \in BOOLEAN /\ (retrying' # retrying => att < MaxAttempts)
    BY <1>1, <1>5, <2>1
  <2> QED BY <1>2, <1>5, <2>2, WriteKeeps
<1>6. CASE stage = "tail" /\ Write("other", TRUE, "complete") /\ UNCHANGED retrying
  BY <1>1, <1>2, <1>6, WriteKeeps
<1> QED BY <1>3, <1>4, <1>5, <1>6 DEF WriteEvent

-----------------------------------------------------------------------------
(* The reader.  Its steps leave Bazel alone.                               *)
LEMMA BazelRests ==
  ASSUME BazelTypes, BazelOK, UNCHANGED <<bazelVars, fault>>
  PROVE  BazelTypes' /\ BazelOK'
BY UnansweredStays DEF BazelTypes, BazelOK, bazelVars

\* A way out with an error: the signal is completed, and what holds of a stream
\* that has not failed is no longer asked.
LEMMA FailureKeeps ==
  ASSUME IInv, UNCHANGED <<bazelVars, taskVars, fault, sent>>, FifoTypes',
         reader \in {"sinks", "open", "read", "checkFd", "checkPid", "flush"},
         Complete("err"), ReturnWith("err"), att <= 1 => fault # "none",
         closed' \in BOOLEAN, closed' => att > 0, file' \in Seq(Event), expecting' \in BOOLEAN
  PROVE  IInv'
<1> USE DEF taskVars, Complete, ReturnWith
<1>1. BazelTypes' /\ BazelOK' /\ UNCHANGED att
  BY BazelRests DEF IInv, bazelVars
<1>2. ReaderTypes' /\ StreamTypes' /\ TaskTypes'
  BY DEF IInv, ReaderTypes, StreamTypes, TaskTypes
<1>3. Carried' /\ Expects' /\ Mirrored'
  BY DEF Carried, Expects, Mirrored
<1>4. GapOK' /\ EndOK'
  BY <1>1 DEF GapOK, EndOK
<1>5. SignalOK'
  BY <1>1 DEF IInv, SignalOK, SignalAgrees
<1>6. TaskOK'
  BY DEF IInv, TaskOK
<1> QED BY <1>1, <1>2, <1>3, <1>4, <1>5, <1>6 DEF IInv

LEMMA OpenSinksKeeps == IInv /\ OpenSinks => IInv'
<1> SUFFICES ASSUME IInv, OpenSinks PROVE IInv'
  OBVIOUS
<1> USE DEF OpenSinks, streamVars, taskVars
<1>1. CASE reader' = "open" /\ UNCHANGED <<outcome, signal>>
  <2> USE <1>1
  <2>1. BazelTypes' /\ BazelOK'
    BY BazelRests DEF IInv
  <2>2. FifoTypes' /\ ReaderTypes' /\ StreamTypes' /\ TaskTypes'
    BY DEF IInv, FifoTypes, ReaderTypes, StreamTypes, TaskTypes
  <2>3. Carried' /\ Expects' /\ Mirrored'
    BY UnansweredStays DEF IInv, Carried, Expects, Mirrored, Since, LastEviction, bazelVars
  <2>4. GapOK' /\ EndOK' /\ SignalOK' /\ TaskOK'
    BY DEF IInv, GapOK, EndOK, SignalOK, SignalAgrees, TaskOK, bazelVars
  <2> QED BY <2>1, <2>2, <2>3, <2>4 DEF IInv
<1>2. CASE fault = "open" /\ Complete("err") /\ ReturnWith("err")
  <2>1. FifoTypes' /\ closed' \in BOOLEAN /\ file' \in Seq(Event) /\ expecting' \in BOOLEAN
    BY DEF IInv, FifoTypes, StreamTypes, ReaderTypes
  <2>2. closed' => att > 0
    BY DEF IInv, EndOK
  <2> QED BY <1>2, <2>1, <2>2, FailureKeeps
<1> QED BY <1>1, <1>2

\* The reader goes from one look to the next.
LEMMA LookKeeps ==
  ASSUME IInv, UNCHANGED <<bazelVars, fifo, expecting, outcome, sent, sinkVars, taskVars, fault>>,
         reader \in {"open", "read", "checkFd", "checkPid"},
         reader' \in {"read", "checkFd", "checkPid", "flush"},
         closed' \in BOOLEAN, closed' <=> reader' = "flush", GapOK', att > 0,
         closed' => ~retrying /\ stage \in {"tail", "complete", "idle"},
         closed' /\ att = 1 => fifo = <<>> /\ stage \in {"complete", "idle"}
  PROVE  IInv'
<1> USE DEF sinkVars, taskVars
<1>1. BazelTypes' /\ BazelOK'
  BY BazelRests DEF IInv
<1>2. FifoTypes' /\ ReaderTypes' /\ StreamTypes' /\ TaskTypes'
  BY DEF IInv, FifoTypes, ReaderTypes, StreamTypes, TaskTypes
<1>3. Carried' /\ Expects' /\ Mirrored'
  BY UnansweredStays DEF IInv, Carried, Expects, Mirrored, Since, LastEviction, bazelVars
<1>4. outcome = "none"
  BY DEF IInv, ReaderTypes
<1>5. EndOK'
  BY <1>4 DEF EndOK, bazelVars
<1>6. SignalOK' /\ TaskOK'
  BY DEF IInv, SignalOK, SignalAgrees, TaskOK, bazelVars
<1> QED BY <1>1, <1>2, <1>3, <1>5, <1>6 DEF IInv

LEMMA OpenFifoKeeps == IInv /\ OpenFifo => IInv'
<1> SUFFICES ASSUME IInv, OpenFifo PROVE IInv'
  OBVIOUS
<1> USE DEF OpenFifo, streamVars
<1>1. att > 0
  BY DEF IInv, BazelOK, HasWriter
<1>2. ~closed /\ closed \in BOOLEAN
  BY DEF IInv, EndOK, StreamTypes
<1>3. GapOK'
  BY DEF GapOK
<1> QED BY <1>1, <1>2, <1>3, LookKeeps

LEMMA ReadEofKeeps == IInv /\ ReadEof => IInv'
<1> SUFFICES ASSUME IInv, ReadEof PROVE IInv'
  OBVIOUS
<1> USE DEF ReadEof, streamVars
<1>1. att > 0 /\ ~closed /\ closed \in BOOLEAN /\ outcome # "err"
  BY DEF IInv, EndOK, StreamTypes, ReaderTypes
<1>2. stage = "idle"
  BY DEF IInv, BazelTypes, HasWriter
<1>3. ~expecting => ~retrying
  <2>1. Len(written) = Len(sent)
    BY <1>1 DEF IInv, Carried, StreamTypes
  <2> QED BY <1>1, <2>1 DEF IInv, Expects, BazelOK
<1>4. GapOK'
  BY <1>2, <1>3 DEF GapOK, bazelVars
<1> QED BY <1>1, <1>4, LookKeeps

LEMMA CheckFdKeeps == IInv /\ CheckFd => IInv'
<1> SUFFICES ASSUME IInv, CheckFd PROVE IInv'
  OBVIOUS
<1> USE DEF CheckFd, streamVars, sinkVars
<1>1. att > 0 /\ ~closed /\ outcome # "err"
  BY DEF IInv, EndOK, ReaderTypes
<1>2. CASE stage \in Writing /\ ReadError
  <2>1. att # 1 /\ att \in Nat
    BY <1>2 DEF IInv, GapOK, BazelTypes, Writing
  <2>2. ~(att <= 1)
    BY <1>1, <2>1
  <2>3. FifoTypes' /\ file' \in Seq(Event) /\ expecting' \in BOOLEAN
    BY <1>2 DEF IInv, FifoTypes, ReaderTypes, StreamTypes, ReadError
  <2> QED BY <1>1, <1>2, <2>2, <2>3, FailureKeeps DEF ReadError
<1>3. CASE /\ stage \notin Writing /\ expecting /\ reader' = "checkPid"
           /\ UNCHANGED <<expecting, outcome, streamVars, sinkVars>>
  <2>1. GapOK'
    BY <1>3 DEF IInv, GapOK, bazelVars
  <2>2. closed \in BOOLEAN
    BY DEF IInv, StreamTypes
  <2> QED BY <1>1, <1>3, <2>1, <2>2, LookKeeps
<1>4. CASE /\ stage \notin Writing /\ ~expecting
           /\ closed' = TRUE /\ reader' = "flush"
           /\ UNCHANGED <<expecting, outcome, sent, sinkVars>>
  <2>1. ~retrying /\ stage = "idle" /\ fifo = <<>>
    BY <1>4 DEF IInv, GapOK
  <2>2. GapOK'
    BY <1>4 DEF GapOK
  <2> QED BY <1>1, <1>4, <2>1, <2>2, LookKeeps
<1> QED BY <1>2, <1>3, <1>4

LEMMA CheckPidKeeps == IInv /\ CheckPid => IInv'
<1> SUFFICES ASSUME IInv, CheckPid PROVE IInv'
  OBVIOUS
<1> USE DEF CheckPid
<1>1. att > 0 /\ ~closed /\ closed \in BOOLEAN
  BY DEF IInv, EndOK, StreamTypes
<1>2. GapOK'
  BY DEF GapOK
<1>3. client = "dead" => ~retrying /\ stage \in {"tail", "complete", "idle"}
  BY DEF IInv, BazelOK, BazelTypes, Writing
<1>4. att = 1 => fifo = <<>> /\ stage = "idle"
  BY DEF IInv, GapOK
<1>5. CASE reader' = "read" /\ UNCHANGED closed
  BY <1>1, <1>2, <1>5, LookKeeps
<1>6. CASE client = "dead" /\ reader' = "flush" /\ closed' = TRUE
  BY <1>1, <1>2, <1>3, <1>4, <1>6, LookKeeps
<1> QED BY <1>5, <1>6

LEMMA FlushKeeps == IInv /\ Flush => IInv'
<1> SUFFICES ASSUME IInv, Flush PROVE IInv'
  OBVIOUS
<1> USE DEF Flush, streamVars, taskVars, Complete, ReturnWith
<1>1. att > 0 /\ closed /\ outcome # "err"
  BY DEF IInv, EndOK, ReaderTypes
<1>2. CASE Complete("ok") /\ ReturnWith("ok")
  <2> USE <1>2
  <2>1. BazelTypes' /\ BazelOK'
    BY BazelRests DEF IInv
  <2>2. FifoTypes' /\ ReaderTypes' /\ StreamTypes' /\ TaskTypes'
    BY DEF IInv, FifoTypes, ReaderTypes, StreamTypes, TaskTypes
  <2>3. Carried' /\ Expects' /\ Mirrored'
    BY <1>1, UnansweredStays DEF IInv, Carried, Expects, Mirrored, Since, LastEviction, bazelVars
  <2>4. GapOK' /\ EndOK'
    BY <1>1 DEF IInv, GapOK, EndOK, bazelVars
  <2>5. SignalOK' /\ TaskOK'
    BY DEF IInv, SignalOK, SignalAgrees, TaskOK, bazelVars
  <2> QED BY <2>1, <2>2, <2>3, <2>4, <2>5 DEF IInv
<1>3. CASE fault = "flush" /\ Complete("err") /\ ReturnWith("err")
  <2>1. FifoTypes' /\ closed' \in BOOLEAN /\ file' \in Seq(Event) /\ expecting' \in BOOLEAN
    BY DEF IInv, FifoTypes, StreamTypes, ReaderTypes
  <2> QED BY <1>1, <1>3, <2>1, FailureKeeps
<1> QED BY <1>2, <1>3

\* The reader takes the head of the FIFO: the next of the events written.
LEMMA HeadIsNext ==
  ASSUME IInv, reader = "read", fifo # <<>>
  PROVE  /\ Head(fifo) \in Event /\ Tail(fifo) \in Seq(Event)
         /\ Len(Tail(fifo)) = Len(fifo) - 1 /\ Len(fifo) > 0
         /\ \A i \in 1..Len(Tail(fifo)) : Tail(fifo)[i] = fifo[i + 1]
         /\ Len(sent) < Len(written) /\ Head(fifo) = written[Len(sent) + 1]
<1>1. fifo \in Seq(Event) /\ Len(fifo) > 0 /\ Head(fifo) = fifo[1]
  BY DEF IInv, FifoTypes
<1>2. outcome # "err"
  BY DEF IInv, ReaderTypes
<1>3. Len(sent) \in Nat
  BY DEF IInv, StreamTypes
<1> QED BY <1>1, <1>2, <1>3 DEF IInv, Carried

\* An eviction that comes last is the last eviction.
LEMMA EvictedLast ==
  ASSUME NEW t, NEW k \in Nat, Len(t) = k, t[k].kind = "evicted"
  PROVE  LastEviction(t, k)
<1>1. (k + 1)..Len(t) = {}
  OBVIOUS
<1> QED BY <1>1 DEF LastEviction

\* An event of another kind leaves the last eviction where it was.
LEMMA EvictedBefore ==
  ASSUME NEW s, NEW t, NEW n \in Nat, Len(s) = n, Len(t) = n + 1,
         \A i \in 1..n : t[i] = s[i], t[n + 1].kind # "evicted",
         NEW k \in 0..n, LastEviction(s, k)
  PROVE  LastEviction(t, k)
<1>1. k > 0 => t[k].kind = "evicted"
  <2> SUFFICES ASSUME k > 0 PROVE t[k].kind = "evicted"
    OBVIOUS
  <2>1. k \in 1..n /\ t[k] = s[k]
    OBVIOUS
  <2> QED BY <2>1 DEF LastEviction
<1>2. ASSUME NEW i \in (k + 1)..Len(t)
      PROVE  t[i].kind # "evicted"
  <2>1. CASE i = n + 1
    BY <2>1
  <2>2. CASE i # n + 1
    <3>1. i \in (k + 1)..n /\ i \in 1..n
      BY <2>2
    <3>2. t[i] = s[i]
      BY <3>1
    <3> QED BY <3>1, <3>2 DEF LastEviction
  <2> QED BY <2>1, <2>2
<1> QED BY <1>1, <1>2 DEF LastEviction

\* One more event is mirrored, or starts the file afresh.
LEMMA MirrorsNext ==
  ASSUME NEW s \in Seq(Event), NEW f \in Seq(Event), NEW e \in Event, Since(s, f)
  PROVE  Since(Append(s, e), IF e.kind = "evicted" THEN <<>> ELSE Append(f, e))
<1> DEFINE t == Append(s, e)
           g == Append(f, e)
<1>1. /\ Len(t) = Len(s) + 1 /\ t[Len(s) + 1] = e
      /\ \A i \in 1..Len(s) : t[i] = s[i]
      /\ Len(g) = Len(f) + 1 /\ g[Len(f) + 1] = e
      /\ \A i \in 1..Len(f) : g[i] = f[i]
  OBVIOUS
<1> HIDE DEF t, g
<1>2. ASSUME e.kind = "evicted" PROVE Since(t, <<>>)
  <2>1. LastEviction(t, Len(s) + 1)
    <3>1. Len(s) + 1 \in Nat /\ Len(t) = Len(s) + 1
      BY <1>1
    <3>2. t[Len(s) + 1].kind = "evicted"
      BY <1>1, <1>2
    <3> QED BY <3>1, <3>2, EvictedLast
  <2>2. Len(s) + 1 \in 0..Len(t) /\ Len(<<>>) = Len(t) - (Len(s) + 1)
    BY <1>1
  <2> QED BY <2>1, <2>2 DEF Since
<1>3. ASSUME e.kind # "evicted" PROVE Since(t, g)
  <2>1. PICK k \in 0..Len(s) : /\ LastEviction(s, k) /\ Len(f) = Len(s) - k
                               /\ \A i \in 1..Len(f) : f[i] = s[k + i]
    BY DEF Since
  <2>2. LastEviction(t, k)
    <3>1. Len(s) \in Nat /\ Len(t) = Len(s) + 1 /\ \A i \in 1..Len(s) : t[i] = s[i]
      BY <1>1
    <3>2. t[Len(s) + 1].kind # "evicted"
      BY <1>1, <1>3
    <3> QED BY <2>1, <3>1, <3>2, EvictedBefore
  <2>3. ASSUME NEW i \in 1..Len(g)
        PROVE  g[i] = t[k + i]
    <3>1. CASE i = Len(f) + 1
      BY <1>1, <2>1, <3>1
    <3>2. CASE i \in 1..Len(f)
      <4>1. k + i \in 1..Len(s)
        BY <2>1, <3>2
      <4> QED BY <1>1, <2>1, <3>2, <4>1
    <3> QED BY <1>1, <3>1, <3>2
  <2>4. k \in 0..Len(t) /\ Len(g) = Len(t) - k
    BY <1>1, <2>1
  <2> QED BY <2>2, <2>3, <2>4 DEF Since
<1>4. Since(t, IF e.kind = "evicted" THEN <<>> ELSE g)
  BY <1>2, <1>3
<1> QED BY <1>4 DEF t, g

LEMMA DeliverKeeps ==
  ASSUME IInv, reader = "read", fifo # <<>>, fifo' = Tail(fifo), Deliver(Head(fifo)),
         UNCHANGED <<bazelVars, taskVars, fault>>
  PROVE  IInv'
<1> USE DEF Deliver, taskVars
<1> DEFINE e == Head(fifo)
<1>1. /\ e \in Event /\ fifo' \in Seq(Event)
      /\ Len(fifo') = Len(fifo) - 1 /\ Len(fifo) > 0
      /\ \A i \in 1..Len(fifo') : fifo'[i] = fifo[i + 1]
      /\ Len(sent) < Len(written) /\ e = written[Len(sent) + 1]
  BY HeadIsNext
<1>2. /\ file' = FileAfter(e) /\ expecting' = ExpectingAfter(e) /\ sent' = Append(sent, e)
      /\ UNCHANGED <<outcome, signal>>
      /\ IF EndsStream(e) THEN closed' = TRUE /\ reader' = "flush"
                          ELSE UNCHANGED <<closed, reader>>
  OBVIOUS
<1> HIDE DEF e, Deliver
<1>3. /\ att > 0 /\ ~closed /\ outcome = "none" /\ expecting \in BOOLEAN /\ closed \in BOOLEAN
      /\ written \in Seq(Event) /\ sent \in Seq(Event) /\ file \in Seq(Event)
      /\ fifo \in Seq(Event)
  BY DEF IInv, EndOK, ReaderTypes, StreamTypes, BazelTypes, FifoTypes
<1>4. /\ sent' \in Seq(Event) /\ Len(sent') = Len(sent) + 1
      /\ \A i \in 1..Len(sent) : sent'[i] = sent[i]
      /\ sent'[Len(sent) + 1] = e
  BY <1>1, <1>2, <1>3
<1>5. /\ Len(written) = Len(sent) + Len(fifo)
      /\ \A i \in 1..Len(sent) : sent[i] = written[i]
      /\ \A i \in 1..Len(fifo) : fifo[i] = written[Len(sent) + i]
  BY <1>3 DEF IInv, Carried
<1>6. BazelTypes' /\ BazelOK' /\ UNCHANGED <<written, att, stage, retrying>>
  BY BazelRests DEF IInv, bazelVars
<1>7. expecting' <=> Unanswered(Len(sent) + 1)
  <2>1. expecting <=> Unanswered(Len(sent))
    BY <1>3 DEF IInv, Expects
  <2>2. Len(sent) \in 0..Len(written)
    BY <1>1, <1>3
  <2>3. Unanswered(Len(sent) + 1) <=>
          \/ e.kind = "evicted"
          \/ Unanswered(Len(sent)) /\ e.kind # "started"
    BY <1>1, <1>3, <2>2, UnansweredNext
  <2> QED BY <1>2, <2>1, <2>3 DEF ExpectingAfter
<1>8. Expects'
  <2>1. Len(sent') = Len(sent) + 1 /\ written' = written
    BY <1>4, <1>6
  <2>2. Unanswered(Len(sent))' <=> Unanswered(Len(sent) + 1)
    BY <2>1 DEF Unanswered
  <2> QED BY <1>7, <2>2 DEF Expects
<1>9. EndsStream(e) => /\ ~retrying /\ stage \in {"complete", "idle"} /\ fifo' = <<>>
  <2> SUFFICES ASSUME EndsStream(e)
               PROVE  ~retrying /\ stage \in {"complete", "idle"} /\ fifo' = <<>>
    OBVIOUS
  <2>1. e.last /\ ~Unanswered(Len(sent) + 1)
    BY <1>2, <1>7 DEF EndsStream
  <2>2. Len(sent) + 1 \in 1..Len(written)
    BY <1>1, <1>3
  <2>3. Len(sent) + 1 = Len(written) /\ stage \in {"complete", "idle"} /\ ~retrying
    BY <1>1, <2>1, <2>2 DEF IInv, BazelOK
  <2>4. Len(fifo') = 0
    BY <1>1, <1>3, <1>5, <2>3
  <2> QED BY <1>1, <2>3, <2>4
<1>10. FifoTypes'
  BY <1>1, <1>3, BesReaderAssumption DEF IInv, FifoTypes
<1>11. ReaderTypes'
  BY <1>2, <1>3 DEF IInv, ReaderTypes, ExpectingAfter
<1>12. StreamTypes'
  <2>1. FileAfter(e) \in Seq(Event)
    BY <1>1, <1>3 DEF FileAfter
  <2>2. closed' \in BOOLEAN
    BY <1>2, <1>3
  <2> QED BY <1>2, <1>4, <2>1, <2>2 DEF IInv, StreamTypes
<1>13. TaskTypes' /\ TaskOK'
  <2>1. task = "spawn" => reader = "none"
    BY DEF IInv, TaskOK
  <2> QED BY <1>3, <1>4, <2>1 DEF IInv, TaskTypes, TaskOK
<1>14. Carried'
  <2>1. \A i \in 1..Len(sent') : sent'[i] = written[i]
    <3>1. \A i \in 1..Len(sent') : i \in 1..Len(sent) \/ i = Len(sent) + 1
      BY <1>3, <1>4
    <3> QED BY <1>1, <1>4, <1>5, <3>1
  <2>2. ASSUME NEW i \in 1..Len(fifo') PROVE fifo'[i] = written[Len(sent') + i]
    <3>1. i + 1 \in 1..Len(fifo) /\ Len(sent') + i = Len(sent) + (i + 1)
      BY <1>1, <1>3, <1>4
    <3> QED BY <1>1, <1>5, <3>1
  <2>3. Len(written) = Len(sent') + Len(fifo')
    BY <1>1, <1>3, <1>4, <1>5
  <2> QED BY <1>6, <2>1, <2>2, <2>3 DEF Carried
<1>15. GapOK'
  BY <1>2 DEF GapOK
<1>16. EndOK'
  BY <1>2, <1>3, <1>6, <1>9 DEF EndOK
<1>17. SignalOK'
  BY <1>2, <1>3, <1>6 DEF IInv, SignalOK, SignalAgrees
<1>18. Mirrored'
  <2>1. Since(sent, file)
    BY <1>3 DEF IInv, Mirrored
  <2>2. file \in Seq(Event) /\ sent \in Seq(Event)
    BY DEF IInv, StreamTypes
  <2>3. Since(Append(sent, e), FileAfter(e))
    BY <1>1, <2>1, <2>2, MirrorsNext DEF FileAfter
  <2> QED BY <1>2, <1>4, <2>3 DEF Mirrored, Since, LastEviction
<1> QED BY <1>6, <1>8, <1>10, <1>11, <1>12, <1>13, <1>14, <1>15, <1>16, <1>17, <1>18 DEF IInv

LEMMA ReadEventKeeps == IInv /\ ReadEvent => IInv'
<1> SUFFICES ASSUME IInv, ReadEvent PROVE IInv'
  OBVIOUS
<1>1. /\ reader = "read" /\ fifo # <<>> /\ fifo' = Tail(fifo)
      /\ UNCHANGED <<bazelVars, taskVars, fault>>
  BY DEF ReadEvent
<1>2. Head(fifo) \in Event /\ fifo' \in Seq(Event) /\ Len(fifo') = Len(fifo) - 1
  BY <1>1, HeadIsNext
<1>3. FifoTypes' /\ att > 0
  BY <1>1, <1>2, BesReaderAssumption DEF IInv, FifoTypes, EndOK
<1>4. CASE Deliver(Head(fifo))
  BY <1>1, <1>4, DeliverKeeps
<1>5. CASE ReopenFails(Head(fifo))
  <2>1. /\ fault = "reopen" /\ expecting' = TRUE /\ Complete("err") /\ closed' = TRUE
        /\ file' = Append(file, Head(fifo)) /\ ReturnWith("err") /\ UNCHANGED sent
    BY <1>5 DEF ReopenFails
  <2>2. file' \in Seq(Event)
    BY <1>2, <2>1 DEF IInv, StreamTypes
  <2> QED BY <1>1, <1>3, <2>1, <2>2, FailureKeeps
<1>6. CASE fault = "write" /\ ReadError
  <2>1. /\ Complete("err") /\ closed' = TRUE /\ ReturnWith("err")
        /\ UNCHANGED <<expecting, sent, file>>
    BY <1>6 DEF ReadError
  <2>2. file' \in Seq(Event) /\ expecting' \in BOOLEAN
    BY <2>1 DEF IInv, StreamTypes, ReaderTypes
  <2> QED BY <1>1, <1>3, <1>6, <2>1, <2>2, FailureKeeps
<1> QED BY <1>4, <1>5, <1>6 DEF ReadEvent

-----------------------------------------------------------------------------
(* The task.  Its steps leave Bazel, the stream and the sink alone.        *)
LEMMA TaskKeeps ==
  ASSUME IInv, UNCHANGED <<bazelVars, fifo, expecting, outcome, streamVars, sinkVars, fault>>,
         reader' = reader \/ (reader = "none" /\ reader' = "sinks"),
         TaskTypes', TaskOK'
  PROVE  IInv'
<1> USE DEF streamVars, sinkVars
<1>1. BazelTypes' /\ BazelOK'
  BY BazelRests DEF IInv
<1>2. FifoTypes' /\ ReaderTypes' /\ StreamTypes'
  BY DEF IInv, FifoTypes, ReaderTypes, StreamTypes
<1>3. Carried' /\ Expects' /\ Mirrored'
  BY UnansweredStays DEF IInv, Carried, Expects, Mirrored, Since, LastEviction, bazelVars
<1>4. GapOK' /\ EndOK'
  BY DEF IInv, GapOK, EndOK, bazelVars
<1>5. SignalOK'
  BY DEF IInv, SignalOK, SignalAgrees, bazelVars
<1> QED BY <1>1, <1>2, <1>3, <1>4, <1>5 DEF IInv

LEMMA TaskStepKeeps == IInv /\ Task => IInv'
<1> SUFFICES ASSUME IInv, Task PROVE IInv'
  OBVIOUS
<1> USE DEF threadVars, streamVars
<1>1. /\ TaskTypes /\ TaskOK /\ Len(sent) \in Nat
  BY DEF IInv, StreamTypes
<1>2. CASE SpawnReader
  <2> USE <1>2 DEF SpawnReader
  <2>1. TaskTypes' /\ TaskOK'
    BY <1>1 DEF TaskTypes, TaskOK
  <2>2. reader = "none"
    BY <1>1 DEF TaskOK
  <2> QED BY <2>1, <2>2, TaskKeeps
<1>3. CASE BindIterator
  <2> USE <1>3 DEF BindIterator
  <2>1. TaskTypes' /\ TaskOK'
    BY <1>1 DEF TaskTypes, TaskOK
  <2> QED BY <2>1, TaskKeeps
<1>4. CASE IteratorNext
  <2> USE <1>4 DEF IteratorNext
  <2>1. TaskTypes' /\ TaskOK'
    BY <1>1 DEF TaskTypes, TaskOK, Drained
  <2> QED BY <2>1, TaskKeeps
<1>5. CASE IteratorEnds \/ ChildWait \/ Join \/ SinkWait
  <2> USE <1>5 DEF IteratorEnds, ChildWait, Join, SinkWait
  <2>1. TaskTypes' /\ TaskOK'
    BY <1>1 DEF TaskTypes, TaskOK
  <2> QED BY <2>1, TaskKeeps
<1> QED BY <1>2, <1>3, <1>4, <1>5 DEF Task

LEMMA StutterKeeps == IInv /\ UNCHANGED vars => IInv'
<1> SUFFICES ASSUME IInv, UNCHANGED vars PROVE IInv'
  OBVIOUS
<1>1. TaskTypes' /\ TaskOK'
  BY DEF vars, taskVars, streamVars, threadVars, IInv, TaskTypes, TaskOK
<1> QED BY <1>1, TaskKeeps DEF vars, threadVars

-----------------------------------------------------------------------------
\* The invariant holds of every state of the stream.
THEOREM Invariance == Spec => []IInv
<1>1. IInv /\ [Next]_vars => IInv'
  <2> SUFFICES ASSUME IInv, [Next]_vars PROVE IInv'
    OBVIOUS
  <2>1. CASE Bazel
    BY <2>1, ServerOpenKeeps, ServerOpenedKeeps, WriteEventKeeps, ServerCloseKeeps,
       ClientExitKeeps DEF Bazel
  <2>2. CASE BazelDies
    BY <2>2, BazelDiesKeeps
  <2>3. CASE Reader
    BY <2>3, OpenSinksKeeps, OpenFifoKeeps, ReadEventKeeps, ReadEofKeeps, CheckFdKeeps,
       CheckPidKeeps, FlushKeeps DEF Reader
  <2>4. CASE Task
    BY <2>4, TaskStepKeeps
  <2>5. CASE UNCHANGED vars
    BY <2>5, StutterKeeps
  <2> QED BY <2>1, <2>2, <2>3, <2>4, <2>5 DEF Next
<1> QED BY InitIInv, <1>1, PTL DEF Spec

\* A stream that ends well is not cut off before a retry, and is the whole stream
\* of a build of one attempt, however Bazel's steps fall between the reader's
\* looks at the FIFO, the descriptors and the client.
THEOREM EndsWithTheStream == Spec => []StreamIsWhole
<1>1. IInv => StreamIsWhole
  <2> SUFFICES ASSUME IInv PROVE StreamIsWhole
    OBVIOUS
  <2>1. TypeOK
    BY TypesSplit DEF IInv
  <2>2. GapIsNotTheEnd
    BY DEF IInv, EndOK, GapIsNotTheEnd
  <2>3. FirstAttemptDelivered
    <3> SUFFICES ASSUME att = 1, outcome = "ok" PROVE sent = written
      BY DEF FirstAttemptDelivered, NothingLeftBehind
    <3>1. fifo = <<>>
      BY DEF IInv, EndOK
    <3>2. sent \in Seq(Event) /\ written \in Seq(Event)
      BY DEF IInv, BazelTypes, StreamTypes
    <3>3. Len(sent) = Len(written) /\ \A i \in 1..Len(sent) : sent[i] = written[i]
      BY <3>1, <3>2 DEF IInv, Carried
    <3> QED BY <3>2, <3>3
  <2> QED BY <2>1, <2>2, <2>3 DEF StreamIsWhole
<1> QED BY Invariance, <1>1, PTL

\* Whichever way the reader ends, the sink's waiter and the joiner are told the
\* same, and without a retry a failure is a file sink's.
THEOREM EveryWayOutAgrees == Spec => []EndsAgree
<1>1. IInv => EndsAgree
  BY DEF IInv, SignalOK, EndsAgree, OnlySinksFail, BazelTypes
<1> QED BY Invariance, <1>1, PTL

\* A file sink that reports ok holds what was broadcast since the last eviction.
THEOREM FileIsTheStream == Spec => []FileMirrorsStream
<1>1. IInv => FileMirrorsStream
  <2> SUFFICES ASSUME IInv, signal = "ok"
               PROVE  \E k \in 0..Len(sent) :
                        LastEviction(sent, k) /\ file = SubSeq(sent, k + 1, Len(sent))
    BY DEF FileMirrorsStream
  <2>1. reader = "done"
    BY DEF IInv, SignalOK
  <2>2. Since(sent, file)
    BY <2>1 DEF IInv, SignalOK, SignalAgrees, Mirrored
  <2>3. file \in Seq(Event) /\ sent \in Seq(Event)
    BY DEF IInv, StreamTypes
  <2> HIDE DEF IInv
  <2>4. PICK k \in 0..Len(sent) : /\ LastEviction(sent, k) /\ Len(file) = Len(sent) - k
                                  /\ \A i \in 1..Len(file) : file[i] = sent[k + i]
    BY <2>2 DEF Since
  <2> DEFINE s == SubSeq(sent, k + 1, Len(sent))
  <2>5. s \in Seq(Event) /\ Len(s) = Len(file) /\ \A i \in 1..Len(file) : s[i] = file[i]
    BY <2>3, <2>4
  <2>6. file = s
    BY <2>3, <2>5, SeqEqual
  <2> QED BY <2>4, <2>6
<1> QED BY Invariance, <1>1, PTL
=============================================================================
