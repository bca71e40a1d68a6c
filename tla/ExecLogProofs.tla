---------------------------- MODULE ExecLogProofs ----------------------------
(***************************************************************************)
(* What the execution log's stream keeps, for any sinks, uses of the       *)
(* iterator, capacity, log and faults.                                     *)
(*                                                                         *)
(* That a sink's file has no gap needs the ring to have none (RingIsLog)   *)
(* and the file to be the part of the ring the sink consumed (FileIsTail); *)
(* that the sender never misses a receiver still to come needs the         *)
(* stream's own receiver to live until all sinks are attached (OwnHolds,   *)
(* SinksOK).                                                               *)
(***************************************************************************)
EXTENDS ExecLog, TLAPS

\* The stream's own receiver lives until the join.
OwnHolds ==
  /\ task \notin {"join", "done"} => "own" \in Live
  /\ task = "iterate" => "iter" \in Live

ReaderOK ==
  /\ (outcome = "none") = (reader # "done")
  /\ reader = "send" \/ outcome = "send" => HasFileSinks /\ read > 0

SinksOK ==
  \A s \in Sinks :
    /\ s \in Live <=> sink[s] \in {"create", "recv"}
    /\ s \in DOMAIN from <=> sink[s] \notin {"unused", "none"}
    /\ sink[s] = "ok" => reader = "done"
    /\ task # "attach" => sink[s] # "none"

\* With file sinks, what was sent is what was read but for the entry in hand.
InHand == IF reader = "send" \/ outcome = "send" THEN 1 ELSE 0
RingIsLog ==
  HasFileSinks =>
    /\ Len(ring) = read - InHand
    /\ \A i \in 1..Len(ring) : ring[i] = i

\* A sink's file is the first n entries of the ring from where it subscribed.
Holds(s, n) ==
  /\ Len(file[s]) = n - from[s]
  /\ \A i \in 1..Len(file[s]) : file[s][i] = from[s] + i

FileIsTail ==
  \A s \in Sinks :
    /\ sink[s] \in {"unused", "none"} => file[s] = <<>>
    /\ sink[s] \in {"create", "recv"} => Holds(s, tail[s])
    /\ sink[s] = "ok" /\ "flush" \notin Faults => Holds(s, Len(ring))

OkMeansAllOk ==
  result = "ok" =>
    /\ outcome = "ok" /\ task = "done"
    /\ \A s \in FileSinks : sink[s] = "ok"

IInv ==
  /\ TypeOK
  /\ OwnHolds /\ ReaderOK /\ SinksOK
  /\ RingIsLog /\ FileIsTail
  /\ SendErrorIsSinks /\ OkMeansAllOk

-----------------------------------------------------------------------------
(* The reader.  It changes neither receivers nor sinks, so what they keep  *)
(* depends on the ring alone.                                              *)
ReaderFrame == UNCHANGED <<bazelVars, tail, from, sinkVars, taskVars>>

\* Which sinks are the build's is a matter of their threads alone.
LEMMA FramedSinks ==
  ASSUME UNCHANGED sink
  PROVE  /\ FileSinks' = FileSinks
         /\ HasFileSinks' = HasFileSinks
BY DEF FileSinks, HasFileSinks

\* Every build begins with the invariant: the stream's own receiver, no entry.
LEMMA InitIInv == Init => IInv
<1> SUFFICES ASSUME Init PROVE IInv
  OBVIOUS
<1> USE ExecLogAssumption DEF Init
<1>1. /\ Live = {"own"} /\ DOMAIN from = {"own"}
      /\ tail["own"] = 0 /\ from["own"] = 0
  BY DEF Live
<1>2. TypeOK
  <2>1. IsInjective(handles) /\ Range(handles) = {} /\ handles \in Seq(Sinks)
    BY DEF IsInjective, Range
  <2>2. FileSinks \cap DOMAIN from = {}
    BY <1>1 DEF FileSinks
  <2>3. ring \in Entries /\ file \in [Sinks -> Entries]
    BY DEF Entries
  <2>4. closed = (reader = "done") /\ hasReaders \in BOOLEAN
    OBVIOUS
  <2>5. (result # "none") = (task = "done")
    OBVIOUS
  <2>6. \A r \in Live : tail[r] \in from[r]..Len(ring) /\ Len(ring) - tail[r] <= Cap
    BY <1>1
  <2>7. sink \in [Sinks -> {"unused", "none", "create", "recv", "ok", "err"}]
    OBVIOUS
  <2> QED BY <1>1, <2>1, <2>2, <2>3, <2>4, <2>5, <2>6, <2>7 DEF TypeOK, Receivers
<1>3. OwnHolds /\ ReaderOK /\ SinksOK
  BY <1>1 DEF OwnHolds, ReaderOK, SinksOK
<1>4. RingIsLog /\ FileIsTail
  BY DEF RingIsLog, InHand, FileIsTail
<1>5. SendErrorIsSinks /\ OkMeansAllOk
  BY DEF SendErrorIsSinks, OkMeansAllOk
<1> QED BY <1>2, <1>3, <1>4, <1>5 DEF IInv

\* Bazel's steps change its file and processes only, and the log only grows.
LEMMA BazelPreserves ==
  ASSUME IInv, Bazel
  PROVE  IInv'
<1> USE DEF IInv, Bazel, ThreadsIdle, readerVars, sinkVars, taskVars
<1>0. /\ UNCHANGED <<reader, read, hasReaders, outcome, ring, closed, tail, from,
                     sink, file, handles, iteration, task, result>>
      /\ FileSinks' = FileSinks /\ HasFileSinks' = HasFileSinks /\ Live' = Live
  BY FramedSinks DEF Live
<1>1. /\ client' \in {"alive", "dead"} /\ server' \in {"alive", "dead"}
      /\ log' \in {"absent", "open", "closed"}
      /\ written' \in 0..MaxEntries /\ written <= written'
  BY ExecLogAssumption
     DEF TypeOK, CreateLog, WriteEntry, CloseLog, ClientExit, ServerDies
<1>2. TypeOK'
  BY <1>0, <1>1 DEF TypeOK
<1>3. OwnHolds' /\ ReaderOK' /\ SinksOK'
  BY <1>0 DEF OwnHolds, ReaderOK, SinksOK
<1>4. RingIsLog'
  BY <1>0 DEF RingIsLog, InHand
<1>5. FileIsTail'
  BY <1>0 DEF FileIsTail, Holds
<1>6. SendErrorIsSinks' /\ OkMeansAllOk'
  BY <1>0 DEF SendErrorIsSinks, OkMeansAllOk
<1> QED BY <1>2, <1>3, <1>4, <1>5, <1>6

-----------------------------------------------------------------------------
\* What a step of the reader has to establish itself.
LEMMA ReaderKeeps ==
  ASSUME IInv, ReaderFrame, reader # "done",
         reader' \in {"open", "read", "checkFd", "send", "done"},
         read' \in 0..written, hasReaders' \in BOOLEAN,
         outcome' \in {"none", "ok", "io", "send"}, closed' = (reader' = "done"),
         \/ ring' = ring
         \/ ~Full /\ \E e \in 1..MaxEntries : ring' = Append(ring, e),
         ReaderOK', RingIsLog', SendErrorIsSinks'
  PROVE  IInv'
<1> USE DEF IInv, ReaderFrame, bazelVars, sinkVars, taskVars
<1>1. /\ FileSinks' = FileSinks /\ HasFileSinks' = HasFileSinks /\ Live' = Live
      /\ UNCHANGED <<tail, from, sink, file, handles, iteration, task, result>>
  BY FramedSinks DEF Live
<1>2. /\ ring' \in Entries /\ Len(ring') \in Nat /\ Len(ring) <= Len(ring')
      /\ \A r \in Live : Len(ring') - tail[r] <= Cap
  <2>1. /\ ring \in Entries /\ Len(ring) \in Nat
        /\ \A r \in Live : /\ tail[r] \in from[r]..Len(ring)
                           /\ Len(ring) - tail[r] <= Cap
    BY DEF TypeOK, Entries
  <2>2. CASE ring' = ring
    BY <2>1, <2>2
  <2>3. CASE ~Full /\ \E e \in 1..MaxEntries : ring' = Append(ring, e)
    <3>1. PICK e \in 1..MaxEntries : ring' = Append(ring, e)
      BY <2>3
    <3>2. ring' \in Entries /\ Len(ring') = Len(ring) + 1
      BY <2>1, <3>1 DEF Entries
    <3>3. \A r \in Live : Len(ring) - tail[r] < Cap
      BY <2>1, <2>3, ExecLogAssumption DEF Full, TypeOK
    <3> QED BY <2>1, <3>2, <3>3, ExecLogAssumption DEF TypeOK
  <2> QED BY <2>2, <2>3
<1>3. TypeOK'
  <2>1. \A r \in Live : tail[r] \in from[r]..Len(ring')
    BY <1>2 DEF TypeOK
  <2>2. Range(handles)' = Range(handles) /\ IsInjective(handles)'
    BY <1>1 DEF TypeOK
  <2> QED BY <1>1, <1>2, <2>1, <2>2 DEF TypeOK
<1>4. OwnHolds' /\ SinksOK'
  BY <1>1 DEF OwnHolds, SinksOK
<1>5. FileIsTail'
  BY <1>1 DEF FileIsTail, Holds, SinksOK
<1>6. OkMeansAllOk'
  BY <1>1 DEF OkMeansAllOk, ReaderOK
<1> QED BY <1>3, <1>4, <1>5, <1>6

\* Returning leaves the ring as it is; only "send" leaves an entry in hand.
LEMMA ReturnKeeps ==
  ASSUME IInv, ReaderFrame, NEW how \in {"ok", "io", "send"}, ReaderReturns(how),
         IF how = "send" THEN reader = "send" ELSE reader \notin {"send", "done"},
         how = "send" => \A s \in FileSinks : sink[s] = "err"
  PROVE  IInv'
<1> USE DEF IInv, ReaderFrame, ReaderReturns, bazelVars, sinkVars, taskVars
<1>1. FileSinks' = FileSinks /\ HasFileSinks' = HasFileSinks
  BY FramedSinks
<1>2. ReaderOK'
  BY <1>1 DEF ReaderOK
<1>3. RingIsLog'
  BY <1>1 DEF RingIsLog, InHand, ReaderOK
<1>4. SendErrorIsSinks'
  BY <1>1 DEF SendErrorIsSinks
<1>5. /\ read' \in 0..written /\ hasReaders' \in BOOLEAN /\ closed' = (reader' = "done")
      /\ reader' \in {"open", "read", "checkFd", "send", "done"}
      /\ outcome' \in {"none", "ok", "io", "send"}
  BY DEF TypeOK
<1> QED BY <1>2, <1>3, <1>4, <1>5, ReaderKeeps

\* Opening the log, or failing to, sends nothing.
LEMMA OpenLogPreserves == IInv /\ ReaderFrame /\ OpenLog => IInv'
<1> SUFFICES ASSUME IInv, ReaderFrame, OpenLog PROVE IInv'
  OBVIOUS
<1>1. CASE ReaderReturns("io")
  BY <1>1, ReturnKeeps DEF OpenLog
<1>2. CASE /\ reader' = "read"
           /\ UNCHANGED <<read, hasReaders, outcome, ring, closed>>
  <2> USE <1>2 DEF IInv, OpenLog, ReaderFrame, sinkVars
  <2>1. FileSinks' = FileSinks /\ HasFileSinks' = HasFileSinks
    BY FramedSinks
  <2>2. ReaderOK' /\ RingIsLog' /\ SendErrorIsSinks'
    BY <2>1 DEF ReaderOK, RingIsLog, InHand, SendErrorIsSinks
  <2>3. /\ read' \in 0..written /\ hasReaders' \in BOOLEAN /\ closed' = (reader' = "done")
        /\ outcome' \in {"none", "ok", "io", "send"}
    BY DEF TypeOK
  <2> QED BY <2>2, <2>3, ReaderKeeps
<1> QED BY <1>1, <1>2 DEF OpenLog

\* With a file sink the entry read stays in hand; without one no sink depends on it.
LEMMA ReadEntryPreserves == IInv /\ ReaderFrame /\ ReadEntry => IInv'
<1> SUFFICES ASSUME IInv, ReaderFrame, ReadEntry PROVE IInv'
  OBVIOUS
<1>1. CASE ReaderReturns("io")
  BY <1>1, ReturnKeeps DEF ReadEntry
<1>2. CASE /\ read' = read + 1
           /\ Deliver(read + 1)
           /\ UNCHANGED <<outcome, closed>>
  <2> USE <1>2 DEF IInv, ReadEntry, ReaderFrame, sinkVars
  <2>1. /\ FileSinks' = FileSinks /\ HasFileSinks' = HasFileSinks
        /\ outcome = "none" /\ closed = FALSE /\ read \in Nat /\ read + 1 \in 1..MaxEntries
        /\ read' \in 0..written
    <3>1. read \in 0..written /\ written \in 0..MaxEntries /\ MaxEntries \in Nat
      BY ExecLogAssumption DEF TypeOK
    <3>2. closed = FALSE
      BY DEF TypeOK
    <3>3. written' = written
      BY DEF bazelVars
    <3> QED BY <3>1, <3>2, <3>3, FramedSinks DEF ReaderOK
  <2>2. CASE HasFileSinks
    <3>1. reader' = "send" /\ UNCHANGED <<hasReaders, ring>>
      BY <2>2 DEF Deliver
    <3>2. ReaderOK' /\ RingIsLog' /\ SendErrorIsSinks'
      BY <2>1, <2>2, <3>1 DEF ReaderOK, RingIsLog, InHand, SendErrorIsSinks
    <3>3. hasReaders' \in BOOLEAN
      BY <3>1 DEF TypeOK
    <3> QED BY <2>1, <3>1, <3>2, <3>3, ReaderKeeps
  <2>3. CASE ~HasFileSinks
    <3>1. TrySend(read + 1) /\ reader' = "read"
      BY <2>3 DEF Deliver
    <3>2. hasReaders' \in BOOLEAN
      BY <3>1 DEF TrySend
    <3>3. \/ ring' = ring
          \/ ~Full /\ \E e \in 1..MaxEntries : ring' = Append(ring, e)
      BY <2>1, <3>1 DEF TrySend, Push
    <3>4. ReaderOK' /\ RingIsLog' /\ SendErrorIsSinks'
      BY <2>1, <2>3, <3>1 DEF ReaderOK, RingIsLog, SendErrorIsSinks
    <3> QED BY <2>1, <3>1, <3>2, <3>3, <3>4, ReaderKeeps
  <2> QED BY <2>2, <2>3
<1> QED BY <1>1, <1>2 DEF ReadEntry

\* Meeting the end of what is written so far sends nothing.
LEMMA ReadNothingPreserves == IInv /\ ReaderFrame /\ ReadNothing => IInv'
<1> SUFFICES ASSUME IInv, ReaderFrame, ReadNothing PROVE IInv'
  OBVIOUS
<1> USE DEF IInv, ReadNothing, ReaderFrame, sinkVars
<1>1. FileSinks' = FileSinks /\ HasFileSinks' = HasFileSinks
  BY FramedSinks
<1>2. ReaderOK' /\ RingIsLog' /\ SendErrorIsSinks'
  BY <1>1 DEF ReaderOK, RingIsLog, InHand, SendErrorIsSinks
<1>3. /\ read' \in 0..written /\ hasReaders' \in BOOLEAN /\ closed' = (reader' = "done")
      /\ outcome' \in {"none", "ok", "io", "send"}
  BY DEF TypeOK
<1> QED BY <1>2, <1>3, ReaderKeeps

\* The look at the descriptors goes back to reading or returns with nothing in hand.
LEMMA CheckFdPreserves == IInv /\ ReaderFrame /\ CheckFd => IInv'
<1> SUFFICES ASSUME IInv, ReaderFrame, CheckFd PROVE IInv'
  OBVIOUS
<1>1. CASE ReaderReturns("ok") \/ ReaderReturns("io")
  BY <1>1, ReturnKeeps DEF CheckFd
<1>2. CASE /\ reader' = "read"
           /\ UNCHANGED <<read, hasReaders, outcome, ring, closed>>
  <2> USE <1>2 DEF IInv, CheckFd, ReaderFrame, sinkVars
  <2>1. FileSinks' = FileSinks /\ HasFileSinks' = HasFileSinks
    BY FramedSinks
  <2>2. ReaderOK' /\ RingIsLog' /\ SendErrorIsSinks'
    BY <2>1 DEF ReaderOK, RingIsLog, InHand, SendErrorIsSinks
  <2>3. /\ read' \in 0..written /\ hasReaders' \in BOOLEAN /\ closed' = (reader' = "done")
        /\ outcome' \in {"none", "ok", "io", "send"}
    BY DEF TypeOK
  <2> QED BY <2>2, <2>3, ReaderKeeps
<1> QED BY <1>1, <1>2 DEF CheckFd

\* No receiver is left only once the join has given up the stream's own, and so
\* after every sink was attached: they all failed.
LEMMA SendPreserves == IInv /\ ReaderFrame /\ Send => IInv'
<1> SUFFICES ASSUME IInv, ReaderFrame, Send PROVE IInv'
  OBVIOUS
<1>1. CASE Live = {} /\ ReaderReturns("send")
  <2>1. task # "attach"
    BY <1>1 DEF IInv, OwnHolds
  <2>2. ASSUME NEW s \in FileSinks PROVE sink[s] = "err"
    <3>1. sink[s] \notin {"unused", "none", "create", "recv", "ok"}
      BY <1>1, <2>1, <2>2 DEF IInv, SinksOK, FileSinks, Send
    <3> QED BY <3>1, <2>2 DEF IInv, TypeOK, FileSinks
  <2> QED BY <1>1, <2>2, ReturnKeeps DEF Send
<1>2. CASE /\ ~Full /\ Push(read) /\ reader' = "read"
           /\ UNCHANGED <<read, hasReaders, outcome, closed>>
  <2> USE <1>2 DEF IInv, Send, ReaderFrame, sinkVars
  <2>1. /\ FileSinks' = FileSinks /\ HasFileSinks' = HasFileSinks
        /\ HasFileSinks /\ read > 0 /\ outcome = "none"
    BY FramedSinks DEF ReaderOK
  <2>2. /\ read \in 0..written /\ written \in 0..MaxEntries /\ MaxEntries \in Nat
        /\ hasReaders \in BOOLEAN
    BY ExecLogAssumption DEF TypeOK
  <2>3. read \in 1..MaxEntries
    BY <2>1, <2>2
  <2>4. ring' = Append(ring, read) /\ ring \in Seq(1..MaxEntries) /\ Len(ring) = read - 1
    BY <2>1 DEF Push, TypeOK, Entries, RingIsLog, InHand
  <2>5. RingIsLog'
    BY <2>1, <2>2, <2>4 DEF RingIsLog, InHand
  <2>6. ReaderOK' /\ SendErrorIsSinks' /\ closed' = (reader' = "done")
    BY <2>1 DEF ReaderOK, SendErrorIsSinks, TypeOK
  <2> QED BY <2>1, <2>2, <2>3, <2>4, <2>5, <2>6, ReaderKeeps
<1> QED BY <1>1, <1>2 DEF Send

\* Every step of the reader thread keeps the invariant.
LEMMA ReaderPreserves == IInv /\ Reader => IInv'
BY OpenLogPreserves, ReadEntryPreserves, ReadNothingPreserves, CheckFdPreserves,
   SendPreserves DEF Reader, ReaderFrame

-----------------------------------------------------------------------------
\* An element of a sequence over S is in S.
LEMMA Element ==
  ASSUME NEW S, NEW q \in Seq(S), NEW i \in 1..Len(q)
  PROVE  q[i] \in S
OBVIOUS

\* A prefix of a sequence over S is one too.
LEMMA Prefix ==
  ASSUME NEW S, NEW q \in Seq(S), NEW n \in 0..Len(q)
  PROVE  SubSeq(q, 1, n) \in Seq(S)
<1>1. \A i \in 1..n : q[i] \in S
  BY Element
<1> QED BY <1>1

-----------------------------------------------------------------------------
(* A file sink's thread.                                                   *)
SinkFrame == UNCHANGED <<handles, bazelVars, readerVars, ring, closed, from, taskVars>>

\* What a step of sink s, in its thread, has to establish itself.
LEMMA SinkKeeps ==
  ASSUME IInv, SinkFrame, NEW s \in Sinks, sink[s] \in {"create", "recv"},
         NEW to \in {"recv", "ok", "err"}, SinkGoes(s, to),
         to = "ok" => reader = "done",
         Live' = IF to = "recv" THEN Live ELSE Live \ {s},
         \A r \in Live' : r # s => tail'[r] = tail[r],
         to = "recv" => tail'[s] \in tail[s]..Len(ring),
         file' \in [Sinks -> Entries],
         \A r \in Sinks : r # s => file'[r] = file[r],
         to = "recv" => Holds(s, tail[s])',
         to = "ok" /\ "flush" \notin Faults => Holds(s, Len(ring))'
  PROVE  IInv'
<1> USE DEF IInv, SinkFrame, bazelVars, readerVars, taskVars
<1>1. /\ sink' \in [Sinks -> {"unused", "none", "create", "recv", "ok", "err"}]
      /\ sink'[s] = to /\ \A r \in Sinks : r # s => sink'[r] = sink[r]
      /\ s \in Live
  BY DEF TypeOK, SinkGoes, SinksOK
<1>2. FileSinks' = FileSinks /\ HasFileSinks' = HasFileSinks
  <2>1. \A r \in Sinks : (sink'[r] # "unused") = (sink[r] # "unused")
    BY <1>1
  <2>2. FileSinks' = FileSinks
    BY <2>1 DEF FileSinks
  <2> QED BY <2>2 DEF HasFileSinks
<1>3. TypeOK'
  <2>1. \A r \in Live' : /\ tail'[r] \in from[r]..Len(ring)
                         /\ Len(ring) - tail'[r] <= Cap
    <3> SUFFICES ASSUME NEW r \in Live'
                 PROVE  /\ tail'[r] \in from[r]..Len(ring)
                        /\ Len(ring) - tail'[r] <= Cap
      OBVIOUS
    <3>1. /\ r \in Live /\ tail[r] \in from[r]..Len(ring) /\ Len(ring) - tail[r] <= Cap
          /\ Len(ring) \in Nat /\ Cap \in Nat /\ from[r] \in Nat
      BY ExecLogAssumption DEF TypeOK, Entries
    <3>2. CASE r # s
      BY <3>1, <3>2
    <3>3. CASE r = s
      <4>1. tail'[r] \in tail[r]..Len(ring)
        BY <3>3
      <4> QED BY <3>1, <4>1
    <3> QED BY <3>2, <3>3
  <2>2. Live' \subseteq DOMAIN from
    BY DEF TypeOK
  <2>3. Range(handles)' = Range(handles) /\ IsInjective(handles)' = IsInjective(handles)
    OBVIOUS
  <2> QED BY <1>1, <1>2, <2>1, <2>2, <2>3 DEF TypeOK
<1>4. OwnHolds' /\ ReaderOK'
  BY <1>2, ExecLogAssumption DEF OwnHolds, ReaderOK
<1>5. SinksOK'
  BY <1>1 DEF SinksOK
<1>6. RingIsLog'
  BY <1>2 DEF RingIsLog, InHand
<1>7. FileIsTail'
  <2> SUFFICES ASSUME NEW r \in Sinks
               PROVE  /\ sink'[r] \in {"unused", "none"} => file'[r] = <<>>
                      /\ sink'[r] \in {"create", "recv"} => Holds(r, tail[r])'
                      /\ sink'[r] = "ok" /\ "flush" \notin Faults => Holds(r, Len(ring))'
    BY DEF FileIsTail
  <2>1. CASE r = s
    BY <2>1, <1>1
  <2>2. CASE r # s
    <3>1. sink'[r] = sink[r] /\ file'[r] = file[r]
      BY <2>2, <1>1
    <3>2. sink[r] \in {"create", "recv"} => tail'[r] = tail[r]
      BY <2>2 DEF SinksOK
    <3> QED BY <3>1, <3>2 DEF FileIsTail, Holds
  <2> QED BY <2>1, <2>2
<1>8. SendErrorIsSinks' /\ OkMeansAllOk'
  BY <1>1, <1>2 DEF SendErrorIsSinks, OkMeansAllOk, FileSinks
<1> QED BY <1>3, <1>4, <1>5, <1>6, <1>7, <1>8

\* Giving up a receiver leaves the others where they are.
LEMMA Unsubscribed ==
  ASSUME NEW r, Unsubscribe(r)
  PROVE  Live' = Live \ {r} /\ \A x \in Live' : tail'[x] = tail[x]
BY DEF Unsubscribe, Live, Restrict

\* A sink that fails gives up its receiver; its file is as it was.
LEMMA SinkFailsPreserves ==
  ASSUME IInv, SinkFrame, NEW s \in Sinks, sink[s] \in {"create", "recv"}, SinkFails(s)
  PROVE  IInv'
<1>1. Live' = Live \ {s} /\ \A x \in Live' : tail'[x] = tail[x]
  BY Unsubscribed DEF SinkFails
<1>2. file' = file /\ file' \in [Sinks -> Entries] /\ SinkGoes(s, "err")
  BY DEF SinkFails, IInv, TypeOK
<1> QED BY <1>1, <1>2, SinkKeeps

\* A sink creates its file, or fails to.
LEMMA SinkCreatePreserves ==
  ASSUME IInv, SinkFrame, NEW s \in Sinks, SinkCreate(s)
  PROVE  IInv'
<1>1. sink[s] = "create"
  BY DEF SinkCreate
<1>2. CASE SinkFails(s)
  BY <1>1, <1>2, SinkFailsPreserves
<1>3. CASE SinkGoes(s, "recv") /\ UNCHANGED <<file, tail>>
  <2>1. Live' = Live /\ file' \in [Sinks -> Entries]
    BY <1>3 DEF Live, IInv, TypeOK
  <2>2. tail'[s] \in tail[s]..Len(ring)
    BY <1>1, <1>3 DEF IInv, TypeOK, SinksOK, Entries
  <2>3. Holds(s, tail[s])'
    BY <1>1, <1>3 DEF IInv, FileIsTail, Holds, SinkFrame
  <2> QED BY <1>1, <1>3, <2>1, <2>2, <2>3, SinkKeeps
<1> QED BY <1>2, <1>3 DEF SinkCreate

\* What is next in the ring is what is next in the log.
LEMMA SinkRecvPreserves ==
  ASSUME IInv, SinkFrame, NEW s \in Sinks, SinkRecv(s)
  PROVE  IInv'
<1>1. sink[s] = "recv" /\ Pending(s) /\ s \in Live
  BY DEF SinkRecv, IInv, SinksOK
<1>2. CASE SinkFails(s)
  BY <1>1, <1>2, SinkFailsPreserves
<1>3. CASE /\ Consume(s)
           /\ file' = [file EXCEPT ![s] = Append(@, ring[tail[s] + 1])]
           /\ UNCHANGED sink
  <2>1. SinkGoes(s, "recv")
    BY <1>1, <1>3 DEF SinkGoes, IInv, TypeOK
  <2>2. Live' = Live /\ tail'[s] = tail[s] + 1 /\ \A r \in Live' : r # s => tail'[r] = tail[r]
    BY <1>1, <1>3 DEF Consume, Live
  <2>3. /\ tail[s] \in Int /\ from[s] \in Nat /\ from[s] <= tail[s]
        /\ Len(ring) \in Nat /\ tail[s] < Len(ring)
    BY <1>1 DEF IInv, TypeOK, Pending, Entries
  <2>4. ring[tail[s] + 1] = tail[s] + 1 /\ ring[tail[s] + 1] \in 1..MaxEntries
    <3>1. HasFileSinks
      BY <1>1 DEF HasFileSinks, FileSinks
    <3>2. tail[s] + 1 \in 1..Len(ring)
      BY <2>3
    <3>3. ring[tail[s] + 1] = tail[s] + 1
      BY <3>1, <3>2 DEF IInv, RingIsLog
    <3>4. ring[tail[s] + 1] \in 1..MaxEntries
      <4>1. ring \in Seq(1..MaxEntries)
        BY DEF IInv, TypeOK, Entries
      <4> QED BY <3>2, <4>1, Element
    <3> QED BY <3>3, <3>4
  <2>5. file[s] \in Entries /\ Holds(s, tail[s])
    BY <1>1 DEF IInv, TypeOK, FileIsTail
  <2>6. file'[s] = Append(file[s], tail[s] + 1) /\ file' \in [Sinks -> Entries]
    BY <1>3, <2>4, <2>5 DEF IInv, TypeOK, Entries
  <2>7. Holds(s, tail[s])'
    <3>1. /\ file[s] \in Seq(1..MaxEntries) /\ Len(file[s]) = tail[s] - from[s]
          /\ \A i \in 1..Len(file[s]) : file[s][i] = from[s] + i
      BY <2>5 DEF Holds, Entries
    <3>2. /\ file'[s] = Append(file[s], tail[s] + 1) /\ Len(file'[s]) = Len(file[s]) + 1
          /\ file'[s][Len(file[s]) + 1] = tail[s] + 1
          /\ \A i \in 1..Len(file[s]) : file'[s][i] = file[s][i]
      BY <2>3, <2>6, <3>1
    <3>3. \A i \in 1..Len(file'[s]) : file'[s][i] = from[s] + i
      BY <2>3, <3>1, <3>2
    <3>4. Len(file'[s]) = tail'[s] - from[s] /\ from' = from
      BY <2>2, <2>3, <3>1, <3>2 DEF SinkFrame
    <3> QED BY <3>3, <3>4 DEF Holds
  <2>8. \A r \in Sinks : r # s => file'[r] = file[r]
    BY <1>3 DEF IInv, TypeOK
  <2> QED BY <1>1, <2>1, <2>2, <2>3, <2>6, <2>7, <2>8, SinkKeeps
<1> QED BY <1>2, <1>3 DEF SinkRecv

\* A sink that meets the end has consumed the whole ring, and the reader is done.
LEMMA SinkEndPreserves ==
  ASSUME IInv, SinkFrame, NEW s \in Sinks, SinkEnd(s)
  PROVE  IInv'
<1>1. /\ sink[s] = "recv" /\ closed /\ ~Pending(s) /\ s \in Live
      /\ SinkGoes(s, "ok") /\ Unsubscribe(s)
  BY DEF SinkEnd, Disconnected, IInv, SinksOK
<1>2. reader = "done"
  BY <1>1 DEF IInv, TypeOK
<1>3. Live' = Live \ {s} /\ \A x \in Live' : tail'[x] = tail[x]
  BY <1>1, Unsubscribed
<1>4. tail[s] = Len(ring) /\ Holds(s, Len(ring))
  <2>1. tail[s] \in from[s]..Len(ring) /\ from[s] \in Nat /\ Len(ring) \in Nat
    BY <1>1 DEF IInv, TypeOK, Entries
  <2>2. tail[s] = Len(ring)
    BY <1>1, <2>1 DEF Pending
  <2> QED BY <1>1, <2>2 DEF IInv, FileIsTail
<1>5. /\ file' \in [Sinks -> Entries] /\ \A r \in Sinks : r # s => file'[r] = file[r]
      /\ "flush" \notin Faults => file' = file
  <2>1. CASE UNCHANGED file
    BY <2>1 DEF IInv, TypeOK
  <2>2. CASE "flush" \in Faults /\ \E n \in 0..Len(file[s]) :
               file' = [file EXCEPT ![s] = SubSeq(@, 1, n)]
    <3>1. PICK n \in 0..Len(file[s]) : file' = [file EXCEPT ![s] = SubSeq(@, 1, n)]
      BY <2>2
    <3>2. file \in [Sinks -> Entries] /\ file[s] \in Seq(1..MaxEntries)
      BY DEF IInv, TypeOK, Entries
    <3>3. SubSeq(file[s], 1, n) \in Entries
      BY <3>1, <3>2, Prefix DEF Entries
    <3> QED BY <2>2, <3>1, <3>2, <3>3
  <2> QED BY <2>1, <2>2 DEF SinkEnd
<1>6. "flush" \notin Faults => Holds(s, Len(ring))'
  BY <1>4, <1>5 DEF Holds, SinkFrame
<1> QED BY <1>1, <1>2, <1>3, <1>5, <1>6, SinkKeeps

\* Every step of a sink's thread keeps the invariant.
LEMMA SinkPreserves == ASSUME IInv, NEW s \in Sinks, Sink(s) PROVE IInv'
BY SinkCreatePreserves, SinkRecvPreserves, SinkEndPreserves DEF Sink, SinkFrame

-----------------------------------------------------------------------------
(* The task's thread.                                                      *)
TaskFrame == UNCHANGED <<bazelVars, readerVars, ring, closed>>

\* A receiver starts within the ring, as far behind as the stream's own at most.
LEMMA Subscribed ==
  ASSUME IInv, "own" \in Live, NEW r \in Receivers, Subscribe(r), ring' = ring
  PROVE  /\ Live' = Live \cup {r} /\ DOMAIN from' = DOMAIN from \cup {r}
         /\ \A x \in Live : x # r => tail'[x] = tail[x]
         /\ \A x \in DOMAIN from : x # r => from'[x] = from[x]
         /\ tail'[r] = from'[r]
         /\ DOMAIN from' \subseteq Receivers /\ Live' \subseteq DOMAIN from'
         /\ \A x \in DOMAIN from' : from'[x] \in Nat
         /\ \A x \in Live' : /\ tail'[x] \in from'[x]..Len(ring)
                             /\ Len(ring) - tail'[x] <= Cap
<1> USE DEF Live
<1>1. PICK start \in {tail["own"], Len(ring)} :
        /\ tail' = [x \in Live \cup {r} |-> IF x = r THEN start ELSE tail[x]]
        /\ from' = [x \in DOMAIN from \cup {r} |-> IF x = r THEN start ELSE from[x]]
  BY DEF Subscribe
<1>2. /\ DOMAIN from \subseteq Receivers /\ Live \subseteq DOMAIN from
      /\ \A x \in DOMAIN from : from[x] \in Nat
      /\ \A x \in Live : tail[x] \in from[x]..Len(ring) /\ Len(ring) - tail[x] <= Cap
      /\ Len(ring) \in Nat /\ Cap \in Nat
  BY ExecLogAssumption DEF IInv, TypeOK, Entries
<1>3. start \in Nat /\ start <= Len(ring) /\ Len(ring) - start <= Cap
  <2>1. /\ from["own"] \in Nat /\ tail["own"] \in from["own"]..Len(ring)
        /\ Len(ring) - tail["own"] <= Cap
    BY <1>2
  <2> QED BY <1>1, <1>2, <2>1
<1>4. /\ Live' = Live \cup {r} /\ DOMAIN from' = DOMAIN from \cup {r}
      /\ \A x \in Live : x # r => tail'[x] = tail[x]
      /\ \A x \in DOMAIN from : x # r => from'[x] = from[x]
      /\ tail'[r] = start /\ from'[r] = start
  BY <1>1
<1>5. ASSUME NEW x \in Live'
      PROVE  tail'[x] \in from'[x]..Len(ring) /\ Len(ring) - tail'[x] <= Cap
  <2>1. CASE x = r
    BY <1>2, <1>3, <1>4, <2>1
  <2>2. CASE x # r
    BY <1>2, <1>4, <2>2
  <2> QED BY <2>1, <2>2
<1>6. \A x \in DOMAIN from' : from'[x] \in Nat
  BY <1>2, <1>3, <1>4
<1> QED BY <1>2, <1>4, <1>5, <1>6

\* A sink is attached at the end of the handles, once.
LEMMA Appended ==
  ASSUME NEW s \in Sinks, handles \in Seq(Sinks), IsInjective(handles),
         s \notin Range(handles), handles' = Append(handles, s)
  PROVE  /\ handles' \in Seq(Sinks) /\ IsInjective(handles')
         /\ Range(handles') = Range(handles) \cup {s}
<1>1. /\ handles' \in Seq(Sinks) /\ Len(handles') = Len(handles) + 1
      /\ \A i \in 1..Len(handles) : handles'[i] = handles[i]
      /\ handles'[Len(handles) + 1] = s
      /\ DOMAIN handles = 1..Len(handles) /\ DOMAIN handles' = 1..Len(handles')
      /\ Len(handles) \in Nat
  OBVIOUS
<1>2. DOMAIN handles' = DOMAIN handles \cup {Len(handles) + 1}
  BY <1>1
<1>3. Range(handles') = Range(handles) \cup {s}
  BY <1>1, <1>2 DEF Range
<1>4. \A i \in DOMAIN handles : handles[i] # s
  BY DEF Range
<1>5. ASSUME NEW i \in DOMAIN handles', NEW j \in DOMAIN handles', handles'[i] = handles'[j]
      PROVE  i = j
  <2>1. CASE i \in DOMAIN handles /\ j \in DOMAIN handles
    BY <1>1, <1>5, <2>1 DEF IsInjective
  <2>2. CASE i = Len(handles) + 1 \/ j = Len(handles) + 1
    BY <1>1, <1>2, <1>4, <1>5, <2>2
  <2> QED BY <1>2, <2>1, <2>2
<1>6. IsInjective(handles')
  BY <1>5 DEF IsInjective
<1> QED BY <1>1, <1>3, <1>6

\* A sink is attached before any has failed, with an empty file and its receiver.
LEMMA AttachSinkPreserves ==
  ASSUME IInv, TaskFrame, NEW s \in Sinks, AttachSink(s)
  PROVE  IInv'
<1> USE DEF IInv, TaskFrame, bazelVars, readerVars
<1>1. /\ task = "attach" /\ sink[s] = "none" /\ handles' = Append(handles, s)
      /\ UNCHANGED <<iteration, task, result, file>>
      /\ s \notin Live /\ s \notin DOMAIN from /\ "own" \in Live /\ s \in FileSinks
  BY DEF AttachSink, OwnHolds, SinksOK, FileSinks
<1>2. /\ sink' \in [Sinks -> {"unused", "none", "create", "recv", "ok", "err"}]
      /\ sink'[s] = "create" /\ \A r \in Sinks : r # s => sink'[r] = sink[r]
  BY DEF AttachSink, SinkGoes, TypeOK
<1>3. FileSinks' = FileSinks /\ HasFileSinks' = HasFileSinks
  <2>1. \A r \in Sinks : (sink'[r] # "unused") = (sink[r] # "unused")
    BY <1>1, <1>2
  <2>2. FileSinks' = FileSinks
    BY <2>1 DEF FileSinks
  <2> QED BY <2>2 DEF HasFileSinks
<1>4. /\ Live' = Live \cup {s} /\ DOMAIN from' = DOMAIN from \cup {s}
      /\ \A x \in Live : x # s => tail'[x] = tail[x]
      /\ \A x \in DOMAIN from : x # s => from'[x] = from[x]
      /\ tail'[s] = from'[s]
      /\ DOMAIN from' \subseteq Receivers /\ Live' \subseteq DOMAIN from'
      /\ \A x \in DOMAIN from' : from'[x] \in Nat
      /\ \A x \in Live' : /\ tail'[x] \in from'[x]..Len(ring)
                          /\ Len(ring) - tail'[x] <= Cap
  BY <1>1, Subscribed DEF AttachSink, Receivers
<1>5. TypeOK'
  <2>1. handles \in Seq(Sinks) /\ IsInjective(handles)
        /\ Range(handles) = FileSinks \cap DOMAIN from
    BY DEF TypeOK
  <2>2. /\ handles' \in Seq(Sinks) /\ IsInjective(handles')
        /\ Range(handles') = Range(handles) \cup {s}
    BY <1>1, <2>1, Appended
  <2>3. Range(handles') = FileSinks' \cap DOMAIN from'
    BY <1>1, <1>3, <1>4, <2>1, <2>2
  <2> QED BY <1>1, <1>2, <1>3, <1>4, <2>2, <2>3 DEF TypeOK
<1>6. OwnHolds' /\ ReaderOK'
  BY <1>1, <1>3, <1>4 DEF OwnHolds, ReaderOK
<1>7. SinksOK'
  BY <1>1, <1>2, <1>4 DEF SinksOK
<1>8. RingIsLog'
  BY <1>3 DEF RingIsLog, InHand
<1>9. FileIsTail'
  <2> SUFFICES ASSUME NEW r \in Sinks
               PROVE  /\ sink'[r] \in {"unused", "none"} => file'[r] = <<>>
                      /\ sink'[r] \in {"create", "recv"} => Holds(r, tail[r])'
                      /\ sink'[r] = "ok" /\ "flush" \notin Faults => Holds(r, Len(ring))'
    BY DEF FileIsTail
  <2>1. CASE r = s
    <3>1. file'[r] = <<>> /\ tail'[r] = from'[r] /\ from'[r] \in Nat
      BY <1>1, <1>4, <2>1 DEF FileIsTail
    <3> QED BY <1>2, <2>1, <3>1 DEF Holds
  <2>2. CASE r # s
    <3>1. sink'[r] = sink[r] /\ file'[r] = file[r]
      BY <1>1, <1>2, <2>2
    <3>2. /\ sink[r] \in {"create", "recv"} => tail'[r] = tail[r]
          /\ sink[r] \in {"create", "recv", "ok"} => from'[r] = from[r]
      BY <1>4, <2>2 DEF SinksOK
    <3> QED BY <3>1, <3>2 DEF FileIsTail, Holds
  <2> QED BY <2>1, <2>2
<1>10. SendErrorIsSinks'
  BY <1>1, <1>3 DEF SendErrorIsSinks
<1>11. OkMeansAllOk'
  BY <1>1 DEF OkMeansAllOk
<1> QED BY <1>5, <1>6, <1>7, <1>8, <1>9, <1>10, <1>11

\* A step of the task that leaves the sinks alone: what remains to be shown is
\* about the receivers and the task's own variables.
LEMMA TaskKeeps ==
  ASSUME IInv, TaskFrame, UNCHANGED <<iteration, sinkVars>>,
         task \notin {"done"}, task' # "attach",
         task' \in {"subscribe", "iterate", "wait", "join", "done"},
         task # "attach" \/ \A s \in FileSinks : sink[s] # "none",
         result' \in {"none", "ok", "error"}, (result' # "none") = (task' = "done"),
         DOMAIN from' \subseteq Receivers, Live' \subseteq DOMAIN from',
         \A x \in DOMAIN from' : from'[x] \in Nat,
         \A x \in Live' : /\ tail'[x] \in from'[x]..Len(ring)
                          /\ Len(ring) - tail'[x] <= Cap,
         \A s \in Sinks : /\ s \in Live' <=> s \in Live
                          /\ s \in DOMAIN from' <=> s \in DOMAIN from
                          /\ s \in Live => tail'[s] = tail[s]
                          /\ s \in DOMAIN from => from'[s] = from[s],
         OwnHolds', OkMeansAllOk'
  PROVE  IInv'
<1> USE DEF IInv, TaskFrame, bazelVars, readerVars, sinkVars
<1>1. FileSinks' = FileSinks /\ HasFileSinks' = HasFileSinks
  BY FramedSinks
<1>2. TypeOK'
  <2>1. FileSinks \cap DOMAIN from' = FileSinks \cap DOMAIN from
    BY DEF FileSinks
  <2>2. Range(handles)' = Range(handles) /\ IsInjective(handles)' = IsInjective(handles)
    OBVIOUS
  <2> QED BY <1>1, <2>1, <2>2 DEF TypeOK
<1>3. ReaderOK' /\ RingIsLog' /\ SendErrorIsSinks'
  BY <1>1 DEF ReaderOK, RingIsLog, InHand, SendErrorIsSinks
<1>4. SinksOK'
  BY DEF SinksOK, FileSinks
<1>5. FileIsTail'
  BY DEF FileIsTail, Holds, SinksOK
<1> QED BY <1>2, <1>3, <1>4, <1>5

\* The receivers as they are, for the steps that do not change them.
LEMMA ReceiversOK ==
  ASSUME TypeOK
  PROVE  /\ DOMAIN from \subseteq Receivers /\ Live \subseteq DOMAIN from
         /\ \A x \in DOMAIN from : from[x] \in Nat
         /\ \A x \in Live : /\ tail[x] \in from[x]..Len(ring)
                            /\ Len(ring) - tail[x] <= Cap
BY DEF TypeOK

\* The build goes on when every sink of it is attached.
LEMMA SpawnedPreserves == IInv /\ TaskFrame /\ Spawned => IInv'
<1> SUFFICES ASSUME IInv, TaskFrame, Spawned PROVE IInv'
  OBVIOUS
<1> USE DEF IInv, Spawned
<1>1. /\ task = "attach" /\ task' \in {"subscribe", "wait"} /\ Live' = Live
      /\ UNCHANGED <<iteration, result, tail, from, sinkVars>>
      /\ \A s \in FileSinks : sink[s] # "none"
  BY DEF Live
<1>2. OwnHolds' /\ OkMeansAllOk' /\ result = "none"
  BY <1>1 DEF OwnHolds, OkMeansAllOk, TypeOK
<1> QED BY <1>1, <1>2, ReceiversOK, TaskKeeps DEF TaskFrame

\* execution_logs() adds a receiver, taken from the stream's own.
LEMMA ExecutionLogsPreserves == IInv /\ TaskFrame /\ ExecutionLogs => IInv'
<1> SUFFICES ASSUME IInv, TaskFrame, ExecutionLogs PROVE IInv'
  OBVIOUS
<1> USE DEF IInv, ExecutionLogs
<1>1. /\ task = "subscribe" /\ task' \in {"iterate", "wait"} /\ "own" \in Live
      /\ Subscribe("iter") /\ "iter" \in Receivers /\ "iter" \notin Sinks
      /\ UNCHANGED <<iteration, result, sinkVars>> /\ ring' = ring
  BY ExecLogAssumption DEF OwnHolds, Receivers, TaskFrame
<1>2. /\ Live' = Live \cup {"iter"} /\ DOMAIN from' = DOMAIN from \cup {"iter"}
      /\ \A x \in Live : x # "iter" => tail'[x] = tail[x]
      /\ \A x \in DOMAIN from : x # "iter" => from'[x] = from[x]
      /\ DOMAIN from' \subseteq Receivers /\ Live' \subseteq DOMAIN from'
      /\ \A x \in DOMAIN from' : from'[x] \in Nat
      /\ \A x \in Live' : /\ tail'[x] \in from'[x]..Len(ring)
                          /\ Len(ring) - tail'[x] <= Cap
  BY <1>1, Subscribed
<1>3. OwnHolds' /\ OkMeansAllOk' /\ result = "none"
  BY <1>1, <1>2 DEF OwnHolds, OkMeansAllOk, TypeOK
<1> QED BY <1>1, <1>2, <1>3, TaskKeeps

\* The iterator moves its own receiver only.
LEMMA IteratorNextPreserves == IInv /\ TaskFrame /\ IteratorNext => IInv'
<1> SUFFICES ASSUME IInv, TaskFrame, IteratorNext PROVE IInv'
  OBVIOUS
<1> USE DEF IInv, IteratorNext
<1>1. /\ task = "iterate" /\ task' \in {"iterate", "wait"} /\ "own" \in Live
      /\ "iter" \in Live /\ "iter" \notin Sinks
      /\ UNCHANGED <<iteration, result, from, sinkVars>>
  BY ExecLogAssumption DEF OwnHolds
<1>2. Live' = Live /\ \A x \in Live : x # "iter" => tail'[x] = tail[x]
  BY DEF Live, Consume
<1>3. \A x \in Live' : tail'[x] \in from[x]..Len(ring) /\ Len(ring) - tail'[x] <= Cap
  <2>1. /\ tail["iter"] \in from["iter"]..Len(ring) /\ Len(ring) - tail["iter"] <= Cap
        /\ from["iter"] \in Nat /\ Len(ring) \in Nat /\ Cap \in Nat
    BY <1>1, ReceiversOK, ExecLogAssumption DEF TypeOK, Entries
  <2>2. /\ tail'["iter"] \in from["iter"]..Len(ring)
        /\ Len(ring) - tail'["iter"] <= Cap
    <3>1. CASE Pending("iter") /\ Consume("iter")
      <4>1. tail'["iter"] = tail["iter"] + 1 /\ tail["iter"] < Len(ring)
        BY <1>1, <3>1 DEF Consume, Pending, Live
      <4> QED BY <2>1, <4>1
    <3>2. CASE UNCHANGED tail
      BY <2>1, <3>2
    <3> QED BY <3>1, <3>2
  <2> QED BY <1>2, <2>2, ReceiversOK
<1>4. OwnHolds' /\ OkMeansAllOk' /\ result = "none"
  BY <1>1, <1>2 DEF OwnHolds, OkMeansAllOk, TypeOK
<1> QED BY <1>1, <1>2, <1>3, <1>4, ReceiversOK, TaskKeeps DEF TaskFrame

\* join() gives up the stream's own receiver once all sinks are attached.
LEMMA ChildWaitPreserves == IInv /\ TaskFrame /\ ChildWait => IInv'
<1> SUFFICES ASSUME IInv, TaskFrame, ChildWait PROVE IInv'
  OBVIOUS
<1> USE DEF IInv, ChildWait
<1>1. /\ task = "wait" /\ task' = "join" /\ "own" \notin Sinks
      /\ UNCHANGED <<iteration, result, from, sinkVars>>
      /\ Live' = Live \ {"own"} /\ \A x \in Live' : tail'[x] = tail[x]
  BY Unsubscribed, ExecLogAssumption
<1>2. OwnHolds' /\ OkMeansAllOk' /\ result = "none"
  BY <1>1 DEF OwnHolds, OkMeansAllOk, TypeOK
<1> QED BY <1>1, <1>2, ReceiversOK, TaskKeeps DEF TaskFrame

\* By the join every sink of the build has its handle.
LEMMA JoinPreserves == IInv /\ TaskFrame /\ Join => IInv'
<1> SUFFICES ASSUME IInv, TaskFrame, Join PROVE IInv'
  OBVIOUS
<1> USE DEF IInv, Join
<1>1. /\ task = "join" /\ task' = "done" /\ result' \in {"ok", "error"} /\ Live' = Live
      /\ UNCHANGED <<iteration, tail, from, sinkVars>>
  BY DEF Returns, Live
<1>2. OwnHolds'
  BY <1>1 DEF OwnHolds
<1>3. OkMeansAllOk'
  <2> SUFFICES ASSUME result' = "ok"
               PROVE  outcome' = "ok" /\ \A s \in FileSinks' : sink'[s] = "ok"
    BY <1>1 DEF OkMeansAllOk
  <2>1. outcome = "ok" /\ \A i \in DOMAIN handles : sink[handles[i]] = "ok"
    BY DEF Returns
  <2>2. FileSinks' = FileSinks /\ outcome' = outcome /\ sink' = sink
    BY FramedSinks DEF TaskFrame, readerVars, sinkVars
  <2>3. ASSUME NEW s \in FileSinks PROVE sink[s] = "ok"
    <3>1. s \in DOMAIN from
      BY <1>1 DEF FileSinks, SinksOK
    <3>2. s \in Range(handles)
      BY <3>1 DEF TypeOK
    <3> QED BY <2>1, <3>2 DEF Range
  <2> QED BY <2>1, <2>2, <2>3
<1> QED BY <1>1, <1>2, <1>3, ReceiversOK, TaskKeeps DEF TaskFrame

\* Every step of the task's thread keeps the invariant.
LEMMA TaskPreserves == IInv /\ Task => IInv'
BY AttachSinkPreserves, SpawnedPreserves, ExecutionLogsPreserves, IteratorNextPreserves,
   ChildWaitPreserves, JoinPreserves DEF Task, TaskFrame

\* What changes nothing keeps the invariant.
LEMMA StutterPreserves == IInv /\ UNCHANGED vars => IInv'
<1> SUFFICES ASSUME IInv, UNCHANGED vars PROVE IInv'
  OBVIOUS
<1> USE DEF IInv, vars, bazelVars, readerVars, sinkVars, taskVars
<1>1. FileSinks' = FileSinks /\ HasFileSinks' = HasFileSinks /\ Live' = Live
  BY FramedSinks DEF Live
<1>2. TypeOK'
  BY <1>1 DEF TypeOK
<1>3. OwnHolds' /\ ReaderOK' /\ SinksOK'
  BY <1>1 DEF OwnHolds, ReaderOK, SinksOK
<1>4. RingIsLog' /\ FileIsTail'
  BY <1>1 DEF RingIsLog, InHand, FileIsTail, Holds
<1>5. SendErrorIsSinks' /\ OkMeansAllOk'
  BY <1>1 DEF SendErrorIsSinks, OkMeansAllOk
<1> QED BY <1>2, <1>3, <1>4, <1>5

-----------------------------------------------------------------------------
\* The invariant holds of every state of the stream.
THEOREM Invariance == Spec => []IInv
<1>1. IInv /\ [Next]_vars => IInv'
  <2> SUFFICES ASSUME IInv, [Next]_vars PROVE IInv'
    OBVIOUS
  <2>1. CASE Bazel
    BY <2>1, BazelPreserves
  <2>2. CASE Reader
    BY <2>2, ReaderPreserves
  <2>3. CASE Task
    BY <2>3, TaskPreserves
  <2>4. CASE \E s \in Sinks : Sink(s)
    BY <2>4, SinkPreserves
  <2>5. CASE UNCHANGED vars
    BY <2>5, StutterPreserves
  <2> QED BY <2>1, <2>2, <2>3, <2>4, <2>5 DEF Next
<1> QED BY InitIInv, <1>1, PTL DEF Spec

\* Every variable of the stream keeps its type; no live receiver is ever more
\* than a ring behind, and each attached sink has its handle once.
THEOREM TypeCorrectness == Spec => []TypeOK
<1>1. IInv => TypeOK
  BY DEF IInv
<1> QED BY Invariance, <1>1, PTL

\* The reader stops for want of a receiver only when every decoded-file sink of
\* the build has failed.
THEOREM NoFalseSendError == Spec => []SendErrorIsSinks
<1>1. IInv => SendErrorIsSinks
  BY DEF IInv
<1> QED BY Invariance, <1>1, PTL

\* When build.wait() succeeds, every decoded-file sink has on disk all the
\* reader read from the log since the sink subscribed, in order.
THEOREM FileSinksMissNothing == Spec => []NoSinkGap
<1>1. IInv => NoSinkGap
  <2> SUFFICES ASSUME IInv, result = "ok", "flush" \notin Faults, NEW s \in FileSinks
               PROVE  file[s] = [i \in 1..(read - from[s]) |-> from[s] + i]
    BY DEF NoSinkGap
  <2>1. s \in Sinks /\ sink[s] = "ok" /\ outcome = "ok" /\ HasFileSinks
    BY DEF IInv, OkMeansAllOk, FileSinks, HasFileSinks
  <2>2. reader = "done" /\ read \in Nat
    BY <2>1, ExecLogAssumption DEF IInv, SinksOK, TypeOK
  <2>3. Len(ring) = read
    BY <2>1, <2>2 DEF IInv, RingIsLog, InHand
  <2>4. /\ Len(file[s]) = read - from[s]
        /\ \A i \in 1..Len(file[s]) : file[s][i] = from[s] + i
    BY <2>1, <2>3 DEF IInv, FileIsTail, Holds
  <2>5. file[s] = [i \in 1..Len(file[s]) |-> file[s][i]]
    BY <2>1 DEF IInv, TypeOK, Entries
  <2> QED BY <2>4, <2>5
<1> QED BY Invariance, <1>1, PTL

\* What the ring and its receivers hold, and that a successful build leaves on disk all
\* that was read of the log since the sink subscribed (execlog.rs).
THEOREM SinksAreSound == Spec => []SinksSound
<1>1. TypeOK /\ NoSinkGap => SinksSound
  BY DEF SinksSound
<1> QED BY TypeCorrectness, FileSinksMissNothing, <1>1, PTL
=============================================================================
