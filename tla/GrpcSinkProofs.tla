---------------------------- MODULE GrpcSinkProofs ----------------------------
(***************************************************************************)
(* What the gRPC sink keeps, for any events, sizes, byte budget, retry     *)
(* budget and channel capacity.                                            *)
(*                                                                         *)
(* The buffer is reasoned about through two lemmas, PushKeeps and          *)
(* PruneKeeps, that hold whatever the byte accounting decides to evict.    *)
(* On top of the inductive invariant come three more, each inductive       *)
(* beside it: Accounted for the bytes, AllTaken for what was published,    *)
(* LossInv for what the server stored.  PrefixStored carries the           *)
(* refinement of Upload.                                                   *)
(***************************************************************************)
EXTENDS GrpcSink, TLAPS

\* The buffer holds sequence numbers that were given out, oldest first.
Ascending ==
  /\ \A i \in 1..Len(items) : items[i] < next
  /\ \A i, j \in 1..Len(items) : i < j => items[i] < items[j]

\* The last two calls are made once nothing is left to replay.
DoneMeansEmpty ==
  /\ phase = "setup" => call = 1
  /\ phase # "returned" => call <= 4 /\ result.outcome = "running"
  /\ phase = "lifecycle" /\ call >= 3 => items = <<>>

AckIsOwedForAnEvent == srvOwes => srvGot > 0

\* TypeOK in two parts: the flags, and everything else.
FlagsOK ==
  /\ upClosed \in BOOLEAN /\ lastSent \in BOOLEAN /\ srvOwes \in BOOLEAN
  /\ reqOpen \in BOOLEAN /\ ackArmed \in BOOLEAN /\ halfArmed \in BOOLEAN
  /\ warned \in BOOLEAN

ResultOK == result \in [outcome : {"running", "ok", "err"},
                        sent : 0..(next - 1), acked : 0..maxAcked]

RestOK ==
  /\ BufferTypeOK
  /\ maxRetries \in Retries /\ maxRetries \in Nat
  /\ published \in 0..Len(Size) /\ Len(Size) \in Nat
  /\ phase \in Phases /\ call \in 1..5 /\ tries \in 0..maxRetries
  /\ next \in 1..(published + 1) /\ maxAcked \in 0..(next - 1)
  /\ attempt \in 0..maxRetries /\ ackedBefore \in 0..maxAcked /\ fruitless \in Nat
  /\ refused \in BOOLEAN
  /\ preloaded \in 0..(next - 1) /\ replayed \in Nat
  /\ wire \in Seq(1..(next - 1)) /\ acks \in Seq(1..(next - 1))
  /\ srvEnd \in {"open", "closed", "retryable", "fatal"}
  /\ srvGot \in 0..(next - 1)
  /\ landed \subseteq 1..(next - 1)

\* What is still to be written on this connection is newer than what is on it.
Fresh(n) == srvGot < n /\ \A i \in 1..Len(wire) : wire[i] < n

WireIsBehind ==
  /\ phase = "preload" => wire = <<>> /\ srvGot = 0 /\ replayed = 0
  /\ phase = "opening" => replayed = 0
  /\ phase \in {"opening", "replay"} =>
       \A i \in (replayed + 1)..Len(items) : items[i] = preloaded \/ Fresh(items[i])
  /\ phase = "sending" => Fresh(next - 1)

IInv ==
  /\ FlagsOK /\ ResultOK /\ RestOK
  /\ Ascending
  /\ DoneMeansEmpty
  /\ AckIsOwedForAnEvent
  /\ WireIsBehind
  /\ UnackedIsReplayable
  /\ WireInOrder
  /\ OkMeansConfirmed
  /\ BudgetIsConsecutive

-----------------------------------------------------------------------------
\* What is retained are numbers of events, older than the next one.
LEMMA BufferTyped ==
  ASSUME RestOK
  PROVE  /\ items \in Seq(Events) /\ Len(items) \in Nat
         /\ next \in Nat \ {0} /\ next - 1 \in 0..Len(Size) /\ Len(Size) \in Nat
         /\ \A i \in 1..Len(items) : items[i] \in Nat \ {0}
<1>1. /\ items \in Seq(Events) /\ Len(Size) \in Nat
      /\ published \in 0..Len(Size) /\ next \in 1..(published + 1)
  BY DEF RestOK, BufferTypeOK
<1>2. \A n \in Events : n \in Nat \ {0}
  BY <1>1, RetryBufferAssumption
<1>3. Len(items) \in Nat /\ \A i \in 1..Len(items) : items[i] \in Events
  BY <1>1
<1>4. next \in Nat \ {0} /\ next - 1 \in 0..Len(Size)
  BY <1>1
<1>5. \A i \in 1..Len(items) : items[i] \in Nat \ {0}
  BY <1>2, <1>3
<1> QED BY <1>1, <1>3, <1>4, <1>5

-----------------------------------------------------------------------------
\* Pushing keeps the order, gives up only what it forgets, and retains at most
\* the new event of what it did not hold before.
LEMMA PushKeeps ==
  ASSUME items \in Seq(Events), forgotten \subseteq Events, evicted \in Nat,
         next \in Events, Ascending, Push(next)
  PROVE  /\ items' \in Seq(Events) /\ forgotten' \subseteq Events /\ evicted' \in Nat
         /\ forgotten \subseteq forgotten'
         /\ Items \cup {next} \subseteq Items' \cup forgotten'
         /\ \A i \in 1..Len(items') : items'[i] <= next
         /\ \A i, j \in 1..Len(items') : i < j => items'[i] < items'[j]
         /\ items = <<>> => items' = <<>> \/ items' = <<next>>
<1>1. PICK k \in 0..Len(items) :
        LET gone == {items[i] : i \in 1..k}
        IN \/ /\ items' = Append(SubSeq(items, k + 1, Len(items)), next)
              /\ evicted' = evicted + k
              /\ forgotten' = forgotten \cup gone
           \/ /\ items' = SubSeq(items, k + 1, Len(items))
              /\ evicted' = evicted + k + 1
              /\ forgotten' = forgotten \cup gone \cup {next}
  BY DEF Push, AllBut
<1> DEFINE gone == {items[i] : i \in 1..k}
           kept == SubSeq(items, k + 1, Len(items))
<1>2. Len(items) \in Nat /\ \A i \in 1..Len(items) : items[i] \in Events
  OBVIOUS
<1>3. Events \subseteq Nat /\ next \in Nat
  BY RetryBufferAssumption
<1>4. /\ kept \in Seq(Events) /\ Len(kept) = Len(items) - k
      /\ \A i \in 1..Len(kept) : kept[i] = items[k + i]
  BY <1>2
<1>5. Len(kept) \in Nat /\ \A i \in 1..Len(kept) : kept[i] \in Nat
  <2>1. Len(kept) \in Nat
    BY <1>4
  <2>2. ASSUME NEW i \in 1..Len(kept) PROVE kept[i] \in Nat
    <3>1. k + i \in 1..Len(items)
      BY <1>2, <1>4
    <3> QED BY <1>2, <1>3, <1>4, <3>1
  <2> QED BY <2>1, <2>2
<1>6. /\ \A i \in 1..Len(kept) : kept[i] < next
      /\ \A i, j \in 1..Len(kept) : i < j => kept[i] < kept[j]
  BY <1>2, <1>4 DEF Ascending
<1>7. Items \subseteq {kept[i] : i \in 1..Len(kept)} \cup gone
  <2>1. ASSUME NEW i \in 1..Len(items), i > k
        PROVE  items[i] \in {kept[j] : j \in 1..Len(kept)}
    <3>1. i - k \in 1..Len(kept) /\ kept[i - k] = items[i]
      BY <1>2, <1>4, <2>1
    <3> QED BY <3>1
  <2>2. ASSUME NEW i \in 1..Len(items), ~(i > k)
        PROVE  items[i] \in gone
    BY <1>2, <2>2
  <2> HIDE DEF gone, kept
  <2> QED BY <2>1, <2>2 DEF Items
<1>8. gone \subseteq Events
  BY <1>2
<1> HIDE DEF gone, kept
<1>9. CASE /\ items' = Append(kept, next) /\ evicted' = evicted + k
           /\ forgotten' = forgotten \cup gone
  <2>1. /\ items' \in Seq(Events) /\ Len(items') = Len(kept) + 1
        /\ \A i \in 1..Len(kept) : items'[i] = kept[i]
        /\ items'[Len(kept) + 1] = next
    BY <1>4, <1>9
  <2>2. Items \cup {next} \subseteq Items' \cup forgotten'
    <3>1. {kept[i] : i \in 1..Len(kept)} \subseteq Items'
      BY <2>1, <1>4 DEF Items
    <3>2. next \in Items'
      BY <2>1, <1>4 DEF Items
    <3> QED BY <3>1, <3>2, <1>7, <1>9
  <2>3. items = <<>> => items' = <<next>>
    <3>1. items = <<>> => Len(kept) = 0
      BY <1>2, <1>4
    <3>2. Len(kept) = 0 => kept = <<>>
      BY <1>4
    <3> QED BY <1>9, <3>1, <3>2
  <2>4. /\ \A i \in 1..Len(items') : items'[i] <= next
        /\ \A i, j \in 1..Len(items') : i < j => items'[i] < items'[j]
    <3>1. \A i \in 1..Len(items') : i \in 1..Len(kept) \/ i = Len(kept) + 1
      BY <1>5, <2>1
    <3>2. ASSUME NEW i \in 1..Len(items') PROVE items'[i] <= next
      <4>1. CASE i \in 1..Len(kept)
        BY <1>3, <1>5, <1>6, <2>1, <4>1
      <4>2. CASE i = Len(kept) + 1
        BY <1>3, <2>1, <4>2
      <4> QED BY <3>1, <4>1, <4>2
    <3>3. ASSUME NEW i \in 1..Len(items'), NEW j \in 1..Len(items'), i < j
          PROVE  items'[i] < items'[j]
      <4>1. i \in 1..Len(kept)
        BY <1>5, <2>1, <3>3
      <4>2. CASE j \in 1..Len(kept)
        <5>1. items'[i] = kept[i] /\ items'[j] = kept[j]
          BY <2>1, <4>1, <4>2
        <5>2. kept[i] < kept[j]
          BY <1>6, <3>3, <4>1, <4>2
        <5> QED BY <5>1, <5>2
      <4>3. CASE j = Len(kept) + 1
        BY <1>6, <2>1, <4>1, <4>3
      <4> QED BY <3>1, <4>2, <4>3
    <3> QED BY <3>2, <3>3
  <2> QED BY <1>8, <1>9, <2>1, <2>2, <2>3, <2>4
<1>10. CASE /\ items' = kept /\ evicted' = evicted + k + 1
           /\ forgotten' = forgotten \cup gone \cup {next}
  <2>1. Items' = {kept[i] : i \in 1..Len(kept)}
    BY <1>10 DEF Items
  <2>2. \A i \in 1..Len(kept) : kept[i] <= next
    BY <1>3, <1>5, <1>6
  <2>3. items = <<>> => items' = <<>>
    BY <1>4, <1>10
  <2>4. \A i, j \in 1..Len(items') : i < j => items'[i] < items'[j]
    BY <1>6, <1>10
  <2>5. items' \in Seq(Events) /\ evicted' \in Nat
    BY <1>4, <1>10
  <2>6. /\ forgotten' \subseteq Events /\ forgotten \subseteq forgotten'
        /\ Items \cup {next} \subseteq Items' \cup forgotten'
    BY <1>7, <1>8, <1>10, <2>1
  <2> QED BY <1>10, <2>2, <2>3, <2>4, <2>5, <2>6
<1> QED BY <1>1, <1>9, <1>10 DEF gone, kept

\* Pruning removes nothing newer than the ack, and keeps the order.
LEMMA PruneKeeps ==
  ASSUME items \in Seq(Events), NEW ack \in Nat, Ascending, PruneUntil(ack)
  PROVE  /\ items' \in Seq(Events)
         /\ UNCHANGED <<evicted, forgotten>>
         /\ \A n \in Items : n <= ack \/ n \in Items'
         /\ \A i \in 1..Len(items') : items'[i] < next
         /\ \A i, j \in 1..Len(items') : i < j => items'[i] < items'[j]
<1>1. PICK k \in 0..Len(items) :
        /\ \A i \in 1..k : items[i] <= ack
        /\ items' = SubSeq(items, k + 1, Len(items))
        /\ UNCHANGED <<evicted, forgotten>>
  BY DEF PruneUntil, AllBut
<1>2. /\ items' \in Seq(Events) /\ Len(items') = Len(items) - k
      /\ \A i \in 1..Len(items') : items'[i] = items[k + i]
  BY <1>1
<1>3. \A n \in Items : n <= ack \/ n \in Items'
  <2>1. ASSUME NEW i \in 1..Len(items), i > k
        PROVE  items[i] \in Items'
    <3>1. i - k \in 1..Len(items') /\ items'[i - k] = items[i]
      BY <1>2, <2>1
    <3> QED BY <3>1 DEF Items
  <2>2. ASSUME NEW i \in 1..Len(items), ~(i > k)
        PROVE  items[i] <= ack
    BY <1>1, <2>2
  <2> QED BY <2>1, <2>2 DEF Items
<1> QED BY <1>1, <1>2, <1>3 DEF Ascending

-----------------------------------------------------------------------------
LEMMA InitIInv == Init => IInv
<1> SUFFICES ASSUME Init PROVE IInv
  OBVIOUS
<1> USE DEF Init, BufferInit
<1>1. FlagsOK /\ ResultOK /\ RestOK
  <2>1. Len(Size) \in Nat /\ maxRetries \in Nat
    BY GrpcSinkAssumption, RetryBufferAssumption
  <2>2. FlagsOK
    BY Zenon DEF FlagsOK
  <2>3. ResultOK
    BY DEF ResultOK
  <2>4. refused \in BOOLEAN
    BY Zenon
  <2>5. RestOK
    BY <2>1, <2>4 DEF RestOK, BufferTypeOK, Phases
  <2> QED BY <2>2, <2>3, <2>5
<1>2. /\ Ascending /\ DoneMeansEmpty /\ AckIsOwedForAnEvent /\ WireIsBehind
      /\ WireInOrder /\ OkMeansConfirmed
  BY DEF Ascending, DoneMeansEmpty, AckIsOwedForAnEvent, WireIsBehind, WireInOrder,
         OkMeansConfirmed
<1>3. UnackedIsReplayable
  BY DEF UnackedIsReplayable
<1>4. BudgetIsConsecutive
  BY GrpcSinkAssumption DEF BudgetIsConsecutive
<1> QED BY <1>1, <1>2, <1>3, <1>4 DEF IInv

\* The parts of the invariant that only look at the buffer, the sequence numbers
\* and the result.
BufferInv == Ascending /\ UnackedIsReplayable

LEMMA BufferUntouched ==
  ASSUME BufferInv, UNCHANGED <<items, forgotten, next, maxAcked>>
  PROVE  BufferInv'
BY DEF BufferInv, Ascending, UnackedIsReplayable, Items

\* A result, once there, is not touched again; what it says of forgotten events
\* stays true.
LEMMA ResultKept ==
  ASSUME OkMeansConfirmed, UNCHANGED result, forgotten \subseteq forgotten'
  PROVE  OkMeansConfirmed'
BY DEF OkMeansConfirmed

\* Either way of giving up is an error.
LEMMA GivingUpFails ==
  ASSUME GiveUp \/ Refuse
  PROVE  phase' = "returned" /\ result'.outcome = "err"
<1>1. Return("err")
  BY DEF GiveUp, Refuse
<1> QED BY <1>1 DEF Return, ReturnWith

\* However a drive ends, by one of the three ways out of it, the invariant holds
\* again, provided the buffer is in order and a regular end leaves it empty.
LEMMA DriveEnds ==
  ASSUME IInv, phase \in {"opening", "select", "drain"},
         BufferTypeOK', BufferInv', maxAcked' \in maxAcked..(next - 1),
         UNCHANGED <<upVars, lifeVars, next, lastSent, forgotten, landed, warned>>,
         \/ Finish /\ items' = <<>>
         \/ Refuse /\ UNCHANGED maxAcked
         \/ Transient /\ UNCHANGED maxAcked
  PROVE  IInv'
<1> USE DEF IInv
<1>0. \E open \in BOOLEAN : FreshDrive(open)
  BY DEF Finish, GiveUp, Refuse, Transient, Connect
<1>1. /\ preloaded' = 0 /\ replayed' = 0 /\ wire' = <<>> /\ acks' = <<>>
      /\ srvEnd' = "open" /\ srvGot' = 0
  BY <1>0 DEF FreshDrive
<1>2. /\ phase' \in {"lifecycle", "returned", "preload"}
      /\ phase' # "returned" => UNCHANGED result
      /\ phase' = "returned" => result' = [outcome |-> "err", sent |-> next - 1,
                                          acked |-> maxAcked] /\ UNCHANGED maxAcked
      /\ phase' = "lifecycle" => items' = <<>>
  BY DEF Finish, GiveUp, Refuse, Transient, Connect, Return, ReturnWith, Stats
<1>3. /\ attempt' \in 0..maxRetries /\ ackedBefore' \in 0..maxAcked' /\ fruitless' \in Nat
      /\ BudgetIsConsecutive'
  <2>1. CASE UNCHANGED <<attempt, ackedBefore, fruitless>>
    BY <2>1 DEF RestOK, BudgetIsConsecutive, lifeVars
  <2>2. CASE /\ UNCHANGED maxAcked
             /\ Renewed \/ ~Spent
             /\ ackedBefore' = maxAcked /\ attempt' = NextAttempt
             /\ fruitless' = IF MadeProgress THEN 0 ELSE fruitless + 1
    BY <2>2 DEF RestOK, BudgetIsConsecutive, lifeVars, NextAttempt, Renewed, Spent,
                    MadeProgress
  <2> QED BY <2>1, <2>2 DEF Finish, GiveUp, Refuse, Transient, Connect, budgetVars
<1>4. FlagsOK' /\ ResultOK' /\ RestOK'
  <2>0. refused' \in BOOLEAN
    BY DEF RestOK, Finish, Refuse, Transient, budgetVars
  <2>1. FlagsOK'
    BY <1>0 DEF FlagsOK, FreshDrive, upVars
  <2>2. ResultOK'
    BY <1>2 DEF ResultOK, RestOK
  <2>3. RestOK'
    <3> DEFINE m == next - 1
    <3>1. /\ UNCHANGED <<maxRetries, published, call, tries, next, landed>>
          /\ Len(Size) \in Nat /\ m \in Nat /\ m' = m
      BY DEF RestOK, upVars, lifeVars
    <3>2. /\ preloaded' \in 0..m' /\ replayed' \in Nat /\ srvGot' \in 0..m'
          /\ wire' \in Seq(1..m') /\ acks' \in Seq(1..m')
          /\ srvEnd' \in {"open", "closed", "retryable", "fatal"}
      BY <1>1, <3>1
    <3>3. maxAcked' \in 0..m'
      BY <3>1 DEF RestOK
    <3>4. phase' \in Phases
      BY <1>2 DEF Phases
    <3> QED BY <1>3, <2>0, <3>1, <3>2, <3>3, <3>4 DEF RestOK
  <2> QED BY <2>1, <2>2, <2>3
<1>5. OkMeansConfirmed'
  BY <1>2 DEF OkMeansConfirmed
<1>6. DoneMeansEmpty'
  BY <1>2 DEF DoneMeansEmpty, lifeVars
<1>7. AckIsOwedForAnEvent' /\ WireInOrder'
  BY <1>0, <1>1 DEF AckIsOwedForAnEvent, WireInOrder, FreshDrive
<1>8. WireIsBehind'
  BY <1>1, <1>2 DEF WireIsBehind
<1> QED BY <1>3, <1>4, <1>5, <1>6, <1>7, <1>8 DEF BufferInv

\* For the actions that leave the buffer, the numbering and the result alone.
LEMMA Local ==
  ASSUME IInv, UNCHANGED <<items, forgotten, next, maxAcked, maxRetries, budgetVars, result>>,
         FlagsOK', RestOK', DoneMeansEmpty', AckIsOwedForAnEvent', WireIsBehind', WireInOrder'
  PROVE  IInv'
<1> USE DEF IInv
<1>1. BufferInv' /\ OkMeansConfirmed'
  BY BufferUntouched, ResultKept DEF BufferInv
<1>2. ResultOK' /\ BudgetIsConsecutive'
  BY DEF ResultOK, BudgetIsConsecutive, budgetVars
<1> QED BY <1>1, <1>2 DEF BufferInv

LEMMA UpstreamPreserves ==
  ASSUME IInv, Publish \/ CloseUpstream
  PROVE  IInv'
<1>1. UNCHANGED <<bufferVars, phase, lifeVars, streamVars, budgetVars, loopVars,
                  connVars, landed, warned, result>>
  BY DEF Publish, CloseUpstream
<1>2. FlagsOK'
  BY <1>1 DEF IInv, FlagsOK, Publish, CloseUpstream, streamVars, loopVars, connVars
<1>3. RestOK'
  <2>1. published' \in 0..Len(Size) /\ next' \in 1..(published' + 1)
    <3>1. UNCHANGED next /\ Len(Size) \in Nat
          /\ published \in 0..Len(Size) /\ next \in 1..(published + 1)
      BY <1>1 DEF IInv, RestOK, streamVars
    <3>2. \/ published' = published
          \/ published' = published + 1 /\ published + 1 \in 1..Len(Size)
      BY RetryBufferAssumption DEF Publish, CloseUpstream
    <3> QED BY <3>1, <3>2
  <2> QED
    BY <1>1, <2>1 DEF IInv, RestOK, BufferTypeOK, bufferVars, lifeVars, streamVars,
                      budgetVars, loopVars, connVars
<1>4. /\ DoneMeansEmpty' /\ AckIsOwedForAnEvent' /\ WireIsBehind' /\ WireInOrder'
  BY <1>1 DEF IInv, DoneMeansEmpty, AckIsOwedForAnEvent, WireIsBehind, WireInOrder, Fresh,
              bufferVars, lifeVars, streamVars, loopVars, connVars
<1> QED BY <1>1, <1>2, <1>3, <1>4, Local DEF bufferVars, lifeVars, streamVars

\* The server and the network only shorten the wire and lengthen the acks.
LEMMA ServerPreserves ==
  ASSUME IInv,
         ServerRead \/ ServerAck \/ ConnectionLost
           \/ \E how \in {"closed", "retryable", "fatal"} : ServerEnds(how)
  PROVE  IInv'
<1> USE DEF IInv
<1>1. UNCHANGED <<bufferVars, upVars, phase, lifeVars, streamVars, budgetVars, loopVars,
                  warned, result>>
  BY DEF ServerRead, ServerAck, ConnectionLost, ServerEnds
<1>2. FlagsOK'
  BY <1>1 DEF FlagsOK, ServerRead, ServerAck, ConnectionLost, ServerEnds, upVars,
              streamVars, loopVars
<1>3. /\ wire' \in Seq(1..(next - 1)) /\ acks' \in Seq(1..(next - 1))
      /\ srvEnd' \in {"open", "closed", "retryable", "fatal"}
      /\ srvGot' \in 0..(next - 1) /\ landed' \subseteq 1..(next - 1)
  <2>1. next - 1 \in Nat
    BY DEF RestOK
  <2>2. CASE ServerRead
    <3>1. wire \in Seq(1..(next - 1)) /\ wire # <<>> /\ landed \subseteq 1..(next - 1)
          /\ acks \in Seq(1..(next - 1)) /\ srvEnd \in {"open", "closed", "retryable", "fatal"}
      BY <2>2 DEF RestOK, ServerRead
    <3>2. Head(wire) \in 1..(next - 1) /\ Tail(wire) \in Seq(1..(next - 1))
      BY <2>1, <3>1
    <3>3. /\ wire' = Tail(wire) /\ srvGot' = Head(wire) /\ UNCHANGED <<acks, srvEnd>>
          /\ landed' = landed \cup {Head(wire)}
      BY <2>2 DEF ServerRead
    <3>4. landed' \subseteq 1..(next - 1)
      BY <3>1, <3>2, <3>3
    <3>5. srvGot' \in 0..(next - 1)
      BY <2>1, <3>2, <3>3
    <3>6. wire' \in Seq(1..(next - 1)) /\ acks' \in Seq(1..(next - 1))
          /\ srvEnd' \in {"open", "closed", "retryable", "fatal"}
      BY <3>1, <3>2, <3>3
    <3> QED BY <3>4, <3>5, <3>6
  <2>3. CASE ServerAck
    BY <2>1, <2>3 DEF RestOK, ServerAck, AckIsOwedForAnEvent
  <2>4. CASE ConnectionLost
    BY <2>1, <2>4 DEF RestOK, ConnectionLost
  <2>5. CASE \E how \in {"closed", "retryable", "fatal"} : ServerEnds(how)
    BY <2>1, <2>5 DEF RestOK, ServerEnds
  <2> QED BY <2>2, <2>3, <2>4, <2>5
<1>4. RestOK'
  BY <1>1, <1>3 DEF RestOK, BufferTypeOK, bufferVars, upVars, lifeVars, streamVars,
                    budgetVars, loopVars
<1>5. DoneMeansEmpty'
  BY <1>1 DEF DoneMeansEmpty, bufferVars, lifeVars
<1>6. /\ AckIsOwedForAnEvent' /\ WireInOrder'
      /\ \A n \in Nat : Fresh(n) => Fresh(n)'
      /\ phase # "preload"
  <2>1. CASE ServerRead
    <3>1. /\ wire # <<>> /\ wire' = Tail(wire) /\ srvGot' = wire[1] /\ Connected
          /\ wire \in Seq(Nat) /\ Len(wire') = Len(wire) - 1 /\ Len(wire) \in Nat \ {0}
          /\ \A i \in 1..Len(wire') : wire'[i] = wire[i + 1]
          /\ \A i \in 1..Len(wire) : wire[i] > 0
      BY <2>1 DEF ServerRead, RestOK
    <3>2. AckIsOwedForAnEvent' /\ phase # "preload"
      BY <3>1 DEF AckIsOwedForAnEvent, Connected
    <3>3. WireInOrder'
      BY <3>1 DEF WireInOrder
    <3>4. \A n \in Nat : Fresh(n) => Fresh(n)'
      BY <3>1 DEF Fresh
    <3> QED BY <3>2, <3>3, <3>4
  <2>2. CASE ServerAck
    BY <2>2 DEF ServerAck, AckIsOwedForAnEvent, WireInOrder, Fresh, Connected
  <2>3. CASE ConnectionLost
    BY <2>3 DEF ConnectionLost, AckIsOwedForAnEvent, WireInOrder, Fresh, Connected
  <2>4. CASE \E how \in {"closed", "retryable", "fatal"} : ServerEnds(how)
    BY <2>4 DEF ServerEnds, AckIsOwedForAnEvent, WireInOrder, Fresh, Connected
  <2> QED BY <2>1, <2>2, <2>3, <2>4
<1>7. WireIsBehind'
  <2>1. \A i \in 1..Len(items) : items[i] \in Nat
    BY BufferTyped
  <2>2. next - 1 \in Nat /\ replayed \in Nat
    BY DEF RestOK
  <2> QED BY <1>1, <1>6, <2>1, <2>2 DEF WireIsBehind, bufferVars, streamVars, loopVars
<1> HIDE DEF IInv
<1> QED BY <1>1, <1>2, <1>4, <1>5, <1>6, <1>7, Local DEF bufferVars, lifeVars, streamVars

-----------------------------------------------------------------------------
\* Taking an event numbers it and puts it in the buffer, or counts it forgotten.
LEMMA TakeKeeps ==
  ASSUME IInv, Take, UNCHANGED maxAcked
  PROVE  /\ BufferTypeOK' /\ BufferInv'
         /\ next \in 1..published /\ next' = next + 1 /\ forgotten \subseteq forgotten'
         /\ items = <<>> => items' = <<>> \/ items' = <<next>>
<1> USE DEF IInv
<1>1. next \in 1..published /\ published \in 0..Len(Size) /\ Len(Size) \in Nat
      /\ maxAcked \in 0..(next - 1) /\ next' = next + 1 /\ Push(next)
  BY DEF Take, EventWaiting, RestOK
<1>2. next \in Events /\ Events \subseteq Nat
  BY <1>1, RetryBufferAssumption
<1>3. items \in Seq(Events) /\ forgotten \subseteq Events /\ evicted \in Nat
  BY DEF RestOK, BufferTypeOK
<1>4. /\ items' \in Seq(Events) /\ forgotten' \subseteq Events /\ evicted' \in Nat
      /\ forgotten \subseteq forgotten'
      /\ Items \cup {next} \subseteq Items' \cup forgotten'
      /\ \A i \in 1..Len(items') : items'[i] <= next
      /\ \A i, j \in 1..Len(items') : i < j => items'[i] < items'[j]
      /\ items = <<>> => items' = <<>> \/ items' = <<next>>
  BY <1>1, <1>2, <1>3, PushKeeps
<1>5. Ascending'
  <2>1. \A i \in 1..Len(items') : items'[i] \in Nat
    <3>1. items' \in Seq(Events)
      BY <1>4
    <3>2. \A i \in 1..Len(items') : items'[i] \in Events
      BY <3>1
    <3> QED BY <1>2, <3>2
  <2> QED BY <1>1, <1>4, <2>1 DEF Ascending
<1>6. UnackedIsReplayable'
  <2> SUFFICES ASSUME NEW n \in (maxAcked' + 1)..(next' - 1)
               PROVE  n \in Items' \/ n \in forgotten'
    BY DEF UnackedIsReplayable
  <2>1. n = next \/ n \in (maxAcked + 1)..(next - 1)
    BY <1>1
  <2> QED BY <1>4, <2>1 DEF UnackedIsReplayable
<1> HIDE DEF IInv
<1> QED BY <1>1, <1>4, <1>5, <1>6 DEF BufferInv, BufferTypeOK

\* Recording an ack loses only what it confirms.
LEMMA AckKeeps ==
  ASSUME IInv, acks # <<>>, RecordAck(Head(acks)), UNCHANGED next
  PROVE  /\ BufferTypeOK' /\ BufferInv' /\ UNCHANGED forgotten
         /\ maxAcked' \in maxAcked..(next - 1)
<1> USE DEF IInv
<1> DEFINE ack == Head(acks)
<1>1. /\ ack \in 1..(next - 1) /\ next - 1 \in Nat /\ maxAcked \in 0..(next - 1)
      /\ PruneUntil(ack) /\ maxAcked' = IF ack > maxAcked THEN ack ELSE maxAcked
  BY DEF RecordAck, RestOK
<1> HIDE DEF ack
<1>2. items \in Seq(Events) /\ forgotten \subseteq Events /\ evicted \in Nat /\ Ascending
  BY DEF RestOK, BufferTypeOK
<1>3. /\ items' \in Seq(Events)
      /\ UNCHANGED <<evicted, forgotten>>
      /\ \A n \in Items : n <= ack \/ n \in Items'
      /\ \A i \in 1..Len(items') : items'[i] < next
      /\ \A i, j \in 1..Len(items') : i < j => items'[i] < items'[j]
  BY <1>1, <1>2, PruneKeeps
<1>4. Ascending'
  BY <1>3 DEF Ascending
<1>5. UnackedIsReplayable'
  <2> SUFFICES ASSUME NEW n \in (maxAcked' + 1)..(next' - 1)
               PROVE  n \in Items' \/ n \in forgotten'
    BY DEF UnackedIsReplayable
  <2>1. n \in (maxAcked + 1)..(next - 1) /\ ~(n <= ack)
    BY <1>1
  <2> QED BY <1>3, <2>1 DEF UnackedIsReplayable
<1> QED BY <1>1, <1>2, <1>3, <1>4, <1>5 DEF BufferInv, BufferTypeOK

\* One event more makes room for more, and takes nothing away.
LEMMA SeqGrows ==
  ASSUME NEW m \in Nat, NEW s \in Seq(1..m)
  PROVE  s \in Seq(1..(m + 1)) /\ \A i \in 1..Len(s) : s[i] <= m
OBVIOUS

\* For the actions that take an event.
LEMMA RestAfterTake ==
  ASSUME RestOK, next \in 1..published, next' = next + 1, BufferTypeOK',
         UNCHANGED <<upVars, lifeVars, maxAcked, budgetVars, srvEnd, srvGot, landed, acks>>,
         phase' \in Phases, preloaded' \in 0..next, replayed' \in Nat,
         wire' \in Seq(1..next)
  PROVE  RestOK'
<1> DEFINE m == next - 1
<1>1. /\ m \in Nat /\ m' = m + 1 /\ m' = next /\ next' \in 1..(published + 1)
      /\ maxAcked \in 0..m /\ srvGot \in 0..m /\ landed \subseteq 1..m /\ acks \in Seq(1..m)
  BY DEF RestOK
<1>2. /\ maxAcked' \in 0..m' /\ srvGot' \in 0..m' /\ landed' \subseteq 1..m'
      /\ preloaded' \in 0..m' /\ wire' \in Seq(1..m')
  BY <1>1
<1>3. acks' \in Seq(1..m')
  BY <1>1, SeqGrows
<1> QED BY <1>1, <1>2, <1>3 DEF RestOK, upVars, lifeVars, budgetVars

-----------------------------------------------------------------------------
\* Writing an event newer than all that was written keeps the wire in order.
LEMMA AppendInOrder ==
  ASSUME wire \in Seq(Nat), srvGot \in Nat, NEW n \in Nat, WireInOrder, Fresh(n),
         wire' = Append(wire, n), UNCHANGED srvGot
  PROVE  WireInOrder'
<1>1. /\ Len(wire) \in Nat /\ Len(wire') = Len(wire) + 1 /\ wire'[Len(wire) + 1] = n
      /\ \A i \in 1..Len(wire) : wire'[i] = wire[i] /\ wire[i] \in Nat
  OBVIOUS
<1>2. \A i \in 1..Len(wire') : i \in 1..Len(wire) \/ i = Len(wire) + 1
  BY <1>1
<1>3. ASSUME NEW i \in 1..Len(wire') PROVE wire'[i] > srvGot'
  BY <1>1, <1>2, <1>3 DEF WireInOrder, Fresh
<1>4. ASSUME NEW i \in 1..Len(wire'), NEW j \in 1..Len(wire'), i < j
      PROVE  wire'[i] < wire'[j]
  <2>1. i \in 1..Len(wire)
    BY <1>1, <1>4
  <2>2. CASE j \in 1..Len(wire)
    <3>1. wire'[i] = wire[i] /\ wire'[j] = wire[j]
      BY <1>1, <2>1, <2>2
    <3>2. wire[i] < wire[j]
      BY <1>4, <2>1, <2>2 DEF WireInOrder
    <3> QED BY <3>1, <3>2
  <2>3. CASE j = Len(wire) + 1
    BY <1>1, <2>1, <2>3 DEF Fresh
  <2> QED BY <1>2, <2>2, <2>3
<1> QED BY <1>3, <1>4 DEF WireInOrder

LEMMA ItemsAreNumbers ==
  ASSUME RestOK, Ascending
  PROVE  Len(items) \in Nat /\ \A i \in 1..Len(items) : items[i] \in 1..(next - 1)
<1>1. /\ Len(items) \in Nat /\ next \in Nat
      /\ \A i \in 1..Len(items) : items[i] \in Nat \ {0}
  BY BufferTyped
<1> QED BY <1>1 DEF Ascending

(* One lemma per phase of the sink.                                        *)
LEMMA PreloadPreserves ==
  ASSUME IInv, PreloadFromBuffer \/ PreloadFromUpstream \/ PreloadNothing
  PROVE  IInv'
<1> USE DEF IInv
<1>1. /\ phase = "preload" /\ phase' = "opening"
      /\ wire = <<>> /\ srvGot = 0 /\ replayed = 0
      /\ UNCHANGED <<upVars, lifeVars, maxAcked, budgetVars, replayed, reqOpen, ackArmed,
                     halfArmed, acks, srvEnd, srvGot, srvOwes, landed, warned, result>>
  BY DEF PreloadFromBuffer, PreloadFromUpstream, PreloadNothing, WireIsBehind,
         streamVars, loopVars, connVars
<1>2. AckIsOwedForAnEvent' /\ DoneMeansEmpty'
  BY <1>1 DEF AckIsOwedForAnEvent, DoneMeansEmpty, lifeVars
<1>3. next - 1 \in Nat
  BY DEF RestOK
<1>4. CASE PreloadFromBuffer
  <2>1. /\ items # <<>> /\ items \in Seq(Events) /\ items[1] \in 1..(next - 1)
        /\ \A i \in 1..Len(items) : items[i] \in Nat
        /\ UNCHANGED bufferVars /\ wire' = <<items[1]>> /\ preloaded' = items[1]
        /\ UNCHANGED <<next, lastSent>>
    <3>1. items # <<>> /\ items \in Seq(Events) /\ wire' = <<Head(items)>>
          /\ preloaded' = Head(items) /\ UNCHANGED bufferVars /\ UNCHANGED <<next, lastSent>>
      BY <1>4 DEF PreloadFromBuffer, RestOK, BufferTypeOK, streamVars
    <3>2. Head(items) = items[1] /\ 1 \in 1..Len(items)
      BY <3>1
    <3> QED BY <3>1, <3>2, <1>3, ItemsAreNumbers
  <2>2. FlagsOK'
    BY <1>1, <2>1 DEF FlagsOK, upVars
  <2>3. RestOK'
    BY <1>1, <1>3, <2>1 DEF RestOK, BufferTypeOK, bufferVars, upVars, lifeVars, budgetVars,
                            Phases
  <2>4. WireInOrder'
    BY <1>1, <2>1 DEF WireInOrder
  <2>5. WireIsBehind'
    BY <1>1, <2>1 DEF WireIsBehind, Fresh, Ascending, bufferVars
  <2> HIDE DEF IInv
  <2> QED
    BY <1>1, <1>2, <2>1, <2>2, <2>3, <2>4, <2>5, Local DEF bufferVars, lifeVars
<1>5. CASE PreloadFromUpstream
  <2>1. /\ Take /\ items = <<>> /\ wire' = <<next>> /\ preloaded' = next
        /\ lastSent' \in BOOLEAN
    BY <1>5 DEF PreloadFromUpstream
  <2>2. /\ BufferTypeOK' /\ BufferInv' /\ next \in 1..published /\ next' = next + 1
        /\ forgotten \subseteq forgotten'
        /\ items' = <<>> \/ items' = <<next>>
    BY <1>1, <2>1, TakeKeeps
  <2>3. FlagsOK'
    BY <1>1, <2>1 DEF FlagsOK, upVars
  <2>4. RestOK'
    BY <1>1, <1>3, <2>1, <2>2, RestAfterTake DEF Phases, RestOK
  <2>5. ResultOK'
    BY <1>1, <1>3, <2>2 DEF ResultOK
  <2>6. WireInOrder' /\ WireIsBehind'
    BY <1>1, <1>3, <2>1, <2>2 DEF WireInOrder, WireIsBehind
  <2>7. OkMeansConfirmed' /\ BudgetIsConsecutive'
    BY <1>1, <2>2, ResultKept DEF BudgetIsConsecutive, budgetVars, lifeVars
  <2> QED BY <1>2, <2>2, <2>3, <2>4, <2>5, <2>6, <2>7 DEF BufferInv
<1>6. CASE PreloadNothing
  <2>1. items = <<>> /\ UNCHANGED <<bufferVars, streamVars, loopVars, connVars>>
    BY <1>6 DEF PreloadNothing
  <2>2. FlagsOK'
    BY <1>1, <2>1 DEF FlagsOK, upVars, streamVars
  <2>3. RestOK'
    BY <1>1, <2>1 DEF RestOK, BufferTypeOK, bufferVars, upVars, lifeVars, budgetVars,
                      streamVars, loopVars, connVars, Phases
  <2>4. WireInOrder' /\ WireIsBehind'
    BY <1>1, <2>1 DEF WireInOrder, WireIsBehind, connVars, loopVars, bufferVars
  <2> HIDE DEF IInv
  <2> QED
    BY <1>1, <1>2, <2>1, <2>2, <2>3, <2>4, Local DEF bufferVars, lifeVars, streamVars
<1> QED BY <1>4, <1>5, <1>6

LEMMA OpeningPreserves ==
  ASSUME IInv, OpenOk \/ \E r \in BOOLEAN : OpenFail(r)
  PROVE  IInv'
<1> USE DEF IInv
<1>1. CASE OpenOk
  <2>1. /\ phase = "opening" /\ phase' = "replay" /\ evicted' = 0
        /\ warned' = (warned \/ evicted > 0)
        /\ UNCHANGED <<items, forgotten, upVars, lifeVars, streamVars, budgetVars, loopVars,
                       connVars, landed, result>>
    BY <1>1 DEF OpenOk, TakeEvicted
  <2>2. warned' \in BOOLEAN
    BY <2>1
  <2>3. FlagsOK'
    BY <2>1, <2>2 DEF FlagsOK, upVars, streamVars, loopVars, connVars
  <2>4. RestOK'
    BY <2>1 DEF RestOK, BufferTypeOK, Phases, upVars, lifeVars, streamVars, budgetVars,
                loopVars, connVars
  <2>5. /\ DoneMeansEmpty' /\ AckIsOwedForAnEvent' /\ WireInOrder' /\ WireIsBehind'
    BY <2>1 DEF DoneMeansEmpty, AckIsOwedForAnEvent, WireInOrder, WireIsBehind, Fresh,
                lifeVars, streamVars, loopVars, connVars
  <2> HIDE DEF IInv
  <2> QED BY <2>1, <2>3, <2>4, <2>5, Local DEF lifeVars, streamVars
<1>2. CASE \E r \in BOOLEAN : OpenFail(r)
  <2>1. /\ phase = "opening"
        /\ Transient \/ Refuse
        /\ UNCHANGED <<bufferVars, upVars, lifeVars, streamVars, landed, warned>>
    BY <1>2 DEF OpenFail
  <2>2. BufferTypeOK' /\ BufferInv' /\ maxAcked' \in maxAcked..(next - 1)
    BY <2>1, BufferUntouched
       DEF RestOK, BufferTypeOK, BufferInv, bufferVars, streamVars
  <2>3. UNCHANGED <<upVars, lifeVars, next, lastSent, forgotten, landed, warned, maxAcked>>
    BY <2>1 DEF bufferVars, streamVars
  <2> HIDE DEF IInv
  <2> QED BY <2>1, <2>2, <2>3, DriveEnds
<1> QED BY <1>1, <1>2

LEMMA ReplayPreserves ==
  ASSUME IInv, ReplayStep \/ ReplayFail \/ ReplayEnd
  PROVE  IInv'
<1> USE DEF IInv
<1>1. /\ phase = "replay" /\ phase' \in {"replay", "drain", "select"}
      /\ UNCHANGED <<bufferVars, upVars, lifeVars, streamVars, budgetVars, preloaded,
                     acks, srvEnd, srvGot, srvOwes, landed, warned, result>>
  BY DEF ReplayStep, ReplayNext, ReplayFail, ReplayEnd, loopVars, connVars
<1>2. DoneMeansEmpty' /\ AckIsOwedForAnEvent'
  BY <1>1 DEF DoneMeansEmpty, AckIsOwedForAnEvent, lifeVars
<1>3. FlagsOK'
  BY <1>1 DEF FlagsOK, ReplayStep, ReplayNext, ReplayFail, ReplayEnd, upVars, streamVars,
              loopVars, connVars
<1>4. /\ Len(items) \in Nat /\ \A i \in 1..Len(items) : items[i] \in 1..(next - 1)
      /\ next - 1 \in Nat /\ replayed \in Nat /\ wire \in Seq(1..(next - 1))
      /\ wire \in Seq(Nat)
  BY ItemsAreNumbers DEF RestOK
<1>5. CASE ReplayStep
  <2> DEFINE n == items[replayed + 1]
  <2>1. /\ replayed + 1 \in 1..Len(items) /\ phase' = "replay" /\ replayed' = replayed + 1
        /\ wire' = wire \/ (n # preloaded /\ wire' = Append(wire, n))
    BY <1>4, <1>5 DEF ReplayStep, ReplayNext
  <2>2. /\ n \in 1..(next - 1)
        /\ \A i \in (replayed + 2)..Len(items) : n < items[i]
        /\ n = preloaded \/ Fresh(n)
    BY <1>1, <1>4, <2>1 DEF Ascending, WireIsBehind
  <2>3. wire' \in Seq(1..(next - 1))
    <3> HIDE DEF n
    <3>1. Append(wire, n) \in Seq(1..(next - 1))
      BY <1>4, <2>2
    <3> QED BY <1>4, <2>1, <3>1
  <2>4. RestOK'
    BY <1>1, <1>4, <2>1, <2>3 DEF RestOK, BufferTypeOK, bufferVars, upVars, lifeVars,
                                  budgetVars, streamVars, Phases
  <2>5. CASE wire' = wire
    <3>1. WireInOrder'
      BY <1>1, <2>5 DEF WireInOrder
    <3>2. WireIsBehind'
      BY <1>1, <1>4, <2>1, <2>5 DEF WireIsBehind, Fresh, bufferVars
    <3> HIDE DEF IInv
    <3> QED
      BY <1>1, <1>2, <1>3, <2>4, <3>1, <3>2, Local DEF bufferVars, lifeVars, streamVars
  <2>6. CASE n # preloaded /\ wire' = Append(wire, n)
    <3> HIDE DEF n
    <3>1. /\ Fresh(n) /\ Len(wire') = Len(wire) + 1 /\ Len(wire) \in Nat
          /\ \A i \in 1..Len(wire) : wire'[i] = wire[i] /\ wire[i] \in Nat
          /\ wire'[Len(wire) + 1] = n /\ n \in Nat /\ srvGot' = srvGot /\ srvGot \in Nat
      BY <1>1, <1>4, <2>2, <2>6 DEF RestOK
    <3>2. \A i \in 1..Len(wire') : i \in 1..Len(wire) \/ i = Len(wire) + 1
      BY <3>1
    <3>3. WireInOrder'
      BY <1>1, <1>4, <2>6, <3>1, AppendInOrder
    <3>4. \A i \in (replayed' + 1)..Len(items) :
            items[i] = preloaded \/ (srvGot' < items[i] /\ \A j \in 1..Len(wire') : wire'[j] < items[i])
      <4> SUFFICES ASSUME NEW i \in (replayed + 2)..Len(items)
                   PROVE  srvGot' < items[i] /\ \A j \in 1..Len(wire') : wire'[j] < items[i]
        BY <2>1, <1>4
      <4>1. n < items[i] /\ items[i] \in Nat
        BY <1>4, <2>2
      <4>2. srvGot' < items[i]
        BY <3>1, <4>1 DEF Fresh
      <4>3. ASSUME NEW j \in 1..Len(wire') PROVE wire'[j] < items[i]
        <5>1. wire'[j] \in Nat /\ wire'[j] <= n
          BY <3>1, <3>2 DEF Fresh
        <5> QED BY <3>1, <4>1, <5>1
      <4> QED BY <4>2, <4>3
    <3>5. WireIsBehind'
      BY <1>1, <2>1, <3>4 DEF WireIsBehind, Fresh, bufferVars
    <3> HIDE DEF IInv
    <3> QED
      BY <1>1, <1>2, <1>3, <2>4, <3>3, <3>5, Local DEF bufferVars, lifeVars, streamVars
  <2> QED BY <2>1, <2>5, <2>6
<1>6. CASE ReplayFail \/ ReplayEnd
  <2>1. phase' \in {"drain", "select"} /\ UNCHANGED <<replayed, wire>>
    BY <1>6 DEF ReplayFail, ReplayEnd, loopVars, connVars
  <2>2. RestOK'
    BY <1>1, <2>1 DEF RestOK, BufferTypeOK, bufferVars, upVars, lifeVars, budgetVars,
                      streamVars, Phases
  <2>3. WireInOrder' /\ WireIsBehind'
    BY <1>1, <2>1 DEF WireInOrder, WireIsBehind
  <2> HIDE DEF IInv
  <2> QED
    BY <1>1, <1>2, <1>3, <2>2, <2>3, Local DEF bufferVars, lifeVars, streamVars
<1> QED BY <1>5, <1>6

LEMMA SelectEventPreserves ==
  ASSUME IInv, SelectEvent
  PROVE  IInv'
<1> USE DEF IInv
<1>1. /\ phase = "select" /\ phase' = "sending" /\ Take /\ ackArmed' = TRUE
      /\ UNCHANGED <<upVars, lifeVars, maxAcked, lastSent, budgetVars, preloaded, replayed,
                     reqOpen, halfArmed, connVars, landed, warned, result>>
  BY DEF SelectEvent
<1>2. /\ BufferTypeOK' /\ BufferInv' /\ next \in 1..published /\ next' = next + 1
      /\ forgotten \subseteq forgotten'
  BY <1>1, TakeKeeps
<1>3. /\ next - 1 \in Nat /\ wire \in Seq(1..(next - 1)) /\ preloaded \in 0..(next - 1)
      /\ srvGot \in 0..(next - 1) /\ replayed \in Nat /\ next \in Nat
  BY DEF RestOK
<1>4. wire' \in Seq(1..next) /\ \A i \in 1..Len(wire') : wire'[i] < next
  <2>1. wire \in Seq(1..((next - 1) + 1)) /\ \A i \in 1..Len(wire) : wire[i] <= next - 1
    BY <1>3, SeqGrows
  <2>2. (next - 1) + 1 = next
    BY <1>3
  <2>3. \A i \in 1..Len(wire) : wire[i] \in Nat
    BY <1>3
  <2> QED BY <1>1, <1>3, <2>1, <2>2, <2>3 DEF connVars
<1>5. FlagsOK'
  BY <1>1 DEF FlagsOK, upVars, connVars
<1>6. RestOK'
  BY <1>1, <1>2, <1>3, <1>4, RestAfterTake DEF Phases, connVars
<1>7. ResultOK'
  BY <1>1, <1>2, <1>3 DEF ResultOK
<1>8. WireInOrder' /\ AckIsOwedForAnEvent' /\ DoneMeansEmpty'
  BY <1>1 DEF WireInOrder, AckIsOwedForAnEvent, DoneMeansEmpty, connVars, lifeVars
<1>9. WireIsBehind'
  <2>1. next' - 1 = next /\ srvGot' < next
    BY <1>1, <1>2, <1>3 DEF connVars
  <2> QED BY <1>1, <1>4, <2>1 DEF WireIsBehind, Fresh
<1>10. OkMeansConfirmed' /\ BudgetIsConsecutive'
  BY <1>1, <1>2, ResultKept DEF BudgetIsConsecutive, budgetVars, lifeVars
<1> QED BY <1>2, <1>5, <1>6, <1>7, <1>8, <1>9, <1>10 DEF BufferInv

LEMMA SendPreserves ==
  ASSUME IInv, SendOk \/ SendFail
  PROVE  IInv'
<1> USE DEF IInv
<1>1. /\ phase = "sending" /\ phase' \in {"select", "drain"}
      /\ UNCHANGED <<bufferVars, upVars, lifeVars, next, maxAcked, budgetVars, preloaded,
                     replayed, ackArmed, acks, srvEnd, srvGot, srvOwes, landed, warned, result>>
  BY DEF SendOk, SendFail, streamVars, loopVars, connVars
<1>2. /\ next - 1 \in Nat /\ wire \in Seq(1..(next - 1)) /\ srvGot \in Nat
      /\ Fresh(next - 1) /\ next - 1 \in 1..(next - 1)
  BY <1>1 DEF RestOK, WireIsBehind, Fresh
<1>3. Len(wire) \in Nat /\ \A i \in 1..Len(wire) : wire[i] \in Nat
  BY <1>2
<1>4. wire' \in Seq(1..(next - 1)) /\ WireInOrder'
  <2>1. CASE wire' = wire
    BY <1>1, <1>2, <2>1 DEF WireInOrder
  <2>2. CASE wire' = Append(wire, next - 1)
    <3>1. wire' \in Seq(1..(next - 1))
      BY <1>2, <2>2
    <3>2. WireInOrder'
      BY <1>1, <1>2, <2>2, AppendInOrder DEF RestOK
    <3> QED BY <3>1, <3>2
  <2> QED BY <2>1, <2>2 DEF SendOk, SendFail, connVars
<1>5. FlagsOK'
  <2>1. lastSent' \in BOOLEAN /\ reqOpen' \in BOOLEAN /\ halfArmed' \in BOOLEAN
    <3>1. CASE SendOk
      BY <3>1 DEF SendOk
    <3>2. CASE SendFail
      BY <3>2 DEF SendFail, FlagsOK, streamVars, loopVars
    <3> QED BY <3>1, <3>2
  <2> QED BY <1>1, <2>1 DEF FlagsOK, upVars
<1>6. RestOK'
  BY <1>1, <1>4 DEF RestOK, BufferTypeOK, bufferVars, upVars, lifeVars, budgetVars, Phases
<1>7. AckIsOwedForAnEvent' /\ DoneMeansEmpty' /\ WireIsBehind'
  BY <1>1 DEF AckIsOwedForAnEvent, DoneMeansEmpty, WireIsBehind, lifeVars
<1> HIDE DEF IInv
<1> QED BY <1>1, <1>4, <1>5, <1>6, <1>7, Local DEF bufferVars, lifeVars

LEMMA AckPreserves ==
  ASSUME IInv, DrainAck \/ SelectAck
  PROVE  IInv'
<1> USE DEF IInv
<1>1. /\ phase \in {"drain", "select"} /\ acks # <<>> /\ RecordAck(Head(acks))
      /\ UNCHANGED <<upVars, lifeVars, next, lastSent, landed, warned>>
  BY DEF DrainAck, SelectAck
<1>2. /\ BufferTypeOK' /\ BufferInv' /\ UNCHANGED forgotten
      /\ maxAcked' \in maxAcked..(next - 1)
  BY <1>1, AckKeeps
<1>3. CASE Finish /\ items' = <<>>
  <2> HIDE DEF IInv
  <2> QED BY <1>1, <1>2, <1>3, DriveEnds
<1>4. CASE /\ acks' = Tail(acks) /\ ackArmed' \in BOOLEAN
           /\ UNCHANGED <<phase, budgetVars, preloaded, replayed, reqOpen, halfArmed, wire,
                          srvEnd, srvGot, srvOwes, result>>
  <2>1. FlagsOK'
    BY <1>1, <1>4 DEF FlagsOK, upVars
  <2>2. RestOK'
    <3>1. acks' \in Seq(1..(next - 1))
      BY <1>1, <1>4 DEF RestOK
    <3>2. maxAcked' \in 0..(next - 1) /\ ackedBefore' \in 0..maxAcked'
      BY <1>2, <1>4 DEF RestOK, budgetVars
    <3> QED
      BY <1>1, <1>2, <1>4, <3>1, <3>2 DEF RestOK, upVars, lifeVars, budgetVars
  <2>3. ResultOK'
    BY <1>1, <1>2, <1>4 DEF ResultOK, RestOK
  <2>4. /\ AckIsOwedForAnEvent' /\ DoneMeansEmpty' /\ WireIsBehind' /\ WireInOrder'
    BY <1>1, <1>4 DEF AckIsOwedForAnEvent, DoneMeansEmpty, WireIsBehind, WireInOrder, lifeVars
  <2>5. OkMeansConfirmed' /\ BudgetIsConsecutive'
    BY <1>1, <1>2, <1>4, ResultKept DEF BudgetIsConsecutive, budgetVars, lifeVars
  <2> QED BY <1>2, <2>1, <2>2, <2>3, <2>4, <2>5 DEF BufferInv
<1>5. DrainAck => ackArmed' \in BOOLEAN
  BY DEF DrainAck, FlagsOK, loopVars
<1> QED BY <1>3, <1>4, <1>5 DEF DrainAck, SelectAck, NothingUnacked, loopVars

\* The ways out of the loop that do not look at an ack.
LEMMA EndPreserves ==
  ASSUME IInv, SelectUpstreamEnd \/ SelectEnd \/ HalfCloseDeadline \/ AckDeadline \/ DrainEnd
  PROVE  IInv'
<1> USE DEF IInv
<1>1. /\ phase \in {"drain", "select"}
      /\ UNCHANGED <<bufferVars, upVars, lifeVars, streamVars, landed, warned>>
  BY DEF SelectUpstreamEnd, SelectEnd, HalfCloseDeadline, AckDeadline, DrainEnd
<1>2. /\ BufferTypeOK' /\ BufferInv' /\ maxAcked' \in maxAcked..(next - 1)
      /\ UNCHANGED <<next, lastSent, forgotten, maxAcked, items>>
  BY <1>1, BufferUntouched DEF RestOK, BufferTypeOK, BufferInv, bufferVars, streamVars
<1>3. CASE (Finish /\ items' = <<>>) \/ Refuse \/ Transient
  <2> HIDE DEF IInv
  <2> QED BY <1>1, <1>2, <1>3, DriveEnds
<1>4. CASE /\ reqOpen' = FALSE /\ halfArmed' = TRUE
           /\ UNCHANGED <<phase, budgetVars, preloaded, replayed, ackArmed, connVars, result>>
  <2>1. FlagsOK'
    BY <1>1, <1>4 DEF FlagsOK, upVars, streamVars, connVars
  <2>2. RestOK'
    BY <1>1, <1>4 DEF RestOK, BufferTypeOK, bufferVars, upVars, lifeVars, budgetVars,
                      streamVars, connVars
  <2>3. /\ AckIsOwedForAnEvent' /\ DoneMeansEmpty' /\ WireIsBehind' /\ WireInOrder'
    BY <1>1, <1>4 DEF AckIsOwedForAnEvent, DoneMeansEmpty, WireIsBehind, WireInOrder,
                      lifeVars, connVars
  <2> HIDE DEF IInv
  <2> QED BY <1>1, <1>2, <1>4, <2>1, <2>2, <2>3, Local DEF lifeVars
<1> QED
  BY <1>2, <1>3, <1>4
     DEF SelectUpstreamEnd, SelectEnd, NothingUnacked, HalfCloseDeadline, AckDeadline, DrainEnd

-----------------------------------------------------------------------------
(* Before the stream, and after it.                                        *)
LEMMA LifecyclePreserves ==
  ASSUME IInv,
         ClientSetup \/ LifecycleOk \/ (\E r \in BOOLEAN : LifecycleFail(r)) \/ PostStreamTimeout
  PROVE  IInv'
<1> USE DEF IInv
<1>1. /\ phase \in {"setup", "lifecycle"}
      /\ UNCHANGED <<bufferVars, upVars, maxRetries, streamVars, attempt, fruitless, refused,
                  landed, warned>>
  BY DEF ClientSetup, LifecycleOk, LifecycleFail, PostStreamTimeout, lifeVars, budgetVars
<1>2. BufferInv' /\ BufferTypeOK'
  BY <1>1, BufferUntouched DEF BufferInv, RestOK, BufferTypeOK, bufferVars, streamVars
<1>3. CASE phase' # "preload" /\ UNCHANGED <<ackedBefore, loopVars, connVars>>
  <2>1. FlagsOK'
    BY <1>1, <1>3 DEF FlagsOK, upVars, streamVars, loopVars, connVars
  <2>2. /\ call' \in 1..5 /\ tries' \in 0..maxRetries /\ phase' \in {"lifecycle", "returned"}
        /\ phase' = "lifecycle" => call' <= 4 /\ UNCHANGED result
        /\ phase' = "lifecycle" /\ call' >= 3 => call >= 3 /\ phase = "lifecycle"
        /\ ResultOK'
    <3>1. /\ call \in 1..4 /\ tries \in 0..maxRetries /\ maxRetries \in Nat
          /\ next \in Nat \ {0} /\ maxAcked \in 0..(next - 1)
          /\ UNCHANGED <<next, maxAcked>> /\ ResultOK
      BY <1>1 DEF RestOK, DoneMeansEmpty, streamVars
    <3>2. CASE ClientSetup
      BY <3>1, <3>2 DEF ClientSetup, ReturnWith, ResultOK, lifeVars, DoneMeansEmpty
    <3>3. CASE LifecycleOk
      <4>1. ~Connect
        BY <1>3 DEF Connect
      <4>2. phase = "lifecycle" /\ tries' = 0 /\ call' = call + 1
            /\ \/ call \in {1, 3} /\ UNCHANGED <<phase, result>>
               \/ call = 4 /\ Return("ok")
        BY <3>3, <4>1 DEF LifecycleOk
      <4> QED BY <3>1, <4>2 DEF Return, ReturnWith, Stats, ResultOK
    <3>4. CASE \E r \in BOOLEAN : LifecycleFail(r)
      BY <1>1, <3>1, <3>4 DEF LifecycleFail, Return, ReturnWith, Stats, ResultOK
    <3>5. CASE PostStreamTimeout
      BY <1>1, <3>1, <3>5 DEF PostStreamTimeout, Return, ReturnWith, Stats, ResultOK, lifeVars
    <3> QED BY <3>2, <3>3, <3>4, <3>5
  <2>3. /\ result'.outcome = "ok" =>
             UNCHANGED result \/ (/\ items = <<>>
                                 /\ result'.sent = next - 1 /\ result'.acked = maxAcked)
    <3>1. CASE LifecycleOk
      BY <1>1, <3>1 DEF LifecycleOk, Return, ReturnWith, Stats, DoneMeansEmpty
    <3>2. CASE ClientSetup \/ (\E r \in BOOLEAN : LifecycleFail(r)) \/ PostStreamTimeout
      BY <3>2 DEF ClientSetup, LifecycleFail, PostStreamTimeout, Return, ReturnWith
    <3> QED BY <3>1, <3>2
  <2>4. OkMeansConfirmed'
    <3>1. UNCHANGED <<items, forgotten, next, maxAcked>>
      BY <1>1 DEF bufferVars, streamVars
    <3>2. CASE UNCHANGED result
      BY <3>1, <3>2, ResultKept
    <3>3. CASE items = <<>> /\ result'.sent = next - 1 /\ result'.acked = maxAcked
      <4>1. Items = {}
        BY <3>3 DEF Items
      <4>2. next - 1 \in Nat /\ maxAcked \in Nat
        BY DEF RestOK
      <4> QED BY <3>1, <3>3, <4>1, <4>2 DEF UnackedIsReplayable, OkMeansConfirmed
    <3> QED BY <2>3, <3>2, <3>3 DEF OkMeansConfirmed
  <2>5. RestOK'
    BY <1>1, <1>2, <1>3, <2>2 DEF RestOK, upVars, streamVars, loopVars, connVars, Phases
  <2>6. DoneMeansEmpty'
    BY <1>1, <2>2 DEF DoneMeansEmpty, bufferVars
  <2>7. AckIsOwedForAnEvent' /\ WireIsBehind' /\ WireInOrder' /\ BudgetIsConsecutive'
    BY <1>1, <1>3, <2>2 DEF AckIsOwedForAnEvent, WireIsBehind, WireInOrder, BudgetIsConsecutive,
                            connVars
  <2> QED BY <1>2, <2>1, <2>2, <2>4, <2>5, <2>6, <2>7 DEF BufferInv
<1>4. CASE Connect /\ call' = 3 /\ tries' = 0 /\ UNCHANGED result
  <2>0. FreshDrive(TRUE) /\ phase' = "preload" /\ ackedBefore' = maxAcked
    BY <1>4 DEF Connect
  <2>1. /\ preloaded' = 0 /\ replayed' = 0 /\ wire' = <<>> /\ acks' = <<>>
        /\ srvEnd' = "open" /\ srvGot' = 0
    BY <2>0 DEF FreshDrive
  <2>2. FlagsOK'
    BY <1>1, <2>0 DEF FlagsOK, FreshDrive, upVars, streamVars
  <2>3. RestOK'
    <3>1. /\ next' = next /\ maxAcked' = maxAcked /\ next - 1 \in Nat
          /\ maxAcked \in 0..(next - 1) /\ maxRetries \in Nat
      BY <1>1 DEF RestOK, streamVars
    <3>2. /\ preloaded' \in 0..(next' - 1) /\ replayed' \in Nat /\ srvGot' \in 0..(next' - 1)
          /\ wire' \in Seq(1..(next' - 1)) /\ acks' \in Seq(1..(next' - 1))
          /\ srvEnd' \in {"open", "closed", "retryable", "fatal"}
          /\ ackedBefore' \in 0..maxAcked' /\ tries' \in 0..maxRetries
      BY <1>4, <2>0, <2>1, <3>1
    <3> QED BY <1>1, <1>2, <1>4, <2>0, <3>1, <3>2 DEF RestOK, upVars, streamVars, Phases
  <2>4. ResultOK' /\ OkMeansConfirmed' /\ BudgetIsConsecutive'
    BY <1>1, <1>4, ResultKept DEF ResultOK, BudgetIsConsecutive, bufferVars, streamVars
  <2>5. DoneMeansEmpty' /\ AckIsOwedForAnEvent' /\ WireInOrder' /\ WireIsBehind'
    <3>1. srvOwes' = FALSE
      BY <2>0 DEF FreshDrive
    <3> QED BY <1>1, <1>4, <2>0, <2>1, <3>1
            DEF DoneMeansEmpty, AckIsOwedForAnEvent, WireInOrder, WireIsBehind
  <2> QED BY <1>2, <2>2, <2>3, <2>4, <2>5 DEF BufferInv
<1> QED
  BY <1>1, <1>3, <1>4 DEF ClientSetup, LifecycleOk, LifecycleFail, PostStreamTimeout, Return,
     ReturnWith, budgetVars

LEMMA StutterPreserves == IInv /\ UNCHANGED vars => IInv'
BY DEF vars, IInv, FlagsOK, ResultOK, RestOK, BufferTypeOK, Ascending, DoneMeansEmpty,
       AckIsOwedForAnEvent, WireIsBehind, Fresh, UnackedIsReplayable, Items, WireInOrder,
       OkMeansConfirmed, BudgetIsConsecutive, bufferVars, upVars, lifeVars, streamVars,
       budgetVars, loopVars, connVars

-----------------------------------------------------------------------------
\* The inductive invariant: the buffer is in order and holds all that is unacked,
\* the wire is behind what is still to be written, and the budget is the number of
\* fruitless drives.
THEOREM Invariance == Spec => []IInv
<1>1. ASSUME IInv, [Next]_vars PROVE IInv'
  <2>1. CASE UNCHANGED vars
    BY <1>1, <2>1, StutterPreserves
  <2>2. CASE Sink
    BY <1>1, <2>2, LifecyclePreserves, PreloadPreserves, OpeningPreserves, ReplayPreserves,
       SelectEventPreserves, SendPreserves, AckPreserves, EndPreserves DEF Sink
  <2>3. CASE Environment
    BY <1>1, <2>3, UpstreamPreserves, ServerPreserves DEF Environment
  <2> QED BY <1>1, <2>1, <2>2, <2>3 DEF Next
<1> QED BY InitIInv, <1>1, PTL DEF Spec

\* Every variable keeps its type; in particular no ack or counter runs ahead of the
\* numbers given out.
THEOREM TypeCorrectness == Spec => []TypeOK
<1>1. IInv => TypeOK
  BY DEF IInv, FlagsOK, ResultOK, RestOK, TypeOK
<1> QED BY Invariance, <1>1, PTL

\* Whatever the connection does, an event that was taken and not acked is in the
\* buffer for the next connection, unless it was forgotten for want of room.
THEOREM NothingUnackedIsLost == Spec => []UnackedIsReplayable
BY Invariance, PTL DEF IInv

\* Between any two steps the sink is in a state that it can reconnect from.
THEOREM BufferIsSound == Spec => []BufferSound
<1>1. TypeOK /\ UnackedIsReplayable => BufferSound
  BY DEF BufferSound
<1> QED BY TypeCorrectness, NothingUnackedIsLost, <1>1, PTL

\* Replay, pre-load and live events together keep each connection in order and free
\* of duplicates.
THEOREM EachConnectionIsInOrder == Spec => []WireInOrder
BY Invariance, PTL DEF IInv

\* The sink answers Ok only when every event it took was acked or forgotten.
THEOREM OkIsConfirmed == Spec => []OkMeansConfirmed
BY Invariance, PTL DEF IInv

\* The retry budget counts the fruitless drives since the last progress.
THEOREM BudgetCountsFruitlessDrives == Spec => []BudgetIsConsecutive
BY Invariance, PTL DEF IInv

\* With retry disabled no second stream is opened, even after progress.
THEOREM RetryCanBeDisabled == Spec => NoRetryMeansOneStream
<1>1. IInv /\ [Next]_vars => [maxRetries = 0 /\ Connected => phase' # "preload"]_vars
  <2> SUFFICES ASSUME IInv, Next, maxRetries = 0, Connected, phase' = "preload"
               PROVE  FALSE
    BY DEF IInv
  <2>1. attempt \in Nat
    BY DEF IInv, RestOK
  <2>2. Spent /\ ~Renewed
    BY <2>1 DEF Spent, Renewed
  <2>3. ~Transient
    BY <2>2 DEF Transient, GiveUp, Return, ReturnWith
  <2> QED
    BY <2>3 DEF Next, Sink, Environment, ClientSetup, LifecycleOk, LifecycleFail,
       PostStreamTimeout, PreloadFromBuffer, PreloadFromUpstream, PreloadNothing, OpenOk,
       OpenFail, ReplayStep, ReplayNext, ReplayFail, ReplayEnd, DrainAck, DrainEnd, SelectEvent,
       SendOk, SendFail, SelectUpstreamEnd, SelectAck, SelectEnd, HalfCloseDeadline, AckDeadline,
       Publish, CloseUpstream, ServerRead, ServerAck, ConnectionLost, ServerEnds, Connected,
       Finish, GiveUp, Refuse, Return, ReturnWith
<1> QED BY Invariance, <1>1, PTL DEF NoRetryMeansOneStream, Spec

\* A drive that ends the sink without a refusal is one that Transient gave up on.
LEMMA EndsBySpending ==
  ASSUME Next, Connected, phase' = "returned", ~refused'
  PROVE  ~Renewed /\ Spent /\ UNCHANGED budgetVars
<1>1. ~Refuse
  BY DEF Refuse
<1>2. Transient
  BY <1>1 DEF Next, Sink, Environment, ClientSetup, LifecycleOk, LifecycleFail,
     PostStreamTimeout, PreloadFromBuffer, PreloadFromUpstream, PreloadNothing, OpenOk,
     OpenFail, ReplayStep, ReplayNext, ReplayFail, ReplayEnd, DrainAck, DrainEnd, SelectEvent,
     SendOk, SendFail, SelectUpstreamEnd, SelectAck, SelectEnd, HalfCloseDeadline, AckDeadline,
     Publish, CloseUpstream, ServerRead, ServerAck, ConnectionLost, ServerEnds, Connected, Finish
<1>3. ~Connect
  BY DEF Connect
<1> QED BY <1>2, <1>3 DEF Transient, GiveUp, budgetVars

\* No retryable failure ends the sink before the reconnects asked for are used up.
THEOREM BudgetIsUsedUp == Spec => NeverGivesUpEarly
<1>1. IInv /\ [Next]_vars
        => [Connected /\ phase' = "returned" /\ ~refused'
              => fruitless = maxRetries /\ (maxRetries > 0 => maxAcked = ackedBefore)]_vars
  <2> SUFFICES ASSUME IInv, Next, Connected, phase' = "returned", ~refused'
               PROVE  fruitless = maxRetries /\ (maxRetries > 0 => maxAcked = ackedBefore)
    OBVIOUS
  <2>1. ~Renewed /\ Spent
    BY EndsBySpending
  <2>2. /\ attempt \in 0..maxRetries /\ fruitless \in Nat /\ maxRetries \in Nat
        /\ ackedBefore \in 0..maxAcked /\ maxAcked \in Nat
        /\ fruitless <= maxRetries /\ (maxRetries > 0 => attempt = fruitless)
    BY GrpcSinkAssumption DEF IInv, RestOK, BudgetIsConsecutive
  <2> QED BY <2>1, <2>2 DEF Renewed, Spent, MadeProgress
<1> QED BY Invariance, <1>1, PTL DEF NeverGivesUpEarly, Spec

\* The reconnects are those asked for: that many in a row without progress before
\* the sink gives up, never more, and none where retry is disabled.
THEOREM RetriesAreThoseAskedFor == Spec => RetriesAreBudgeted
BY BudgetCountsFruitlessDrives, RetryCanBeDisabled, BudgetIsUsedUp, PTL DEF RetriesAreBudgeted

-----------------------------------------------------------------------------
(* The byte accounting: the buffer holds consecutive events up to the last *)
(* one taken, so that sums of sizes are differences of Upto.               *)
BufferIsRun == \A i \in 1..Len(items) : items[i] = next - 1 - Len(items) + i
Accounted == BufferIsRun /\ BytesAccounted

LEMMA UptoGrows ==
  /\ Len(Size) \in Nat
  /\ \A n \in 0..Len(Size) : Upto[n] \in Nat
  /\ \A m, n \in 0..Len(Size) : m <= n => Upto[m] <= Upto[n]
BY RetryBufferAssumption

\* What a stretch of consecutive events takes.
LEMMA BytesOfRun ==
  ASSUME NEW s \in Seq(Events), NEW low \in Nat, NEW high \in Nat,
         Len(s) = high - low, high \in 0..Len(Size), low <= high,
         \A i \in 1..Len(s) : s[i] = low + i
  PROVE  Bytes(s) = Upto[high] - Upto[low] /\ Bytes(s) \in Nat
<1>1. Len(Size) \in Nat /\ Len(s) \in Nat
  BY RetryBufferAssumption
<1>2. /\ Upto[high] \in Nat /\ Upto[low] \in Nat /\ Upto[low] <= Upto[high]
  <2>1. low \in 0..Len(Size)
    BY <1>1
  <2> QED BY <2>1, UptoGrows
<1>3. CASE s = <<>>
  BY <1>2, <1>3 DEF Bytes
<1>4. CASE s # <<>>
  <2>1. Len(s) > 0
    BY <1>4
  <2>2. s[Len(s)] = high /\ s[1] - 1 = low
    BY <1>1, <2>1
  <2> QED BY <1>2, <1>4, <2>2 DEF Bytes
<1> QED BY <1>3, <1>4

\* Of a run that is accounted for, the k oldest, the rest, and the bytes of both.
LEMMA Split ==
  ASSUME RestOK, Accounted, NEW k \in 0..Len(items)
  PROVE  /\ Bytes(Oldest(k)) \in Nat /\ Bytes(AllBut(k)) \in Nat
         /\ bytes - Bytes(Oldest(k)) = Bytes(AllBut(k))
         /\ Bytes(AllBut(k)) = Upto[next - 1] - Upto[next - 1 - (Len(items) - k)]
         /\ next - 1 - (Len(items) - k) \in 0..(next - 1) /\ next - 1 \in 0..Len(Size)
<1> DEFINE last == next - 1
           low == last - Len(items)
           mid == low + k
<1>1. /\ items \in Seq(Events) /\ Len(items) \in Nat /\ last \in 0..Len(Size) /\ k \in Nat
      /\ Len(Size) \in Nat /\ \A i \in 1..Len(items) : items[i] \in Nat \ {0}
  BY BufferTyped
<1>2. low \in Nat /\ mid \in Nat /\ low <= mid /\ mid <= last
  <2>1. CASE Len(items) = 0
    BY <1>1, <2>1
  <2>2. CASE Len(items) > 0
    <3>1. items[1] = low + 1 /\ items[1] \in Nat \ {0}
      BY <1>1, <2>2 DEF Accounted, BufferIsRun
    <3> QED BY <1>1, <3>1
  <2> QED BY <1>1, <2>1, <2>2
<1>3. \A i \in 1..Len(items) : items[i] = low + i
  BY DEF Accounted, BufferIsRun
<1>4. /\ Oldest(k) \in Seq(Events) /\ Len(Oldest(k)) = mid - low
      /\ \A i \in 1..Len(Oldest(k)) : Oldest(k)[i] = low + i
  BY <1>1, <1>3 DEF Oldest
<1>5. /\ AllBut(k) \in Seq(Events) /\ Len(AllBut(k)) = last - mid
      /\ \A i \in 1..Len(AllBut(k)) : AllBut(k)[i] = items[k + i]
  BY <1>1 DEF AllBut
<1>6. \A i \in 1..Len(AllBut(k)) : AllBut(k)[i] = mid + i
  <2> SUFFICES ASSUME NEW i \in 1..Len(AllBut(k)) PROVE AllBut(k)[i] = mid + i
    OBVIOUS
  <2>1. k + i \in 1..Len(items) /\ i \in Nat
    BY <1>1, <1>5
  <2>2. items[k + i] = low + (k + i)
    BY <1>3, <2>1
  <2>3. mid + i = low + (k + i)
    BY <1>1, <1>2, <2>1
  <2> QED BY <1>5, <2>2, <2>3
<1> HIDE DEF mid, low, last
<1>7. Bytes(Oldest(k)) = Upto[mid] - Upto[low] /\ Bytes(Oldest(k)) \in Nat
  <2>1. mid \in 0..Len(Size)
    BY <1>1, <1>2
  <2> QED BY <1>2, <1>4, <2>1, BytesOfRun
<1>8. Bytes(AllBut(k)) = Upto[last] - Upto[mid] /\ Bytes(AllBut(k)) \in Nat
  <2>1. last \in Nat
    BY <1>1
  <2> QED BY <1>1, <1>2, <1>5, <1>6, <2>1, BytesOfRun
<1>9. bytes = Upto[last] - Upto[low]
  <2>1. last \in Nat /\ Len(items) = last - low /\ low <= last
    BY <1>1, <1>2 DEF last, low
  <2> QED BY <1>1, <1>2, <1>3, <2>1, BytesOfRun DEF Accounted, BytesAccounted
<1>10. Upto[last] \in Nat /\ Upto[mid] \in Nat /\ Upto[low] \in Nat
  <2>1. mid \in 0..Len(Size) /\ low \in 0..Len(Size)
    BY <1>1, <1>2
  <2> QED BY <1>1, <2>1, UptoGrows
<1>11. mid = last - (Len(items) - k)
  BY <1>1 DEF mid, low, last
<1>12. bytes - Bytes(Oldest(k)) = Bytes(AllBut(k))
  BY <1>7, <1>8, <1>9, <1>10
<1>13. mid \in 0..last /\ last \in 0..Len(Size)
  BY <1>1, <1>2
<1>14. last = next - 1
  BY DEF last
<1> HIDE DEF mid, low, last
<1> QED BY <1>7, <1>8, <1>11, <1>12, <1>13, <1>14

\* An event that is taken is at the end of the run, or starts a new one behind it.
LEMMA TakeAccounted ==
  ASSUME RestOK, Accounted, Take
  PROVE  Accounted'
<1>1. /\ next \in 1..Len(Size) /\ next' = next + 1 /\ items \in Seq(Events)
      /\ Len(Size) \in Nat /\ Len(items) \in Nat /\ next \in Events
  BY RetryBufferAssumption DEF RestOK, BufferTypeOK, Take, EventWaiting
<1>2. PICK k \in 0..Len(items) :
        /\ StopsAt(k, next)
        /\ \/ /\ Size[next] <= CapBytes
              /\ items' = Append(AllBut(k), next)
              /\ bytes' = bytes - Bytes(Oldest(k)) + Size[next]
           \/ /\ Size[next] > CapBytes
              /\ items' = AllBut(k)
              /\ bytes' = bytes - Bytes(Oldest(k))
  BY DEF Take, Push
<1> DEFINE kept == AllBut(k)
           mid == next - 1 - (Len(items) - k)
<1>3. /\ kept \in Seq(Events) /\ Len(kept) = Len(items) - k
      /\ \A i \in 1..Len(kept) : kept[i] = items[k + i]
  BY <1>1 DEF AllBut
<1>4. \A i \in 1..Len(kept) : kept[i] = mid + i
  BY <1>1, <1>3 DEF Accounted, BufferIsRun
<1>5. /\ bytes - Bytes(Oldest(k)) = Bytes(kept) /\ Bytes(kept) \in Nat
      /\ Bytes(kept) = Upto[next - 1] - Upto[mid]
      /\ mid \in 0..(next - 1)
  BY Split
<1>6. Size[next] \in Nat /\ Upto[next] = Upto[next - 1] + Size[next] /\ CapBytes \in Nat
      /\ Upto[next] \in Nat /\ Upto[next - 1] \in Nat /\ Upto[mid] \in Nat
  <2>1. next \in 0..Len(Size) /\ next - 1 \in 0..Len(Size) /\ mid \in 0..Len(Size)
    BY <1>1, <1>5
  <2> QED BY <1>1, <2>1, UptoGrows, RetryBufferAssumption
<1>7. k = Len(items) => Bytes(kept) = 0
  BY <1>1, <1>6, <1>5
<1>8. Len(kept) \in Nat /\ mid \in Nat /\ mid = next - 1 - Len(kept)
  BY <1>1, <1>3, <1>5
<1> HIDE DEF kept, mid
<1>9. CASE /\ Size[next] <= CapBytes /\ items' = Append(kept, next)
           /\ bytes' = bytes - Bytes(Oldest(k)) + Size[next]
  <2>1. /\ items' \in Seq(Events) /\ Len(items') = Len(kept) + 1
        /\ \A i \in 1..Len(kept) : items'[i] = kept[i]
        /\ items'[Len(kept) + 1] = next
    BY <1>1, <1>3, <1>9
  <2>2. ASSUME NEW i \in 1..Len(items') PROVE items'[i] = mid + i
    <3>1. i \in 1..Len(kept) \/ i = Len(kept) + 1
      BY <1>8, <2>1
    <3> QED BY <1>1, <1>4, <1>8, <2>1, <3>1
  <2>3. BufferIsRun'
    BY <1>1, <1>8, <2>1, <2>2 DEF BufferIsRun
  <2>4. bytes' = Bytes(kept) + Size[next] /\ bytes' = Upto[next] - Upto[mid]
    BY <1>5, <1>6, <1>9
  <2>5. bytes' = Bytes(items')
    <3>1. next \in Nat /\ next \in 0..Len(Size) /\ Len(items') = next - mid /\ mid <= next
      BY <1>1, <1>8, <2>1
    <3> QED BY <1>8, <2>1, <2>2, <2>4, <3>1, BytesOfRun
  <2>6. bytes' \in 0..CapBytes
    <3>1. CASE k = Len(items)
      BY <1>6, <1>7, <1>9, <2>4, <3>1
    <3>2. CASE Fits(k, next)
      BY <1>5, <1>6, <2>4, <3>2 DEF Fits
    <3> QED BY <1>2, <3>1, <3>2 DEF StopsAt
  <2>7. Run'
    <3> SUFFICES ASSUME NEW i \in 1..Len(items') - 1
                 PROVE  items'[i + 1] = items'[i] + 1
      BY DEF Run
    <3>1. i \in 1..Len(items') /\ i + 1 \in 1..Len(items') /\ i \in Nat
      BY <1>8, <2>1
    <3> QED BY <1>8, <2>2, <3>1
  <2> QED BY <2>3, <2>5, <2>6, <2>7 DEF Accounted, BytesAccounted
<1>10. CASE /\ Size[next] > CapBytes /\ items' = kept /\ bytes' = bytes - Bytes(Oldest(k))
  <2>1. k = Len(items)
    <3>1. ~Fits(k, next)
      BY <1>5, <1>6, <1>10 DEF Fits
    <3> QED BY <1>2, <3>1 DEF StopsAt
  <2>2. items' = <<>> /\ bytes' = 0
    <3>1. Len(kept) = 0
      BY <1>1, <1>3, <2>1
    <3> QED BY <1>3, <1>5, <1>7, <1>10, <2>1, <3>1
  <2> QED BY <1>6, <2>2 DEF Accounted, BufferIsRun, BytesAccounted, Run, Bytes
<1> QED BY <1>2, <1>9, <1>10 DEF kept

\* An ack takes the front of the run.
LEMMA PruneAccounted ==
  ASSUME RestOK, Accounted, NEW ack, PruneUntil(ack), UNCHANGED next
  PROVE  Accounted'
<1>1. PICK k \in 0..Len(items) :
        items' = AllBut(k) /\ bytes' = bytes - Bytes(Oldest(k))
  BY DEF PruneUntil
<1>2. /\ items \in Seq(Events) /\ Len(items) \in Nat /\ next \in Nat
      /\ \A i \in 1..Len(items) : items[i] \in Nat
  BY BufferTyped
<1>3. /\ items' \in Seq(Events) /\ Len(items') = Len(items) - k
      /\ \A i \in 1..Len(items') : items'[i] = items[k + i]
  BY <1>1, <1>2 DEF AllBut
<1>4. BufferIsRun'
  BY <1>2, <1>3 DEF Accounted, BufferIsRun
<1>5. Run'
  <2> DEFINE low == next - 1 - Len(items')
  <2>1. low \in Int /\ \A i \in 1..Len(items') : items'[i] = low + i
    BY <1>2, <1>3, <1>4 DEF BufferIsRun
  <2> HIDE DEF low
  <2>2. Len(items') \in Nat
    BY <1>3
  <2> QED BY <2>1, <2>2 DEF Run
<1>6. /\ bytes' = Bytes(items') /\ bytes' \in Nat /\ Bytes(Oldest(k)) \in Nat
  <2>1. /\ Bytes(Oldest(k)) \in Nat /\ Bytes(AllBut(k)) \in Nat
        /\ bytes - Bytes(Oldest(k)) = Bytes(AllBut(k))
    BY Split
  <2> QED BY <1>1, <2>1
<1>7. bytes' \in 0..CapBytes
  BY <1>1, <1>6, RetryBufferAssumption DEF Accounted, BytesAccounted
<1> QED BY <1>4, <1>5, <1>6, <1>7 DEF Accounted, BytesAccounted

\* The running total is that of what is retained, within the budget.
THEOREM BytesAreAccounted == Spec => []BytesAccounted
<1>1. Init => Accounted
  BY RetryBufferAssumption DEF Init, BufferInit, Accounted, BufferIsRun, BytesAccounted, Run, Bytes
<1>2. ASSUME IInv, Accounted, [Next]_vars
      PROVE  Accounted'
  <2>1. RestOK
    BY <1>2 DEF IInv
  <2>2. CASE UNCHANGED <<items, bytes, next>>
    BY <1>2, <2>2 DEF Accounted, BufferIsRun, BytesAccounted, Run
  <2>3. CASE Take
    BY <1>2, <2>1, <2>3, TakeAccounted
  <2>4. CASE PruneUntil(Head(acks)) /\ UNCHANGED next
    BY <1>2, <2>1, <2>4, PruneAccounted
  <2>5. UNCHANGED <<items, bytes, next>> \/ Take \/ (PruneUntil(Head(acks)) /\ UNCHANGED next)
    <3> USE DEF bufferVars, streamVars
    <3>1. CASE UNCHANGED vars
      BY <3>1 DEF vars
    <3>2. CASE Sink
      BY <3>2 DEF Sink, ClientSetup, LifecycleOk, LifecycleFail, PostStreamTimeout,
         PreloadFromBuffer, PreloadFromUpstream, PreloadNothing, OpenOk, TakeEvicted, OpenFail,
         ReplayStep, ReplayNext, ReplayFail, ReplayEnd, DrainAck, DrainEnd, SelectEvent, SendOk,
         SendFail, SelectUpstreamEnd, SelectAck, SelectEnd, HalfCloseDeadline, AckDeadline,
         RecordAck
    <3>3. CASE Environment
      BY <3>3 DEF Environment, Publish, CloseUpstream, ServerRead, ServerAck, ConnectionLost,
         ServerEnds
    <3> QED BY <1>2, <3>1, <3>2, <3>3 DEF Next
  <2> QED BY <2>2, <2>3, <2>4, <2>5
<1>3. Accounted => BytesAccounted
  BY DEF Accounted
<1> QED BY Invariance, <1>1, <1>2, <1>3, PTL DEF Spec

-----------------------------------------------------------------------------
(* Everything is taken: the request side is shut, and the stream left for  *)
(* the last two calls, only when no event can follow.                      *)
Complete == lastSent \/ (upClosed /\ next = published + 1)
StreamIsComplete ==
  /\ lastSent => next - 1 \in LastAt
  /\ phase = "sending" => ~lastSent
  /\ phase = "select" /\ (~reqOpen \/ halfArmed) => Complete
  /\ phase = "lifecycle" /\ call >= 3 => Complete
OkIsComplete ==
  result.outcome = "ok" => result.sent \in LastAt \/ (upClosed /\ result.sent = published)
AllTaken == StreamIsComplete /\ OkIsComplete

LEMMA TakenKept ==
  ASSUME AllTaken,
         UNCHANGED <<next, lastSent>>, upClosed => UNCHANGED upVars,
         phase' = "sending" => phase = "sending",
         phase' = "select" => UNCHANGED <<phase, reqOpen, halfArmed>> \/ Complete
                              \/ (reqOpen' /\ ~halfArmed'),
         phase' = "lifecycle" => (UNCHANGED phase /\ (call' >= 3 => call >= 3)) \/ ~(call' >= 3) \/ Complete,
         UNCHANGED result \/ result'.outcome = "err"
           \/ (result'.sent = next - 1 /\ Complete /\ next - 1 \in Int /\ published \in Int)
  PROVE  AllTaken'
<1>1. Complete => Complete'
  BY DEF Complete, upVars
<1>2. StreamIsComplete'
  BY <1>1 DEF AllTaken, StreamIsComplete
<1>3. OkIsComplete'
  <2>1. CASE UNCHANGED result
    BY <2>1 DEF AllTaken, OkIsComplete, upVars
  <2>2. CASE result'.sent = next - 1 /\ Complete /\ next - 1 \in Int /\ published \in Int
    BY <1>1, <2>2 DEF AllTaken, StreamIsComplete, OkIsComplete, Complete, upVars
  <2> QED BY <2>1, <2>2 DEF OkIsComplete
<1> QED BY <1>2, <1>3 DEF AllTaken

LEMMA EndsTaken ==
  ASSUME AllTaken, phase \in {"opening", "select", "drain"}, 
         UNCHANGED <<upVars, lifeVars, next, lastSent>>,
         (Finish /\ Complete) \/ Refuse \/ Transient
  PROVE  AllTaken'
<1>1. phase' \in {"lifecycle", "returned", "preload"}
      /\ (phase' = "lifecycle" => Complete)
      /\ (UNCHANGED result \/ result'.outcome = "err")
  <2>1. CASE Finish /\ Complete
    BY <2>1 DEF Finish
  <2>2. GiveUp \/ Refuse => phase' = "returned" /\ result'.outcome = "err"
    BY GivingUpFails
  <2>3. CASE Transient
    BY <2>2, <2>3 DEF Transient, Connect
  <2> QED BY <2>1, <2>2, <2>3
<1> QED BY <1>1, TakenKept DEF lifeVars

LEMMA SinkTakes ==
  ASSUME IInv, AllTaken, Sink
  PROVE  AllTaken'
<1> USE DEF streamVars, lifeVars, loopVars, upVars
<1>0. /\ next - 1 \in Int /\ next \in Int /\ published \in Int /\ call \in Int
      /\ (next - 1 = published => next = published + 1) /\ next <= published + 1
  BY DEF IInv, RestOK
<1>1. CASE ClientSetup \/ LifecycleOk \/ (\E r \in BOOLEAN : LifecycleFail(r)) \/ PostStreamTimeout
  <2>1. ClientSetup => AllTaken'
    BY <1>0, TakenKept DEF ClientSetup, ReturnWith, IInv, DoneMeansEmpty
  <2>2. ASSUME LifecycleOk PROVE AllTaken'
    <3>1. CASE call \in {1, 3} /\ UNCHANGED <<phase, loopVars, result>>
      BY <1>0, <2>2, <3>1, TakenKept DEF LifecycleOk
    <3>2. CASE call = 2 /\ Connect /\ UNCHANGED result
      BY <1>0, <2>2, <3>2, TakenKept DEF LifecycleOk, Connect
    <3>3. CASE call = 4 /\ Return("ok")
      BY <1>0, <2>2, <3>3, TakenKept DEF LifecycleOk, Return, ReturnWith, Stats, AllTaken,
         StreamIsComplete
    <3> QED BY <2>2, <3>1, <3>2, <3>3 DEF LifecycleOk
  <2>3. (\E r \in BOOLEAN : LifecycleFail(r)) => AllTaken'
    BY <1>0, TakenKept DEF LifecycleFail, Return, ReturnWith
  <2>4. PostStreamTimeout => AllTaken'
    BY <1>0, TakenKept DEF PostStreamTimeout, Return, ReturnWith
  <2> QED BY <1>1, <2>1, <2>2, <2>3, <2>4
<1>2. CASE PreloadFromBuffer \/ PreloadNothing
  BY <1>2, TakenKept DEF PreloadFromBuffer, PreloadNothing
<1>3. CASE PreloadFromUpstream
  <2>1. /\ next' - 1 = next /\ phase' = "opening" /\ UNCHANGED <<result, upClosed, published>>
        /\ lastSent' = (next \in LastAt)
    BY <1>0, <1>3 DEF PreloadFromUpstream, Take
  <2>2. StreamIsComplete'
    BY <2>1 DEF StreamIsComplete
  <2>3. OkIsComplete'
    BY <2>1 DEF AllTaken, OkIsComplete
  <2> QED BY <2>2, <2>3 DEF AllTaken
<1>4. CASE OpenOk \/ ReplayStep \/ ReplayFail \/ ReplayEnd \/ SendFail
  <2>1. CASE ReplayEnd
    BY <2>1, TakenKept DEF ReplayEnd, Complete, IInv, FlagsOK
  <2>2. CASE OpenOk \/ ReplayStep \/ ReplayFail \/ SendFail
    BY <2>2, TakenKept DEF OpenOk, ReplayStep, ReplayNext, ReplayFail, SendFail
  <2> QED BY <1>4, <2>1, <2>2
<1>5. CASE (\E r \in BOOLEAN : OpenFail(r)) \/ DrainEnd \/ AckDeadline
  BY <1>5, EndsTaken DEF OpenFail, DrainEnd, AckDeadline
<1>6. CASE DrainAck
  BY <1>6, TakenKept DEF DrainAck
<1>7. CASE SelectEvent
  BY <1>0, <1>7 DEF SelectEvent, Take, EventWaiting, AllTaken, StreamIsComplete, OkIsComplete
<1>8. CASE SendOk
  BY <1>0, <1>8 DEF SendOk, AllTaken, StreamIsComplete, OkIsComplete, Complete
<1>9. CASE SelectUpstreamEnd
  <2>1. Complete
    BY <1>0, <1>9 DEF SelectUpstreamEnd, EventWaiting, Complete
  <2>2. CASE Finish
    BY <1>9, <2>1, <2>2, EndsTaken DEF SelectUpstreamEnd
  <2>3. CASE UNCHANGED <<phase, result>>
    BY <1>9, <2>1, <2>3, TakenKept DEF SelectUpstreamEnd
  <2> QED BY <1>9, <2>2, <2>3 DEF SelectUpstreamEnd
<1>10. CASE SelectAck \/ SelectEnd \/ HalfCloseDeadline
  <2>1. phase = "select" /\ (lastSent \/ ~reqOpen \/ halfArmed => Complete)
    BY <1>10 DEF SelectAck, SelectEnd, HalfCloseDeadline, AllTaken, StreamIsComplete, Complete
  <2>2. CASE SelectAck
    <3>1. CASE NothingUnacked /\ Finish
      BY <2>1, <2>2, <3>1, EndsTaken DEF SelectAck, NothingUnacked
    <3>2. CASE UNCHANGED <<phase, reqOpen, halfArmed, result>>
      BY <2>2, <3>2, TakenKept DEF SelectAck
    <3> QED BY <2>2, <3>1, <3>2 DEF SelectAck
  <2>3. CASE SelectEnd
    BY <2>1, <2>3, EndsTaken DEF SelectEnd, NothingUnacked
  <2>4. CASE HalfCloseDeadline
    BY <2>1, <2>4, EndsTaken DEF HalfCloseDeadline
  <2> QED BY <1>10, <2>2, <2>3, <2>4
<1> QED
  BY <1>1, <1>2, <1>3, <1>4, <1>5, <1>6, <1>7, <1>8, <1>9, <1>10 DEF Sink

LEMMA TakenInvariance == Spec => []AllTaken
<1>1. Init => AllTaken
  BY DEF Init, AllTaken, StreamIsComplete, OkIsComplete
<1>2. ASSUME IInv, AllTaken, [Next]_vars
      PROVE  AllTaken'
  <2>1. CASE UNCHANGED vars
    BY <1>2, <2>1 DEF vars, AllTaken, StreamIsComplete, OkIsComplete, Complete, upVars, lifeVars,
                      streamVars, loopVars
  <2>2. CASE Environment
    <3>1. CASE Publish \/ CloseUpstream
      BY <1>2, <3>1, TakenKept DEF Publish, CloseUpstream, streamVars, lifeVars, loopVars, upVars
    <3>2. CASE ServerRead \/ ServerAck \/ ConnectionLost
               \/ \E how \in {"closed", "retryable", "fatal"} : ServerEnds(how)
      BY <1>2, <3>2, TakenKept DEF ServerRead, ServerAck, ConnectionLost, ServerEnds, streamVars,
         lifeVars, loopVars, upVars
    <3> QED BY <2>2, <3>1, <3>2 DEF Environment
  <2> QED BY <1>2, <2>1, <2>2, SinkTakes DEF Next
<1> QED BY Invariance, <1>1, <1>2, PTL DEF Spec

\* Ok means that nothing was left behind upstream.
THEOREM EverythingTakenIsUploaded == Spec => []EverythingIsUploaded
<1>1. AllTaken => EverythingIsUploaded
  BY DEF AllTaken, OkIsComplete, EverythingIsUploaded
<1> QED BY TakenInvariance, <1>1, PTL

-----------------------------------------------------------------------------
(* What is lost is known.  Below an ack, and below what the server read or *)
(* is about to read, every event is stored, or the user was warned; on a   *)
(* connection that is not open yet, or is about to be.                     *)
OnWire(n) == \E i \in 1..Len(wire) : wire[i] = n
Known(n) == n \in landed \/ warned
ToldOnceOpen == phase = "opening" /\ evicted > 0

EvictionsCounted == forgotten = {} \/ warned \/ evicted > 0
AckedIsKnown == \A n \in 1..maxAcked : Known(n)
ReadIsKnown ==
  /\ \A n \in 1..srvGot : Known(n) \/ ToldOnceOpen
  /\ \A i \in 1..Len(acks) : acks[i] <= srvGot
WireHasNoGaps ==
  srvEnd = "open" =>
    \A i \in 1..Len(wire) : \A n \in 1..wire[i] : Known(n) \/ ToldOnceOpen \/ OnWire(n)
ReplayedIsSent ==
  /\ phase = "preload" => preloaded = 0
  /\ phase = "replay" => forgotten = {} \/ warned
  /\ phase \in {"opening", "replay"} /\ srvEnd = "open" =>
       /\ preloaded # 0 => Known(preloaded) \/ OnWire(preloaded)
       /\ \A i \in 1..replayed : Known(items[i]) \/ OnWire(items[i])
AllSent ==
  srvEnd = "open" =>
    /\ phase = "select" => \A n \in 1..(next - 1) : Known(n) \/ OnWire(n)
    /\ phase = "sending" => \A n \in 1..(next - 2) : Known(n) \/ OnWire(n)
LossInv ==
  /\ EvictionsCounted /\ AckedIsKnown /\ ReadIsKnown /\ WireHasNoGaps
  /\ ReplayedIsSent /\ AllSent /\ NoSilentLoss

\* What was taken and is not in the buffer is known, or will be once the stream is
\* open.
LEMMA GoneIsKnown ==
  ASSUME IInv, LossInv, NEW n \in 1..(next - 1), n \notin Items
  PROVE  Known(n) \/ (evicted > 0 /\ ~warned /\ n \in forgotten)
<1>1. n \in 1..maxAcked \/ n \in (maxAcked + 1)..(next - 1)
  BY DEF IInv, RestOK
<1>2. CASE n \in 1..maxAcked
  BY <1>2 DEF LossInv, AckedIsKnown
<1>3. CASE n \in forgotten
  BY <1>3 DEF LossInv, EvictionsCounted, Known
<1> QED BY <1>1, <1>2, <1>3 DEF IInv, UnackedIsReplayable

\* A result that is there stays true: what is known stays known.
LEMMA SilenceKept ==
  ASSUME NoSilentLoss, landed \subseteq landed', warned => warned',
         UNCHANGED result \/ result'.outcome = "err"
  PROVE  NoSilentLoss'
BY DEF NoSilentLoss

\* Whatever a drive sent is forgotten with it.
LEMMA DriveOver ==
  ASSUME LossInv, NEW open, FreshDrive(open), phase' \in {"lifecycle", "returned", "preload"},
         UNCHANGED <<forgotten, evicted, landed, warned>>, AckedIsKnown',
         UNCHANGED result \/ result'.outcome = "err"
  PROVE  LossInv'
<1>1. preloaded' = 0 /\ wire' = <<>> /\ acks' = <<>> /\ srvGot' = 0
  BY DEF FreshDrive
<1>2. EvictionsCounted' /\ NoSilentLoss'
  BY SilenceKept DEF LossInv, EvictionsCounted
<1>3. ReadIsKnown' /\ WireHasNoGaps' /\ ReplayedIsSent' /\ AllSent'
  BY <1>1 DEF ReadIsKnown, WireHasNoGaps, ReplayedIsSent, AllSent
<1> QED BY <1>2, <1>3 DEF LossInv

\* The steps that move on without touching the buffer or the connection.
LEMMA MovesOn ==
  ASSUME LossInv,
         UNCHANGED <<forgotten, evicted, landed, warned, maxAcked, srvGot, acks, wire, srvEnd>>,
         \/ phase' \in {"lifecycle", "returned", "drain"} /\ phase # "opening"
         \/ UNCHANGED <<phase, items, next, preloaded, replayed>>,
         UNCHANGED result \/ result'.outcome = "err"
  PROVE  LossInv'
<1> USE DEF LossInv, Known, OnWire, ToldOnceOpen
<1>1. EvictionsCounted' /\ NoSilentLoss' /\ AckedIsKnown'
  BY SilenceKept DEF EvictionsCounted, AckedIsKnown
<1>2. ReadIsKnown' /\ WireHasNoGaps'
  BY DEF ReadIsKnown, WireHasNoGaps
<1>3. ReplayedIsSent' /\ AllSent'
  BY DEF ReplayedIsSent, AllSent
<1> QED BY <1>1, <1>2, <1>3

LEMMA AckKnown ==
  ASSUME IInv, LossInv, acks # <<>>, RecordAck(Head(acks)), phase \in {"drain", "select"},
         UNCHANGED <<landed, warned>>
  PROVE  AckedIsKnown' /\ UNCHANGED <<forgotten, evicted>>
<1>1. acks \in Seq(Nat) /\ srvGot \in Nat /\ maxAcked \in Nat
  BY DEF IInv, RestOK
<1>2. Head(acks) \in Nat /\ Head(acks) <= srvGot
  BY <1>1 DEF LossInv, ReadIsKnown
<1>3. maxAcked' \in {maxAcked, Head(acks)} /\ UNCHANGED <<forgotten, evicted>>
  BY DEF RecordAck, PruneUntil
<1>4. \A n \in 1..Head(acks) : Known(n)
  <2> SUFFICES ASSUME NEW n \in 1..Head(acks) PROVE Known(n)
    OBVIOUS
  <2>1. n \in 1..srvGot
    BY <1>1, <1>2
  <2> QED BY <2>1 DEF LossInv, ReadIsKnown, ToldOnceOpen
<1>5. AckedIsKnown'
  BY <1>3, <1>4 DEF LossInv, AckedIsKnown, Known
<1> QED BY <1>3, <1>5

LEMMA LifecycleKnown ==
  ASSUME IInv, LossInv,
         ClientSetup \/ LifecycleOk \/ (\E r \in BOOLEAN : LifecycleFail(r)) \/ PostStreamTimeout
  PROVE  LossInv'
<1> USE DEF bufferVars, streamVars, loopVars, connVars
<1>1. CASE ClientSetup \/ (\E r \in BOOLEAN : LifecycleFail(r)) \/ PostStreamTimeout
  BY <1>1, MovesOn DEF ClientSetup, LifecycleFail, PostStreamTimeout, Return, ReturnWith
<1>2. CASE LifecycleOk
  <2>1. CASE call = 4 /\ Return("ok")
    <3>1. UNCHANGED <<forgotten, evicted, landed, warned, maxAcked, srvGot, acks, wire, srvEnd>>
          /\ phase = "lifecycle" /\ phase' = "returned"
      BY <1>2, <2>1 DEF LifecycleOk, Return, ReturnWith, Connect
    <3>2. result'.sent = next - 1 /\ result'.acked = maxAcked /\ next \in Nat /\ maxAcked \in 0..(next - 1)
      BY <2>1 DEF Return, ReturnWith, Stats, IInv, RestOK
    <3>3. NoSilentLoss'
      BY <3>1, <3>2 DEF LossInv, AckedIsKnown, Known, NoSilentLoss
    <3>4. EvictionsCounted' /\ AckedIsKnown' /\ ReadIsKnown' /\ WireHasNoGaps'
      BY <3>1 DEF LossInv, EvictionsCounted, AckedIsKnown, ReadIsKnown, WireHasNoGaps, Known,
                  OnWire, ToldOnceOpen
    <3>5. ReplayedIsSent' /\ AllSent'
      BY <3>1 DEF ReplayedIsSent, AllSent
    <3> QED BY <3>3, <3>4, <3>5 DEF LossInv
  <2>2. CASE call \in {1, 3} /\ UNCHANGED <<phase, loopVars, connVars, result>>
    BY <1>2, <2>2, MovesOn DEF LifecycleOk
  <2>3. CASE Connect /\ UNCHANGED result
    <3>1. AckedIsKnown'
      BY <1>2 DEF LifecycleOk, LossInv, AckedIsKnown, Known
    <3> QED BY <1>2, <2>3, <3>1, DriveOver DEF LifecycleOk, Connect
  <2> QED BY <1>2, <2>1, <2>2, <2>3 DEF LifecycleOk
<1> QED BY <1>1, <1>2

\* Taking an event counts what it evicts.
LEMMA TakeCounts ==
  ASSUME RestOK, Take
  PROVE  /\ evicted' \in Nat /\ (evicted > 0 => evicted' > 0)
         /\ forgotten' = forgotten \/ evicted' > 0
         /\ next' = next + 1
<1>1. evicted \in Nat /\ Len(items) \in Nat
  BY DEF RestOK, BufferTypeOK
<1> DEFINE gone(k) == {items[i] : i \in 1..k}
<1>2. PICK k \in 0..Len(items) :
        \/ evicted' = evicted + k /\ forgotten' = forgotten \cup gone(k)
        \/ evicted' = evicted + k + 1
  BY DEF Take, Push
<1>3. k = 0 => gone(k) = {}
  OBVIOUS
<1> HIDE DEF gone
<1>4. k \in Nat
  BY <1>1
<1>5. evicted' \in {evicted + k, evicted + k + 1}
  BY <1>2
<1>6. evicted' \in Nat /\ (evicted > 0 => evicted' > 0)
  BY <1>1, <1>4, <1>5
<1>7. forgotten' = forgotten \/ evicted' > 0
  <2>1. CASE k = 0 /\ forgotten' = forgotten \cup gone(k)
    BY <1>3, <2>1
  <2>2. CASE k > 0 \/ evicted' = evicted + k + 1
    BY <1>1, <1>4, <1>5, <2>2
  <2> QED BY <1>2, <1>4, <2>1, <2>2
<1> QED BY <1>6, <1>7 DEF Take

LEMMA PreloadKnown ==
  ASSUME IInv, LossInv, PreloadFromBuffer \/ PreloadFromUpstream \/ PreloadNothing
  PROVE  LossInv'
<1>1. /\ phase = "preload" /\ phase' = "opening" /\ wire = <<>> /\ srvGot = 0 /\ replayed = 0
      /\ UNCHANGED <<maxAcked, landed, warned, srvGot, srvEnd, acks, replayed, result>>
  BY DEF PreloadFromBuffer, PreloadFromUpstream, PreloadNothing, IInv, WireIsBehind, streamVars,
         loopVars, connVars
<1>2. AckedIsKnown' /\ NoSilentLoss' /\ AllSent'
  BY <1>1, SilenceKept DEF LossInv, AckedIsKnown, Known, AllSent
<1>3. ReadIsKnown'
  BY <1>1 DEF LossInv, ReadIsKnown
<1>4. next \in Nat \ {0}
  BY DEF IInv, RestOK
<1>5. CASE PreloadFromBuffer
  <2>1. /\ items # <<>> /\ wire' = <<items[1]>> /\ preloaded' = items[1]
        /\ UNCHANGED <<bufferVars, next>>
    BY <1>5 DEF PreloadFromBuffer, streamVars
  <2>2. /\ Len(items) \in Nat \ {0} /\ \A i \in 1..Len(items) : items[i] \in 1..(next - 1)
        /\ \A i \in 1..Len(items) : items[1] <= items[i]
    <3>1. Len(items) # 0
      BY <2>1 DEF IInv, RestOK, BufferTypeOK
    <3>2. Len(items) \in Nat /\ \A i \in 1..Len(items) : items[i] \in 1..(next - 1)
      BY ItemsAreNumbers DEF IInv
    <3>3. \A i \in 1..Len(items) : i = 1 \/ 1 < i
      BY <3>2
    <3> QED BY <1>4, <3>1, <3>2, <3>3 DEF IInv, Ascending
  <2>3. \A n \in 1..(items[1] - 1) : Known(n) \/ evicted > 0
    <3> SUFFICES ASSUME NEW n \in 1..(items[1] - 1) PROVE Known(n) \/ evicted > 0
      OBVIOUS
    <3>1. n \in 1..(next - 1) /\ n \notin Items
      BY <1>4, <2>2 DEF Items
    <3> QED BY <3>1, GoneIsKnown
  <2>4. EvictionsCounted' /\ ReplayedIsSent'
    BY <1>1, <2>1 DEF LossInv, EvictionsCounted, ReplayedIsSent, OnWire, bufferVars
  <2>5. WireHasNoGaps'
    <3> SUFFICES ASSUME NEW n \in 1..items[1]
                 PROVE  n \in landed \/ warned \/ evicted > 0 \/ n = items[1]
      BY <1>1, <2>1 DEF WireHasNoGaps, Known, OnWire, ToldOnceOpen, bufferVars
    <3>1. n = items[1] \/ n \in 1..(items[1] - 1)
      BY <2>2
    <3> QED BY <2>3, <3>1 DEF Known
  <2> QED BY <1>2, <1>3, <2>4, <2>5 DEF LossInv
<1>6. CASE PreloadFromUpstream
  <2>1. /\ items = <<>> /\ Take /\ wire' = <<next>> /\ preloaded' = next
    BY <1>6 DEF PreloadFromUpstream
  <2>2. /\ evicted' \in Nat /\ (evicted > 0 => evicted' > 0)
        /\ forgotten' = forgotten \/ evicted' > 0
    BY <2>1, TakeCounts DEF IInv
  <2>3. \A n \in 1..(next - 1) : Known(n) \/ evicted > 0
    BY <2>1, GoneIsKnown DEF Items
  <2>4. EvictionsCounted' /\ ReplayedIsSent'
    <3>1. EvictionsCounted'
      BY <1>1, <2>2 DEF LossInv, EvictionsCounted
    <3> QED BY <1>1, <2>1, <3>1 DEF LossInv, ReplayedIsSent, OnWire
  <2>5. WireHasNoGaps'
    <3> SUFFICES ASSUME NEW n \in 1..next
                 PROVE  n \in landed \/ warned \/ evicted' > 0 \/ n = next
      BY <1>1, <2>1 DEF WireHasNoGaps, Known, OnWire, ToldOnceOpen
    <3>1. n = next \/ n \in 1..(next - 1)
      BY <1>4
    <3> QED BY <2>2, <2>3, <3>1 DEF Known
  <2> QED BY <1>2, <1>3, <2>4, <2>5 DEF LossInv
<1>7. CASE PreloadNothing
  <2>1. UNCHANGED <<bufferVars, wire, preloaded>>
    BY <1>7 DEF PreloadNothing, connVars, loopVars
  <2>2. EvictionsCounted' /\ ReplayedIsSent' /\ WireHasNoGaps'
    BY <1>1, <2>1 DEF LossInv, EvictionsCounted, ReplayedIsSent, WireHasNoGaps, bufferVars
  <2> QED BY <1>2, <1>3, <2>2 DEF LossInv
<1> QED BY <1>5, <1>6, <1>7

\* Once the stream is open, the user has been told of every eviction.
LEMMA OpenKnown ==
  ASSUME IInv, LossInv, OpenOk
  PROVE  LossInv'
<1>1. /\ phase = "opening" /\ phase' = "replay" /\ warned' = (warned \/ evicted > 0)
      /\ UNCHANGED <<items, forgotten, maxAcked, next, preloaded, replayed, wire, acks, srvEnd,
                     srvGot, landed, result>>
  BY DEF OpenOk, TakeEvicted, streamVars, loopVars, connVars
<1>2. (warned => warned') /\ (ToldOnceOpen => warned')
  BY <1>1 DEF ToldOnceOpen
<1>3. EvictionsCounted' /\ NoSilentLoss' /\ AckedIsKnown'
  BY <1>1, <1>2, SilenceKept DEF LossInv, EvictionsCounted, AckedIsKnown, Known
<1>4. ReadIsKnown' /\ WireHasNoGaps'
  BY <1>1, <1>2 DEF LossInv, ReadIsKnown, WireHasNoGaps, Known, OnWire
<1>5. ReplayedIsSent' /\ AllSent'
  BY <1>1, <1>2 DEF LossInv, EvictionsCounted, ReplayedIsSent, AllSent, Known, OnWire
<1> QED BY <1>3, <1>4, <1>5 DEF LossInv

\* In the replay, what is below the next event of the buffer is known or on its way.
LEMMA BelowReplay ==
  ASSUME IInv, LossInv, phase = "replay", srvEnd = "open", NEW n \in 1..(next - 1),
         \A i \in 1..Len(items) : i > replayed => items[i] # n
  PROVE  Known(n) \/ OnWire(n)
<1>1. CASE n \notin Items
  <2>1. ~(evicted > 0 /\ ~warned /\ n \in forgotten)
    BY DEF LossInv, ReplayedIsSent
  <2> QED BY <1>1, <2>1, GoneIsKnown
<1>2. CASE n \in Items
  <2>1. PICK i \in 1..Len(items) : items[i] = n
    BY <1>2 DEF Items
  <2>2. i \in 1..replayed
    BY <2>1 DEF IInv, RestOK, BufferTypeOK
  <2> QED BY <2>1, <2>2 DEF LossInv, ReplayedIsSent
<1> QED BY <1>1, <1>2

LEMMA AppendOnWire ==
  ASSUME NEW m, wire \in Seq(Nat), m \in Nat, wire' = Append(wire, m)
  PROVE  /\ \A n : OnWire(n)' <=> OnWire(n) \/ n = m
         /\ Len(wire') = Len(wire) + 1 /\ Len(wire) \in Nat
         /\ wire'[Len(wire) + 1] = m /\ \A i \in 1..Len(wire) : wire'[i] = wire[i]
<1>1. /\ Len(wire') = Len(wire) + 1 /\ Len(wire) \in Nat
      /\ wire'[Len(wire) + 1] = m /\ \A i \in 1..Len(wire) : wire'[i] = wire[i]
  OBVIOUS
<1>2. \A i \in 1..Len(wire') : i \in 1..Len(wire) \/ i = Len(wire) + 1
  BY <1>1
<1>3. Len(wire) + 1 \in 1..Len(wire') /\ 1..Len(wire) \subseteq 1..Len(wire')
  BY <1>1
<1> QED BY <1>1, <1>2, <1>3 DEF OnWire

LEMMA ReplayKnown ==
  ASSUME IInv, LossInv, ReplayStep \/ ReplayFail \/ ReplayEnd
  PROVE  LossInv'
<1> USE DEF bufferVars, streamVars, loopVars, connVars
<1>1. phase = "replay" /\ replayed \in Nat /\ Len(items) \in Nat /\ next \in Nat
      /\ wire \in Seq(Nat) /\ \A i \in 1..Len(items) : items[i] \in 1..(next - 1)
  <2>1. phase = "replay"
    BY DEF ReplayStep, ReplayNext, ReplayFail, ReplayEnd
  <2>2. RestOK /\ Ascending /\ replayed \in Nat /\ next \in Nat /\ wire \in Seq(1..(next - 1))
    BY DEF IInv, RestOK
  <2>3. Len(items) \in Nat /\ \A i \in 1..Len(items) : items[i] \in 1..(next - 1)
    BY <2>2, ItemsAreNumbers
  <2> QED BY <2>1, <2>2, <2>3
<1>2. CASE ReplayFail
  BY <1>2, MovesOn DEF ReplayFail
<1>3. CASE ReplayEnd
  <2>1. /\ UNCHANGED <<items, forgotten, evicted, landed, warned, maxAcked, srvGot, acks, wire,
                       srvEnd, next, result>>
        /\ phase' = "select" /\ replayed = Len(items)
    BY <1>3 DEF ReplayEnd
  <2>2. EvictionsCounted' /\ AckedIsKnown' /\ ReadIsKnown' /\ WireHasNoGaps' /\ ReplayedIsSent'
    BY <1>1, <2>1 DEF LossInv, EvictionsCounted, AckedIsKnown, ReadIsKnown, WireHasNoGaps,
                  ReplayedIsSent, Known, OnWire, ToldOnceOpen
  <2>3. NoSilentLoss'
    BY <2>1, SilenceKept DEF LossInv
  <2>4. srvEnd = "open" => \A n \in 1..(next - 1) : Known(n) \/ OnWire(n)
    BY <1>1, <2>1, BelowReplay
  <2>5. AllSent'
    BY <2>1, <2>4 DEF AllSent, Known, OnWire
  <2> QED BY <2>2, <2>3, <2>5 DEF LossInv
<1>4. CASE ReplayStep
  <2> DEFINE m == items[replayed + 1]
  <2>1. /\ UNCHANGED <<items, forgotten, evicted, landed, warned, maxAcked, srvGot, acks,
                       srvEnd, next, preloaded, phase, result>>
        /\ replayed' = replayed + 1 /\ replayed + 1 \in 1..Len(items) /\ m \in 1..(next - 1)
        /\ (m = preloaded /\ UNCHANGED wire) \/ wire' = Append(wire, m)
    BY <1>1, <1>4 DEF ReplayStep, ReplayNext
  <2>2. \A n \in Nat : OnWire(n)' <=> OnWire(n) \/ (wire' # wire /\ n = m)
    <3> HIDE DEF m
    <3>1. CASE UNCHANGED wire
      BY <3>1 DEF OnWire
    <3>2. CASE wire' = Append(wire, m)
      <4>1. Len(wire') # Len(wire)
        BY <1>1, <2>1, <3>2, AppendOnWire
      <4> QED BY <1>1, <2>1, <3>2, <4>1, AppendOnWire
    <3> QED BY <2>1, <3>1, <3>2
  <2>3. EvictionsCounted' /\ AckedIsKnown' /\ ReadIsKnown' /\ AllSent' /\ NoSilentLoss'
    BY <1>1, <2>1, SilenceKept
       DEF LossInv, EvictionsCounted, AckedIsKnown, ReadIsKnown, AllSent, Known, ToldOnceOpen
  <2>4. ReplayedIsSent'
    <3>1. ASSUME NEW n \in Nat, n = m, srvEnd = "open" PROVE Known(n) \/ OnWire(n)'
      <4> HIDE DEF m
      <4>1. CASE wire' = Append(wire, m)
        BY <1>1, <2>1, <3>1, <4>1, AppendOnWire
      <4>2. CASE m = preloaded /\ UNCHANGED wire
        <5>1. n # 0
          BY <1>1, <2>1, <3>1
        <5> QED BY <1>1, <3>1, <4>2, <5>1 DEF LossInv, ReplayedIsSent, OnWire
      <4> QED BY <2>1, <4>1, <4>2
    <3>2. \A i \in 1..replayed' : i \in 1..replayed \/ i = replayed + 1
      BY <1>1, <2>1
    <3>3. \A i \in 1..replayed : items[i] \in Nat
      BY <1>1, <2>1
    <3>4. preloaded \in Nat
      BY DEF IInv, RestOK
    <3> QED BY <1>1, <2>1, <2>2, <3>1, <3>2, <3>3, <3>4 DEF LossInv, ReplayedIsSent, Known
  <2>5. WireHasNoGaps'
    <3> HIDE DEF m
    <3>1. CASE UNCHANGED wire
      BY <2>1, <3>1 DEF LossInv, WireHasNoGaps, Known, OnWire, ToldOnceOpen
    <3>2. CASE wire' = Append(wire, m)
      <4>1. ASSUME srvEnd = "open", NEW n \in 1..m PROVE Known(n) \/ OnWire(n) \/ n = m
        <5>1. n \in 1..(next - 1) /\ n <= m /\ n \in Nat /\ m \in Nat
          BY <1>1, <2>1
        <5>2. CASE n = m
          BY <5>2
        <5>3. CASE n < m
          <6>1. \A i \in 1..Len(items) : i > replayed => items[i] >= m
            <7>1. \A i \in 1..Len(items) : i > replayed => i = replayed + 1 \/ replayed + 1 < i
              BY <1>1
            <7>2. \A i, j \in 1..Len(items) : i < j => items[i] < items[j]
              BY DEF IInv, Ascending
            <7> QED BY <1>1, <2>1, <7>1, <7>2 DEF m
          <6>2. \A i \in 1..Len(items) : i > replayed => items[i] # n
            BY <1>1, <5>1, <5>3, <6>1
          <6> QED BY <1>1, <4>1, <5>1, <6>2, BelowReplay
        <5> QED BY <5>1, <5>2, <5>3
      <4>2. /\ Len(wire') = Len(wire) + 1 /\ Len(wire) \in Nat /\ wire'[Len(wire) + 1] = m
            /\ \A i \in 1..Len(wire) : wire'[i] = wire[i] /\ wire[i] \in Nat
            /\ \A n : OnWire(n)' <=> OnWire(n) \/ n = m
        BY <1>1, <2>1, <3>2, AppendOnWire
      <4>3. \A i \in 1..Len(wire') : i \in 1..Len(wire) \/ i = Len(wire) + 1
        BY <4>2
      <4> QED BY <1>1, <2>1, <4>1, <4>2, <4>3 DEF LossInv, WireHasNoGaps, Known, ToldOnceOpen
    <3> QED BY <2>1, <3>1, <3>2
  <2> QED BY <2>3, <2>4, <2>5 DEF LossInv
<1> QED BY <1>2, <1>3, <1>4

LEMMA SelectEventKnown ==
  ASSUME IInv, LossInv, SelectEvent
  PROVE  LossInv'
<1>1. /\ phase = "select" /\ phase' = "sending" /\ Take /\ next \in Nat /\ RestOK
      /\ UNCHANGED <<landed, warned, maxAcked, preloaded, replayed, wire, acks, srvEnd, srvGot,
                     result>>
  BY DEF SelectEvent, IInv, RestOK, connVars
<1>2. /\ evicted' \in Nat /\ (evicted > 0 => evicted' > 0)
      /\ forgotten' = forgotten \/ evicted' > 0
      /\ next' = next + 1
  BY <1>1, TakeCounts
<1>3. EvictionsCounted' /\ NoSilentLoss'
  BY <1>1, <1>2, SilenceKept DEF LossInv, EvictionsCounted
<1>4. AckedIsKnown' /\ ReadIsKnown' /\ WireHasNoGaps' /\ ReplayedIsSent'
  BY <1>1 DEF LossInv, AckedIsKnown, ReadIsKnown, WireHasNoGaps, ReplayedIsSent, Known, OnWire,
              ToldOnceOpen
<1>5. AllSent'
  <2>1. next' - 2 = next - 1
    BY <1>1, <1>2
  <2> QED BY <1>1, <2>1 DEF LossInv, AllSent, Known, OnWire
<1> QED BY <1>3, <1>4, <1>5 DEF LossInv

LEMMA SendKnown ==
  ASSUME IInv, LossInv, SendOk \/ SendFail
  PROVE  LossInv'
<1> USE DEF bufferVars, streamVars, loopVars, connVars
<1>1. CASE SendFail
  BY <1>1, MovesOn DEF SendFail
<1>2. CASE SendOk
  <2>1. /\ phase = "sending" /\ phase' = "select" /\ wire' = Append(wire, next - 1)
        /\ next - 1 \in Nat /\ next \in Nat /\ wire \in Seq(Nat)
        /\ UNCHANGED <<items, forgotten, evicted, landed, warned, next, maxAcked, preloaded,
                       replayed, acks, srvEnd, srvGot, result>>
    BY <1>2 DEF SendOk, IInv, RestOK
  <2>2. /\ Len(wire') = Len(wire) + 1 /\ Len(wire) \in Nat /\ wire'[Len(wire) + 1] = next - 1
        /\ \A i \in 1..Len(wire) : wire'[i] = wire[i] /\ wire[i] \in Nat
        /\ \A n : OnWire(n)' <=> OnWire(n) \/ n = next - 1
    BY <2>1, AppendOnWire
  <2>3. EvictionsCounted' /\ NoSilentLoss' /\ AckedIsKnown' /\ ReadIsKnown' /\ ReplayedIsSent'
    BY <2>1, SilenceKept
       DEF LossInv, EvictionsCounted, AckedIsKnown, ReadIsKnown, ReplayedIsSent, Known,
           ToldOnceOpen
  <2>4. srvEnd = "open" => \A n \in 1..(next - 1) : Known(n) \/ OnWire(n)'
    <3>1. \A n \in 1..(next - 1) : n \in 1..(next - 2) \/ n = next - 1
      BY <2>1
    <3> QED BY <2>1, <2>2, <3>1 DEF LossInv, AllSent
  <2>5. AllSent'
    BY <2>1, <2>4 DEF AllSent, Known
  <2>6. WireHasNoGaps'
    <3>1. \A i \in 1..Len(wire') : i \in 1..Len(wire) \/ i = Len(wire) + 1
      BY <2>2
    <3> QED BY <2>1, <2>2, <2>4, <3>1 DEF LossInv, WireHasNoGaps, Known, ToldOnceOpen
  <2> QED BY <2>3, <2>5, <2>6 DEF LossInv
<1> QED BY <1>1, <1>2

LEMMA AcksKnown ==
  ASSUME IInv, LossInv, DrainAck \/ SelectAck
  PROVE  LossInv'
<1> USE DEF loopVars
<1>1. /\ phase \in {"drain", "select"} /\ acks # <<>> /\ RecordAck(Head(acks))
      /\ UNCHANGED <<landed, warned, next>>
  BY DEF DrainAck, SelectAck
<1>2. AckedIsKnown' /\ UNCHANGED <<forgotten, evicted>>
  BY <1>1, AckKnown
<1>3. CASE Finish
  BY <1>1, <1>2, <1>3, DriveOver DEF Finish
<1>4. CASE acks' = Tail(acks) /\ UNCHANGED <<phase, preloaded, replayed, wire, srvEnd, srvGot, result>>
  <2>1. Len(acks') = Len(acks) - 1 /\ Len(acks) \in Nat
        /\ \A i \in 1..Len(acks') : acks'[i] = acks[i + 1]
    BY <1>1, <1>4 DEF IInv, RestOK
  <2>2. \A i \in 1..Len(acks') : i + 1 \in 1..Len(acks)
    BY <2>1
  <2>3. ReadIsKnown'
    BY <1>1, <1>4, <2>1, <2>2 DEF LossInv, ReadIsKnown, Known, ToldOnceOpen
  <2>4. EvictionsCounted' /\ NoSilentLoss'
    BY <1>1, <1>2, <1>4, SilenceKept DEF LossInv, EvictionsCounted
  <2>5. WireHasNoGaps' /\ ReplayedIsSent' /\ AllSent'
    BY <1>1, <1>4 DEF LossInv, WireHasNoGaps, ReplayedIsSent, AllSent, Known, OnWire, ToldOnceOpen
  <2> QED BY <1>2, <2>3, <2>4, <2>5 DEF LossInv
<1> QED BY <1>3, <1>4 DEF DrainAck, SelectAck

LEMMA EndsKnown ==
  ASSUME IInv, LossInv,
         \/ SelectUpstreamEnd \/ SelectEnd \/ HalfCloseDeadline \/ AckDeadline \/ DrainEnd
         \/ \E r \in BOOLEAN : OpenFail(r)
  PROVE  LossInv'
<1>1. UNCHANGED <<items, forgotten, evicted, landed, warned, next, maxAcked>>
  BY DEF SelectUpstreamEnd, SelectEnd, HalfCloseDeadline, AckDeadline, DrainEnd, OpenFail,
         bufferVars, streamVars
<1>2. CASE Finish \/ Refuse \/ Transient
  <2>1. AckedIsKnown'
    BY <1>1 DEF LossInv, AckedIsKnown, Known
  <2>2. FreshDrive(TRUE) \/ FreshDrive(FALSE)
    BY <1>2 DEF Finish, GiveUp, Refuse, Transient, Connect
  <2>3. phase' \in {"lifecycle", "returned", "preload"}
    BY <1>2 DEF Finish, GiveUp, Refuse, Transient, Connect, Return, ReturnWith
  <2>4. UNCHANGED result \/ result'.outcome = "err"
    <3>1. GiveUp \/ Refuse => result'.outcome = "err"
      BY GivingUpFails
    <3> QED BY <1>2, <3>1 DEF Finish, Transient
  <2> QED BY <1>1, <2>1, <2>2, <2>3, <2>4, DriveOver
<1>3. CASE UNCHANGED <<phase, preloaded, replayed, connVars, result>>
  BY <1>1, <1>3, MovesOn DEF connVars
<1> QED
  BY <1>2, <1>3 DEF SelectUpstreamEnd, SelectEnd, HalfCloseDeadline, AckDeadline, DrainEnd, OpenFail

\* The server stores the events in the order of the wire, and acks what it read.
LEMMA ServerKnown ==
  ASSUME IInv, LossInv,
         ServerRead \/ ServerAck \/ ConnectionLost
           \/ \E how \in {"closed", "retryable", "fatal"} : ServerEnds(how)
  PROVE  LossInv'
<1>1. UNCHANGED <<items, forgotten, evicted, phase, warned, next, maxAcked, preloaded, replayed,
                  result>>
  BY DEF ServerRead, ServerAck, ConnectionLost, ServerEnds, bufferVars, streamVars, loopVars
<1>2. /\ wire \in Seq(Nat) /\ acks \in Seq(Nat) /\ srvGot \in Nat
      /\ Len(wire) \in Nat /\ Len(acks) \in Nat
      /\ \A i \in 1..Len(wire) : wire[i] \in Nat
      /\ \A i \in 1..Len(acks) : acks[i] \in Nat
  BY DEF IInv, RestOK
<1>3. landed \subseteq landed'
  BY DEF ServerRead, ServerAck, ConnectionLost, ServerEnds
<1>4. EvictionsCounted' /\ NoSilentLoss' /\ AckedIsKnown'
  BY <1>1, <1>3, SilenceKept DEF LossInv, EvictionsCounted, AckedIsKnown, Known
<1>5. \A n : Known(n) => Known(n)'
  BY <1>1, <1>3 DEF Known
<1>6. ToldOnceOpen' <=> ToldOnceOpen
  BY <1>1 DEF ToldOnceOpen
<1>7. CASE ServerRead
  <2>1. /\ srvEnd = "open" /\ UNCHANGED <<srvEnd, acks>> /\ wire # <<>>
        /\ landed' = landed \cup {wire[1]} /\ srvGot' = wire[1] /\ wire' = Tail(wire)
    BY <1>7 DEF ServerRead
  <2>2. /\ Len(wire) > 0 /\ Len(wire') = Len(wire) - 1
        /\ \A i \in 1..Len(wire') : wire'[i] = wire[i + 1] /\ i + 1 \in 1..Len(wire)
    BY <1>2, <2>1
  <2>3. \A n : OnWire(n) => Known(n)' \/ OnWire(n)'
    <3> SUFFICES ASSUME NEW n, NEW i \in 1..Len(wire), wire[i] = n
                 PROVE  n \in landed' \/ OnWire(n)'
      BY DEF OnWire, Known
    <3>1. CASE i = 1
      BY <2>1, <3>1
    <3>2. CASE i # 1
      <4>1. i - 1 \in 1..Len(wire') /\ (i - 1) + 1 = i
        BY <1>2, <2>2, <3>2
      <4> QED BY <2>2, <4>1 DEF OnWire
    <3> QED BY <3>1, <3>2
  <2>4. \A n \in 1..wire[1] : OnWire(n) => n = wire[1]
    <3>1. \A i \in 1..Len(wire) : i = 1 \/ (1 < i /\ 1 \in 1..Len(wire))
      BY <1>2
    <3> QED BY <1>2, <3>1 DEF IInv, WireInOrder, OnWire
  <2>5. ReadIsKnown'
    <3>1. 1 \in 1..Len(wire) /\ wire[1] \in Nat /\ srvGot < wire[1]
      BY <1>2, <2>2 DEF IInv, WireInOrder
    <3>2. \A n \in 1..wire[1] : Known(n)' \/ ToldOnceOpen'
      <4>1. wire[1] \in landed'
        BY <2>1
      <4> QED BY <1>5, <1>6, <2>1, <2>4, <3>1, <4>1 DEF LossInv, WireHasNoGaps, Known
    <3>3. \A i \in 1..Len(acks) : acks[i] <= wire[1]
      BY <1>2, <3>1 DEF LossInv, ReadIsKnown
    <3> QED BY <2>1, <3>2, <3>3 DEF ReadIsKnown
  <2>6. WireHasNoGaps'
    BY <1>5, <1>6, <2>1, <2>2, <2>3 DEF LossInv, WireHasNoGaps
  <2>7. ReplayedIsSent' /\ AllSent'
    <3> DEFINE Seen(n) == Known(n) \/ OnWire(n)
    <3>1. \A n : Seen(n) => Known(n)' \/ OnWire(n)'
      BY <1>5, <2>3
    <3>2. /\ phase = "preload" => preloaded = 0
          /\ phase = "replay" => forgotten = {} \/ warned
          /\ phase \in {"opening", "replay"} =>
               /\ preloaded # 0 => Seen(preloaded)
               /\ \A i \in 1..replayed : Seen(items[i])
          /\ phase = "select" => \A n \in 1..(next - 1) : Seen(n)
          /\ phase = "sending" => \A n \in 1..(next - 2) : Seen(n)
      BY <2>1 DEF LossInv, ReplayedIsSent, AllSent
    <3> HIDE DEF Seen
    <3>3. ReplayedIsSent'
      BY <1>1, <2>1, <3>1, <3>2 DEF ReplayedIsSent
    <3>4. AllSent'
      BY <1>1, <2>1, <3>1, <3>2 DEF AllSent
    <3> QED BY <3>3, <3>4
  <2> QED BY <1>4, <2>5, <2>6, <2>7 DEF LossInv
<1>8. CASE ServerAck
  <2>1. acks' = Append(acks, srvGot) /\ UNCHANGED <<wire, srvEnd, srvGot, landed>>
    BY <1>8 DEF ServerAck
  <2>2. /\ Len(acks') = Len(acks) + 1 /\ acks'[Len(acks) + 1] = srvGot
        /\ \A i \in 1..Len(acks) : acks'[i] = acks[i]
        /\ \A i \in 1..Len(acks') : i \in 1..Len(acks) \/ i = Len(acks) + 1
    BY <1>2, <2>1
  <2>3. ReadIsKnown'
    BY <1>1, <1>2, <2>1, <2>2 DEF LossInv, ReadIsKnown, Known, ToldOnceOpen
  <2>4. WireHasNoGaps' /\ ReplayedIsSent' /\ AllSent'
    BY <1>1, <2>1 DEF LossInv, WireHasNoGaps, ReplayedIsSent, AllSent, Known, OnWire, ToldOnceOpen
  <2> QED BY <1>4, <2>3, <2>4 DEF LossInv
<1>9. CASE ConnectionLost \/ \E how \in {"closed", "retryable", "fatal"} : ServerEnds(how)
  <2>1. srvEnd' # "open" /\ UNCHANGED <<srvGot, landed>> /\ (UNCHANGED acks \/ acks' = <<>>)
    BY <1>9 DEF ConnectionLost, ServerEnds
  <2>2. ReadIsKnown'
    BY <1>1, <2>1 DEF LossInv, ReadIsKnown, Known, ToldOnceOpen
  <2>3. WireHasNoGaps' /\ AllSent' /\ ReplayedIsSent'
    BY <1>1, <2>1 DEF LossInv, WireHasNoGaps, AllSent, ReplayedIsSent
  <2> QED BY <1>4, <2>2, <2>3 DEF LossInv
<1> QED BY <1>7, <1>8, <1>9

LEMMA LossInvariance == Spec => []LossInv
<1>1. Init => LossInv
  BY DEF Init, BufferInit, LossInv, EvictionsCounted, AckedIsKnown, ReadIsKnown, WireHasNoGaps,
         ReplayedIsSent, AllSent, NoSilentLoss
<1>2. ASSUME IInv, LossInv, [Next]_vars PROVE LossInv'
  <2>1. CASE Publish \/ CloseUpstream \/ UNCHANGED vars
    BY <1>2, <2>1, MovesOn DEF Publish, CloseUpstream, vars, bufferVars, streamVars, loopVars, connVars
  <2>2. CASE Sink
    BY <1>2, <2>2, LifecycleKnown, PreloadKnown, OpenKnown, ReplayKnown, SelectEventKnown,
       SendKnown, AcksKnown, EndsKnown DEF Sink
  <2>3. CASE Environment
    BY <1>2, <2>1, <2>3, ServerKnown DEF Environment
  <2> QED BY <1>2, <2>1, <2>2, <2>3 DEF Next
<1> QED BY Invariance, <1>1, <1>2, PTL DEF Spec

\* Whatever the server does and the buffer has to forget, the loss of an event is
\* noticed: the user is warned, or the counts differ.
THEOREM NothingIsLostSilently == Spec => []NoSilentLoss
<1>1. LossInv => NoSilentLoss
  BY DEF LossInv
<1> QED BY LossInvariance, <1>1, PTL

\* What the budget in bytes makes the sink forget is accounted for: an Ok means that
\* everything was taken, and that what is not stored was warned of or counted.
THEOREM LossesAreKnown == Spec => []LossIsKnown
<1>1. BytesAccounted /\ NoSilentLoss /\ EverythingIsUploaded => LossIsKnown
  BY DEF LossIsKnown
<1> QED BY <1>1, BytesAreAccounted, NothingIsLostSilently, EverythingTakenIsUploaded, PTL

-----------------------------------------------------------------------------
(* The upload: until an event has to be forgotten, the server's events are *)
(* a prefix of those published.                                            *)
PrefixStored ==
  /\ warned \/ evicted > 0 => forgotten # {}
  /\ forgotten = {} => \E k \in Nat : landed = 1..k

LEMMA TakeForgets ==
  ASSUME RestOK, Ascending, Take
  PROVE  forgotten \subseteq forgotten' /\ (evicted' > 0 => evicted > 0 \/ forgotten' # {})
<1>1. evicted \in Nat /\ Len(items) \in Nat
  BY DEF RestOK, BufferTypeOK
<1> DEFINE gone(k) == {items[i] : i \in 1..k}
<1>2. PICK k \in 0..Len(items) :
        \/ evicted' = evicted + k /\ forgotten' = forgotten \cup gone(k)
        \/ evicted' = evicted + k + 1 /\ forgotten' = forgotten \cup gone(k) \cup {next}
  BY DEF Take, Push
<1>3. k > 0 => gone(k) # {}
  BY <1>1
<1> HIDE DEF gone
<1> QED BY <1>1, <1>2, <1>3

\* The sink's steps: what they may change of the upload, and when they report.
LEMMA SinkReports ==
  ASSUME IInv, PrefixStored, Sink
  PROVE  /\ UNCHANGED <<published, upClosed, landed>>
         /\ forgotten \subseteq forgotten'
         /\ warned' \/ evicted' > 0 => forgotten' # {}
         /\ \/ UNCHANGED result
            \/ result'.outcome = "err" /\ phase # "returned"
            \/ phase = "lifecycle" /\ call = 4 /\ Return("ok") /\ UNCHANGED forgotten
<1> USE DEF PrefixStored, bufferVars, upVars
<1>1. CASE ClientSetup \/ (\E r \in BOOLEAN : LifecycleFail(r)) \/ PostStreamTimeout
  <2>1. UNCHANGED <<published, upClosed, landed, forgotten, warned, evicted>>
    BY <1>1 DEF ClientSetup, LifecycleFail, PostStreamTimeout
  <2>2. phase # "returned" /\ (UNCHANGED result \/ result'.outcome = "err")
    BY <1>1 DEF ClientSetup, LifecycleFail, PostStreamTimeout, Return, ReturnWith
  <2> QED BY <2>1, <2>2
<1>2. CASE LifecycleOk
  <2>1. UNCHANGED <<published, upClosed, landed, forgotten, warned, evicted>> /\ phase = "lifecycle"
    BY <1>2 DEF LifecycleOk
  <2>2. UNCHANGED result \/ (call = 4 /\ Return("ok"))
    BY <1>2 DEF LifecycleOk
  <2> QED BY <2>1, <2>2
<1>3. CASE PreloadFromUpstream \/ SelectEvent
  <2>1. UNCHANGED <<published, upClosed, landed, warned, result>> /\ Take
    BY <1>3 DEF PreloadFromUpstream, SelectEvent
  <2>2. forgotten \subseteq forgotten' /\ (evicted' > 0 => evicted > 0 \/ forgotten' # {})
    BY <2>1, TakeForgets DEF IInv
  <2> QED BY <2>1, <2>2
<1>4. CASE PreloadFromBuffer \/ PreloadNothing \/ ReplayStep \/ ReplayFail \/ ReplayEnd
           \/ SendOk \/ SendFail
  <2>1. UNCHANGED <<published, upClosed, landed, forgotten, warned, evicted, result>>
    BY <1>4 DEF PreloadFromBuffer, PreloadNothing, ReplayStep, ReplayNext, ReplayFail, ReplayEnd,
                SendOk, SendFail
  <2> QED BY <2>1
<1>5. CASE OpenOk
  <2>1. /\ UNCHANGED <<published, upClosed, landed, forgotten, result>> /\ evicted' = 0
        /\ warned' => warned \/ evicted > 0
    BY <1>5 DEF OpenOk, TakeEvicted
  <2> QED BY <2>1
<1>6. CASE DrainAck \/ SelectAck
  <2>1. UNCHANGED <<published, upClosed, landed, warned, forgotten, evicted>>
    BY <1>6 DEF DrainAck, SelectAck, RecordAck, PruneUntil
  <2>2. UNCHANGED result
    BY <1>6 DEF DrainAck, SelectAck, Finish
  <2> QED BY <2>1, <2>2
<1>7. CASE SelectUpstreamEnd \/ SelectEnd \/ HalfCloseDeadline \/ AckDeadline \/ DrainEnd
           \/ \E r \in BOOLEAN : OpenFail(r)
  <2>1. UNCHANGED <<published, upClosed, landed, warned, forgotten, evicted>> /\ phase # "returned"
    BY <1>7 DEF SelectUpstreamEnd, SelectEnd, HalfCloseDeadline, AckDeadline, DrainEnd, OpenFail
  <2>2. UNCHANGED result \/ GiveUp
    BY <1>7 DEF SelectUpstreamEnd, SelectEnd, HalfCloseDeadline, AckDeadline, DrainEnd, OpenFail,
                Finish, Refuse, Transient
  <2>3. GiveUp => result'.outcome = "err"
    BY GivingUpFails
  <2> QED BY <2>1, <2>2, <2>3
<1> QED BY <1>1, <1>2, <1>3, <1>4, <1>5, <1>6, <1>7 DEF Sink

\* What the server reads next is the first event it does not have, or one it has.
LEMMA ReadsInOrder ==
  ASSUME IInv, LossInv, PrefixStored, ServerRead, forgotten = {}
  PROVE  \/ landed' = landed
         \/ \E n \in 1..published : landed = 1..(n - 1) /\ landed' = 1..n
<1>1. PICK k \in Nat : landed = 1..k
  BY DEF PrefixStored
<1>3. /\ wire \in Seq(1..(next - 1)) /\ wire # <<>> /\ srvEnd = "open"
      /\ landed' = landed \cup {wire[1]} /\ next \in 1..(published + 1) /\ published \in Nat
  BY DEF ServerRead, IInv, RestOK
<1> DEFINE m == wire[1]
<1>4. Len(wire) \in Nat \ {0} /\ m \in 1..(next - 1) /\ \A i \in 1..Len(wire) : wire[i] \in Nat
  BY <1>3
<1>5. \A n \in 1..(m - 1) : n \in landed
  <2> SUFFICES ASSUME NEW n \in 1..(m - 1) PROVE n \in landed
    OBVIOUS
  <2>1. n \in 1..m /\ n < m
    BY <1>3, <1>4
  <2>2. ~warned /\ ~ToldOnceOpen
    BY DEF PrefixStored, ToldOnceOpen
  <2>3. Known(n) \/ OnWire(n)
    <3>1. 1 \in 1..Len(wire) /\ n \in 1..wire[1]
      BY <1>4, <2>1
    <3>2. Known(n) \/ ToldOnceOpen \/ OnWire(n)
      BY <1>3, <3>1 DEF LossInv, WireHasNoGaps
    <3> QED BY <2>2, <3>2
  <2>4. ~OnWire(n)
    <3>1. \A i \in 1..Len(wire) : i = 1 \/ (1 < i /\ 1 \in 1..Len(wire))
      BY <1>4
    <3>2. \A i \in 1..Len(wire) : wire[i] >= m
      BY <1>4, <3>1 DEF IInv, WireInOrder
    <3> QED BY <1>4, <2>1, <3>2 DEF OnWire
  <2> QED BY <2>2, <2>3, <2>4 DEF Known
<1>6. m <= k + 1
  <2>1. CASE m = 1
    BY <2>1
  <2>2. CASE m > 1
    <3>1. m - 1 \in 1..(m - 1)
      BY <1>3, <1>4, <2>2
    <3>2. m - 1 \in 1..k
      BY <1>1, <1>5, <3>1
    <3> QED BY <1>3, <1>4, <3>2
  <2> QED BY <1>3, <1>4, <2>1, <2>2
<1> HIDE DEF m
<1>7. CASE m <= k
  BY <1>1, <1>3, <1>4, <1>7 DEF m
<1>8. CASE m = k + 1
  <2>1. 1..k \cup {k + 1} = 1..(k + 1)
    OBVIOUS
  <2>2. k + 1 \in 1..published /\ (k + 1) - 1 = k
    BY <1>3, <1>4, <1>8
  <2>3. landed' = 1..(k + 1)
    BY <1>1, <1>3, <1>8, <2>1 DEF m
  <2> QED BY <1>1, <2>2, <2>3
<1>9. m <= k \/ m = k + 1
  BY <1>3, <1>4, <1>6
<1> QED BY <1>7, <1>8, <1>9

\* An Ok comes when the server has everything, up to the last event or to the end.
LEMMA OkIsReported ==
  ASSUME IInv, LossInv, AllTaken, PrefixStored, forgotten = {}, phase = "lifecycle", call = 4
  PROVE  LastAt \cap landed # {} \/ (upClosed /\ landed = 1..published)
<1>1. items = <<>> /\ Complete /\ next \in 1..(published + 1) /\ published \in Nat
      /\ maxAcked \in 0..(next - 1) /\ landed \subseteq 1..(next - 1)
  BY DEF IInv, DoneMeansEmpty, AllTaken, StreamIsComplete, RestOK
<1>2. maxAcked = next - 1
  <2>1. Items = {}
    BY <1>1 DEF Items
  <2>2. \A n \in (maxAcked + 1)..(next - 1) : FALSE
    BY <2>1 DEF IInv, UnackedIsReplayable
  <2>3. CASE maxAcked < next - 1
    BY <1>1, <2>2, <2>3
  <2> QED BY <1>1, <2>3
<1>3. landed = 1..(next - 1)
  <2>1. ~warned
    BY DEF PrefixStored
  <2>2. \A n \in 1..(next - 1) : n \in landed
    BY <1>2, <2>1 DEF LossInv, AckedIsKnown, Known
  <2> QED BY <1>1, <2>2
<1>4. CASE lastSent
  <2>1. next - 1 \in LastAt /\ next - 1 \in 1..(next - 1)
    <3>1. next - 1 \in LastAt
      BY <1>4 DEF AllTaken, StreamIsComplete
    <3>2. next - 1 \in 1..Len(Size)
      BY <3>1, GrpcSinkAssumption, RetryBufferAssumption
    <3> QED BY <1>1, <3>1, <3>2
  <2> QED BY <1>3, <2>1
<1>5. CASE upClosed /\ next = published + 1
  BY <1>1, <1>3, <1>5
<1> QED BY <1>1, <1>4, <1>5 DEF Complete

\* One step of the sink and its surroundings is one of the upload, or none.
LEMMA StepUploads ==
  ASSUME IInv, LossInv, AllTaken, PrefixStored, Next
  PROVE  /\ PrefixStored'
         /\ (forgotten' = {} => Upload!UploadNext) \/ UNCHANGED Upload!uvars
<1> USE DEF Upload!uvars, Upload!UploadNext, Upload!Produce, Upload!CloseUpload, Upload!Store,
            Upload!Report, Upload!Complete
<1>1. CASE Sink
  <2>1. /\ UNCHANGED <<published, upClosed, landed>>
        /\ forgotten \subseteq forgotten'
        /\ warned' \/ evicted' > 0 => forgotten' # {}
        /\ \/ UNCHANGED result
           \/ result'.outcome = "err" /\ phase # "returned"
           \/ phase = "lifecycle" /\ call = 4 /\ Return("ok") /\ UNCHANGED forgotten
    BY <1>1, SinkReports
  <2>2. PrefixStored'
    BY <2>1 DEF PrefixStored
  <2>3. CASE UNCHANGED result
    BY <2>1, <2>2, <2>3
  <2>4. phase # "returned" => result.outcome = "running"
    BY DEF IInv, DoneMeansEmpty
  <2>5. CASE result'.outcome = "err" /\ phase # "returned"
    BY <2>1, <2>2, <2>4, <2>5
  <2>6. CASE phase = "lifecycle" /\ call = 4 /\ Return("ok") /\ UNCHANGED forgotten
    <3>1. result'.outcome = "ok"
      BY <2>6 DEF Return, ReturnWith
    <3> QED BY <2>1, <2>2, <2>4, <2>6, <3>1, OkIsReported
  <2> QED BY <2>1, <2>3, <2>5, <2>6
<1>2. CASE Publish \/ CloseUpstream
  <2>1. PrefixStored'
    BY <1>2 DEF Publish, CloseUpstream, PrefixStored, bufferVars
  <2>2. CASE Publish
    BY <2>1, <2>2 DEF Publish
  <2>3. CASE CloseUpstream
    BY <2>1, <2>3 DEF CloseUpstream
  <2> QED BY <1>2, <2>2, <2>3
<1>3. CASE ServerRead
  <2>1. UNCHANGED <<published, upClosed, result, forgotten, evicted, warned>>
    BY <1>3 DEF ServerRead, bufferVars, upVars
  <2>2. CASE forgotten = {}
    <3>1. landed' = landed \/ \E n \in 1..published : landed = 1..(n - 1) /\ landed' = 1..n
      BY <1>3, <2>2, ReadsInOrder
    <3>2. PrefixStored'
      BY <2>1, <3>1 DEF PrefixStored
    <3> QED BY <2>1, <3>1, <3>2
  <2>3. CASE forgotten # {}
    BY <2>1, <2>3 DEF PrefixStored
  <2> QED BY <2>2, <2>3
<1>4. CASE ServerAck \/ ConnectionLost \/ \E how \in {"closed", "retryable", "fatal"} : ServerEnds(how)
  BY <1>4 DEF ServerAck, ConnectionLost, ServerEnds, PrefixStored, bufferVars, upVars
<1> QED BY <1>1, <1>2, <1>3, <1>4 DEF Next, Environment

\* Until something is evicted the sink is an in-order upload: whatever breaks, the
\* server's events have no gap and no reordering, and Ok is only said over all of them.
THEOREM Refinement == Spec => ImplementsUpload
<1>1. Init => Upload!UploadInit /\ PrefixStored
  <2>1. 1..0 = {}
    OBVIOUS
  <2> QED BY <2>1 DEF Init, BufferInit, Upload!UploadInit, PrefixStored
<1>2. ASSUME IInv, LossInv, AllTaken, PrefixStored, [Next]_vars
      PROVE  PrefixStored' /\ [forgotten' = {} => Upload!UploadNext]_Upload!uvars
  <2>1. CASE UNCHANGED vars
    BY <1>2, <2>1 DEF vars, PrefixStored, Upload!uvars, bufferVars, upVars
  <2> QED BY <1>2, <2>1, StepUploads
<1> QED BY Invariance, LossInvariance, TakenInvariance, <1>1, <1>2, PTL DEF Spec, ImplementsUpload
=============================================================================
