-------------------------- MODULE BroadcasterProofs --------------------------
(***************************************************************************)
(* The broadcaster's invariants, for any set of consumers, kinds and       *)
(* clones and any number of sends, and the refinement of Fanout.           *)
(*                                                                         *)
(* What a consumer is owed is not inductive on its own: that it survives a *)
(* send needs the sender to be there whenever an event can still be sent   *)
(* (SenderThere), and that it survives the end of the stream needs the log *)
(* to be frozen once senders are gone (NoSendersAtTheEnd).                 *)
(***************************************************************************)
EXTENDS Broadcaster, TLAPS

NoSendersAtTheEnd == closed \/ handles = {} => subscribers = {}

SenderThere ==
  \A s \in Subs : rx[s] \in {"open", "ended"} /\ s \notin subscribers
                    => closed \/ handles = {}

OnlyOpenBuffers == \A s \in Subs : rx[s] # "open" => buffer[s] = <<>>

EndedHasNoSender == \A s \in Subs : rx[s] \in {"none", "ended"} => s \notin subscribers

IInv ==
  /\ TypeOK
  /\ NoSendersAtTheEnd
  /\ SenderThere
  /\ OnlyOpenBuffers
  /\ EndedHasNoSender
  /\ BufferIsWhatIsOwed
  /\ EndMeansDrained

-----------------------------------------------------------------------------
\* What is held and owed is a matter of the log and of the consumer's own state.
LEMMA Untouched ==
  ASSUME NEW s \in Subs, log' = log, filter'[s] = filter[s],
         at'[s] = at[s], buffer'[s] = buffer[s]
  PROVE  Held(s)' = Held(s) /\ Owed(s)' = Owed(s)
BY DEF Held, Owed, Accepted

\* A send appends the new position to the channels of the retained consumers
\* that accept it, and by NoSendersAtTheEnd there are none once it is closed.
LEMMA SendPreserves ==
  ASSUME IInv, NEW k \in Kinds, Send(k)
  PROVE  IInv'
<1> USE DEF IInv
<1>1. TypeOK'
  BY DEF TypeOK, Send, Retained
<1>2. NoSendersAtTheEnd'
  BY DEF NoSendersAtTheEnd, Send, Retained
<1>3. SenderThere'
  BY DEF SenderThere, EndedHasNoSender, Send, Retained, TokenAlive
<1>4. OnlyOpenBuffers'
  BY DEF OnlyOpenBuffers, Send, Retained, TypeOK
<1>5. EndedHasNoSender'
  BY DEF EndedHasNoSender, Send, Retained, TypeOK
<1>6. BufferIsWhatIsOwed'
  <2> SUFFICES ASSUME NEW s \in Subs, rx'[s] = "open"
               PROVE  /\ Held(s)' = Owed(s)'
                      /\ \A i, j \in 1..Len(buffer'[s]) : i < j => buffer'[s][i] < buffer'[s][j]
    BY DEF BufferIsWhatIsOwed
  <2>0. /\ rx[s] = "open" /\ at'[s] = at[s] /\ filter' = filter
        /\ buffer[s] \in Seq(Nat) /\ log \in Seq(Kinds) /\ at[s] \in Nat
        /\ at[s] <= Len(log)
    BY DEF Send, TypeOK
  <2>1. /\ Held(s) = Owed(s)
        /\ \A i, j \in 1..Len(buffer[s]) : i < j => buffer[s][i] < buffer[s][j]
    BY <2>0 DEF BufferIsWhatIsOwed
  <2>2. \A i \in 1..Len(buffer[s]) : buffer[s][i] \in (at[s] + 1)..Len(log)
    BY <2>1 DEF Held, Owed
  <2>3. CASE closed
    BY <2>0, <2>1, <2>3 DEF NoSendersAtTheEnd, Send, Retained, Held, Owed, Accepted, TypeOK
  <2>4. CASE ~closed
    <3>1. s \in subscribers
      BY <2>0, <2>4 DEF SenderThere, Send
    <3>2. s \in Retained(k)
      BY <2>0, <3>1 DEF Retained, TokenAlive
    <3>3. log' = Append(log, k)
      BY <2>4 DEF Send
    <3>4. CASE k \in filter[s]
      <4>1. buffer'[s] = Append(buffer[s], Len(log) + 1)
        BY <3>2, <3>4 DEF Send
      <4>5. /\ Len(buffer[s]) \in Nat /\ Len(buffer'[s]) = Len(buffer[s]) + 1
            /\ buffer'[s][Len(buffer[s]) + 1] = Len(log) + 1
            /\ \A i \in 1..Len(buffer[s]) : buffer'[s][i] = buffer[s][i]
        BY <2>0, <4>1
      <4>6. 1..Len(buffer'[s]) = 1..Len(buffer[s]) \cup {Len(buffer[s]) + 1}
        BY <4>5
      <4>2. \A i, j \in 1..Len(buffer'[s]) : i < j => buffer'[s][i] < buffer'[s][j]
        <5> SUFFICES ASSUME NEW i \in 1..Len(buffer'[s]), NEW j \in 1..Len(buffer'[s]), i < j
                     PROVE  buffer'[s][i] < buffer'[s][j]
          OBVIOUS
        <5>1. i \in 1..Len(buffer[s])
          BY <4>5
        <5>2. CASE j \in 1..Len(buffer[s])
          BY <2>1, <4>5, <5>1, <5>2
        <5>3. CASE j = Len(buffer[s]) + 1
          <6>1. buffer'[s][i] = buffer[s][i] /\ buffer'[s][j] = Len(log) + 1
            BY <4>5, <5>1, <5>3
          <6>2. buffer[s][i] \in (at[s] + 1)..Len(log)
            BY <2>2, <5>1
          <6> QED BY <2>0, <6>1, <6>2
        <5> QED BY <4>6, <5>2, <5>3
      <4>3. Held(s)' = Held(s) \cup {Len(log) + 1}
        BY <4>5, <4>6 DEF Held
      <4>4. Owed(s)' = Owed(s) \cup {Len(log) + 1}
        BY <2>0, <3>3, <3>4 DEF Owed, Accepted
      <4> QED BY <2>1, <4>2, <4>3, <4>4
    <3>5. CASE k \notin filter[s]
      <4>1. buffer'[s] = buffer[s]
        BY <3>5, <2>0 DEF Send
      <4>2. Owed(s)' = Owed(s)
        BY <2>0, <3>3, <3>5 DEF Owed, Accepted
      <4> QED BY <2>1, <4>1, <4>2 DEF Held
    <3> QED BY <3>4, <3>5
  <2> QED BY <2>3, <2>4
<1>7. EndMeansDrained'
  <2> SUFFICES ASSUME NEW s \in Subs, rx'[s] = "ended" PROVE Owed(s)' = {}
    BY DEF EndMeansDrained
  <2>1. rx[s] = "ended" /\ s \notin subscribers /\ handles # {}
    BY DEF Send, EndedHasNoSender
  <2>2. closed
    BY <2>1 DEF SenderThere
  <2>3. log' = log /\ at' = at /\ filter' = filter
    BY <2>2 DEF Send
  <2> QED BY <2>1, <2>3 DEF EndMeansDrained, Owed, Accepted
<1> QED BY <1>1, <1>2, <1>3, <1>4, <1>5, <1>6, <1>7

LEMMA SubscribePreserves ==
  ASSUME IInv, NEW s \in Subs, NEW f \in SUBSET Kinds, SubscribeFiltered(s, f)
  PROVE  IInv'
<1> USE DEF IInv
<1>1. TypeOK'
  BY DEF TypeOK, SubscribeFiltered, RxStates
<1>2. NoSendersAtTheEnd'
  BY DEF NoSendersAtTheEnd, SubscribeFiltered
<1>3. SenderThere'
  BY DEF SenderThere, SubscribeFiltered, TypeOK
<1>4. OnlyOpenBuffers'
  BY DEF OnlyOpenBuffers, SubscribeFiltered, TypeOK
<1>5. EndedHasNoSender'
  BY DEF EndedHasNoSender, SubscribeFiltered, TypeOK
<1>6. BufferIsWhatIsOwed'
  <2> SUFFICES ASSUME NEW r \in Subs, rx'[r] = "open"
               PROVE  /\ Held(r)' = Owed(r)'
                      /\ \A i, j \in 1..Len(buffer'[r]) : i < j => buffer'[r][i] < buffer'[r][j]
    BY DEF BufferIsWhatIsOwed
  <2>1. CASE r = s
    BY <2>1 DEF SubscribeFiltered, OnlyOpenBuffers, Held, Owed, TypeOK
  <2>2. CASE r # s
    <3>1. /\ rx[r] = "open" /\ log' = log /\ filter'[r] = filter[r]
          /\ at'[r] = at[r] /\ buffer'[r] = buffer[r]
      BY <2>2 DEF SubscribeFiltered, TypeOK
    <3> QED BY <3>1, Untouched DEF BufferIsWhatIsOwed
  <2> QED BY <2>1, <2>2
<1>7. EndMeansDrained'
  BY DEF EndMeansDrained, SubscribeFiltered, Owed, Accepted, TypeOK
<1> QED BY <1>1, <1>2, <1>3, <1>4, <1>5, <1>6, <1>7

\* close() and the drop of the last clone only take senders away, and only when
\* the log they freeze is the log the consumers were served from.
LEMMA SendersGoPreserves ==
  ASSUME IInv, Close \/ \E h \in Handles : DropHandle(h)
  PROVE  IInv'
<1> USE DEF IInv
<1>0. UNCHANGED <<filter, buffer, rx, log, at>>
  BY DEF Close, DropHandle
<1>1. TypeOK'
  BY DEF TypeOK, Close, DropHandle
<1>2. NoSendersAtTheEnd' /\ SenderThere' /\ EndedHasNoSender'
  BY DEF NoSendersAtTheEnd, SenderThere, EndedHasNoSender, Close, DropHandle
<1>3. OnlyOpenBuffers' /\ BufferIsWhatIsOwed' /\ EndMeansDrained'
  BY <1>0 DEF OnlyOpenBuffers, BufferIsWhatIsOwed, EndMeansDrained, Held, Owed, Accepted
<1> QED BY <1>1, <1>2, <1>3

LEMMA RecvPreserves ==
  ASSUME IInv, NEW s \in Subs, Recv(s)
  PROVE  IInv'
<1> USE DEF IInv
<1>0. /\ buffer[s] \in Seq(Nat) /\ buffer[s] # <<>> /\ at[s] \in Nat /\ rx[s] = "open"
      /\ at'[s] = Head(buffer[s]) /\ buffer'[s] = Tail(buffer[s])
      /\ log' = log /\ filter' = filter /\ rx' = rx /\ log \in Seq(Kinds)
      /\ at \in [Subs -> Nat] /\ buffer \in [Subs -> Seq(Nat)]
  BY DEF Recv, TypeOK
<1>1. /\ Held(s) = Owed(s)
      /\ \A i, j \in 1..Len(buffer[s]) : i < j => buffer[s][i] < buffer[s][j]
  BY <1>0 DEF BufferIsWhatIsOwed
<1>2. Head(buffer[s]) \in (at[s] + 1)..Len(log)
  BY <1>0, <1>1 DEF Held, Owed
<1>3. TypeOK'
  BY <1>0, <1>2 DEF TypeOK, Recv
<1>4. NoSendersAtTheEnd' /\ SenderThere' /\ EndedHasNoSender' /\ OnlyOpenBuffers'
  BY <1>0 DEF NoSendersAtTheEnd, SenderThere, EndedHasNoSender, OnlyOpenBuffers, Recv
<1>5. BufferIsWhatIsOwed'
  <2> SUFFICES ASSUME NEW r \in Subs, rx'[r] = "open"
               PROVE  /\ Held(r)' = Owed(r)'
                      /\ \A i, j \in 1..Len(buffer'[r]) : i < j => buffer'[r][i] < buffer'[r][j]
    BY DEF BufferIsWhatIsOwed
  <2>1. CASE r # s
    BY <2>1, <1>0 DEF Recv, BufferIsWhatIsOwed, Held, Owed, Accepted, TypeOK
  <2>2. CASE r = s
    <3>1. \A i \in 1..Len(Tail(buffer[s])) : Tail(buffer[s])[i] = buffer[s][i + 1]
      BY <1>0
    <3>2. Len(Tail(buffer[s])) = Len(buffer[s]) - 1 /\ Head(buffer[s]) = buffer[s][1]
      BY <1>0
    <3>3. \A i, j \in 1..Len(buffer'[s]) : i < j => buffer'[s][i] < buffer'[s][j]
      <4> SUFFICES ASSUME NEW i \in 1..Len(buffer'[s]), NEW j \in 1..Len(buffer'[s]), i < j
                   PROVE  buffer'[s][i] < buffer'[s][j]
        OBVIOUS
      <4>0. buffer'[s] = Tail(buffer[s]) /\ Len(buffer[s]) \in Nat
        BY <1>0
      <4>1. /\ i + 1 \in 1..Len(buffer[s]) /\ j + 1 \in 1..Len(buffer[s]) /\ i + 1 < j + 1
            /\ i \in 1..Len(Tail(buffer[s])) /\ j \in 1..Len(Tail(buffer[s]))
        BY <3>2, <4>0
      <4>2. buffer[s][i + 1] < buffer[s][j + 1]
        BY <4>1, <1>1
      <4> QED BY <4>1, <4>2, <3>1, <1>0
    <3>4. Owed(s)' = {e \in Owed(s) : e > Head(buffer[s])}
      BY <1>0, <1>2 DEF Owed, Accepted
    <3>5. \A i \in 1..Len(buffer[s]) : buffer[s][i] > Head(buffer[s]) <=> i > 1
      BY <1>0, <1>1, <3>2
    <3>6. Held(s)' = {e \in Held(s) : e > Head(buffer[s])}
      <4>1. ASSUME NEW e \in Held(s)' PROVE e \in Held(s) /\ e > Head(buffer[s])
        <5>1. PICK i \in 1..(Len(buffer[s]) - 1) : e = buffer[s][i + 1]
          BY <4>1, <1>0, <3>1, <3>2 DEF Held
        <5> QED BY <5>1, <3>5, <1>0 DEF Held
      <4>2. ASSUME NEW e \in Held(s), e > Head(buffer[s]) PROVE e \in Held(s)'
        <5>1. PICK i \in 1..Len(buffer[s]) : e = buffer[s][i]
          BY DEF Held
        <5>2. i > 1
          BY <5>1, <4>2, <3>5
        <5>3. i - 1 \in 1..Len(Tail(buffer[s])) /\ (i - 1) + 1 = i
          BY <5>2, <3>2, <1>0
        <5>4. e = Tail(buffer[s])[i - 1]
          BY <5>1, <5>3, <3>1
        <5> QED BY <5>3, <5>4, <1>0 DEF Held
      <4> QED BY <4>1, <4>2
    <3> QED BY <2>2, <3>3, <3>4, <3>6, <1>1
  <2> QED BY <2>1, <2>2
<1>6. EndMeansDrained'
  BY <1>0 DEF EndMeansDrained, Recv, Owed, Accepted, TypeOK
<1> QED BY <1>3, <1>4, <1>5, <1>6

LEMMA RecvEndPreserves ==
  ASSUME IInv, NEW s \in Subs, RecvEnd(s)
  PROVE  IInv'
<1> USE DEF IInv
<1>0. UNCHANGED <<subscribers, filter, closed, handles, buffer, log, at>>
  BY DEF RecvEnd
<1>1. TypeOK'
  BY DEF TypeOK, RecvEnd, RxStates
<1>2. NoSendersAtTheEnd' /\ SenderThere' /\ EndedHasNoSender' /\ OnlyOpenBuffers'
  BY DEF NoSendersAtTheEnd, SenderThere, EndedHasNoSender, OnlyOpenBuffers, RecvEnd, TypeOK
<1>3. BufferIsWhatIsOwed'
  BY DEF BufferIsWhatIsOwed, RecvEnd, Held, Owed, Accepted, TypeOK
<1>4. EndMeansDrained'
  <2> SUFFICES ASSUME NEW r \in Subs, rx'[r] = "ended" PROVE Owed(r) = {}
    BY <1>0 DEF EndMeansDrained, Owed, Accepted
  <2>1. CASE r = s
    BY <2>1 DEF BufferIsWhatIsOwed, RecvEnd, Held
  <2>2. CASE r # s
    BY <2>2 DEF EndMeansDrained, RecvEnd, TypeOK
  <2> QED BY <2>1, <2>2
<1> QED BY <1>1, <1>2, <1>3, <1>4

LEMMA DropPreserves ==
  ASSUME IInv, NEW s \in Subs, DropReceiver(s) \/ DropToken(s)
  PROVE  IInv'
<1> USE DEF IInv
<1>0. /\ UNCHANGED <<subscribers, filter, closed, handles, log, at>>
      /\ rx' \in [Subs -> RxStates]
      /\ rx'[s] \in {"tokenOnly", "dropped"}
      /\ buffer' \in [Subs -> Seq(Nat)]
      /\ buffer'[s] = <<>>
      /\ \A r \in Subs \ {s} : rx'[r] = rx[r] /\ buffer'[r] = buffer[r]
  <2>1. CASE DropReceiver(s)
    BY <2>1 DEF DropReceiver, TypeOK, RxStates
  <2>2. CASE DropToken(s)
    BY <2>2 DEF DropToken, TypeOK, RxStates, OnlyOpenBuffers
  <2> QED BY <2>1, <2>2
<1>1. TypeOK'
  BY <1>0 DEF TypeOK
<1>2. NoSendersAtTheEnd' /\ SenderThere' /\ EndedHasNoSender' /\ OnlyOpenBuffers'
  BY <1>0 DEF NoSendersAtTheEnd, SenderThere, EndedHasNoSender, OnlyOpenBuffers
<1>3. \A r \in Subs \ {s} : Held(r)' = Held(r) /\ Owed(r)' = Owed(r)
  BY <1>0, Untouched
<1>4. BufferIsWhatIsOwed' /\ EndMeansDrained'
  BY <1>0, <1>3 DEF BufferIsWhatIsOwed, EndMeansDrained
<1> QED BY <1>1, <1>2, <1>4

-----------------------------------------------------------------------------
LEMMA InitIInv == Init => IInv
<1> SUFFICES ASSUME Init PROVE IInv
  OBVIOUS
<1>1. TypeOK
  <2>1. Len(<<>>) = 0 /\ <<>> \in Seq(Kinds) /\ <<>> \in Seq(Nat)
    OBVIOUS
  <2>2. log = <<>> /\ Len(log) = 0 /\ log \in Seq(Kinds) /\ buffer \in [Subs -> Seq(Nat)]
    BY <2>1 DEF Init
  <2>3. filter \in [Subs -> SUBSET Kinds] /\ rx \in [Subs -> RxStates] /\ at \in [Subs -> Nat]
    BY DEF Init, RxStates
  <2>4. \A s \in Subs : at[s] <= Len(log)
    <3>1. \A s \in Subs : at[s] = 0
      BY DEF Init
    <3>2. \A s \in Subs : 0 <= Len(log)
      BY <2>2
    <3> QED BY <3>1, <3>2
  <2> QED BY <2>2, <2>3, <2>4 DEF Init, TypeOK
<1>2. NoSendersAtTheEnd /\ SenderThere /\ OnlyOpenBuffers /\ EndedHasNoSender
  BY BroadcasterAssumption
  DEF Init, NoSendersAtTheEnd, SenderThere, OnlyOpenBuffers, EndedHasNoSender
<1>3. BufferIsWhatIsOwed /\ EndMeansDrained
  BY DEF Init, BufferIsWhatIsOwed, EndMeansDrained
<1> QED BY <1>1, <1>2, <1>3 DEF IInv

LEMMA StutterPreserves == IInv /\ UNCHANGED vars => IInv'
BY DEF vars, IInv, TypeOK, NoSendersAtTheEnd, SenderThere, OnlyOpenBuffers,
       EndedHasNoSender, BufferIsWhatIsOwed, EndMeansDrained, Held, Owed, Accepted

\* The inductive invariant of the broadcaster.
THEOREM Invariance == Spec => []IInv
<1>1. ASSUME IInv, [Next]_vars PROVE IInv'
  <2>1. CASE UNCHANGED vars
    BY <1>1, <2>1, StutterPreserves
  <2>2. CASE Next
    BY <1>1, <2>2, SendPreserves, SubscribePreserves, SendersGoPreserves,
       RecvPreserves, RecvEndPreserves, DropPreserves DEF Next
  <2> QED BY <1>1, <2>1, <2>2
<1> QED BY InitIInv, <1>1, PTL DEF Spec

\* Whatever is sent, pruned, closed or dropped, an open consumer's channel holds
\* exactly the accepted events sent since it joined that it has not consumed, in
\* order.
THEOREM ChannelsHoldWhatIsOwed == Spec => []ChannelsSound
<1>1. IInv => ChannelsSound
  BY DEF IInv, ChannelsSound
<1> QED BY Invariance, <1>1, PTL

\* recv reports the end only to a consumer that got everything.
THEOREM EndIsNotEarly == Spec => []EndIsInOrder
<1>1. IInv => EndIsInOrder
  BY DEF IInv, SenderThere, EndIsInOrder, NeverCutOff
<1> QED BY Invariance, <1>1, PTL

-----------------------------------------------------------------------------
\* Each step of the broadcaster is a step of the fan-out, or one it does not see.
LEMMA StepRefines ==
  ASSUME IInv, Next
  PROVE  [Abstract!FanoutNext]_(Abstract!fvars)
<1> USE DEF Abstract!fvars
<1>1. ASSUME NEW k \in Kinds, Send(k)
      PROVE  Abstract!Publish(k) \/ UNCHANGED Abstract!fvars
  BY <1>1 DEF Send, Abstract!Publish
<1>2. ASSUME Close \/ \E h \in Handles : DropHandle(h)
      PROVE  Abstract!Finish \/ UNCHANGED Abstract!fvars
  <2>1. UNCHANGED <<log, filter, at, rx>>
    BY <1>2 DEF Close, DropHandle
  <2>2. (closed' \/ handles' = {}) \/ (closed' = closed /\ handles # {} /\ handles' # {})
    BY <1>2 DEF Close, DropHandle
  <2> QED BY <2>1, <2>2 DEF Abstract!Finish
<1>3. ASSUME NEW s \in Subs, NEW f \in SUBSET Kinds, SubscribeFiltered(s, f)
      PROVE  Abstract!Join(s, f)
  BY <1>3 DEF SubscribeFiltered, Abstract!Join, IInv, TypeOK, RxStates, ModeOf
<1>4. ASSUME NEW s \in Subs, Recv(s)
      PROVE  \E e \in Abstract!Wanted(s) : Abstract!Serve(s, e)
  <2>1. /\ rx[s] = "open" /\ buffer[s] \in Seq(Nat) /\ buffer[s] # <<>>
        /\ at' = [at EXCEPT ![s] = Head(buffer[s])]
        /\ UNCHANGED <<closed, handles, log, filter, rx>>
    BY <1>4 DEF Recv, IInv, TypeOK
  <2>2. Abstract!Wanted(s) = Held(s)
    BY <2>1 DEF IInv, BufferIsWhatIsOwed, Owed, Accepted, Abstract!Wanted
  <2>3. Head(buffer[s]) = buffer[s][1] /\ 1 \in 1..Len(buffer[s])
    BY <2>1
  <2>4. \A i \in 1..Len(buffer[s]) : buffer[s][1] <= buffer[s][i]
    BY <2>1, <2>3 DEF IInv, BufferIsWhatIsOwed
  <2>5. Head(buffer[s]) \in Held(s) /\ \A d \in Held(s) : Head(buffer[s]) <= d
    BY <2>3, <2>4 DEF Held
  <2> QED BY <2>1, <2>2, <2>5 DEF Abstract!Serve, ModeOf
<1>5. ASSUME NEW s \in Subs, RecvEnd(s)
      PROVE  Abstract!End(s)
  <2>1. Abstract!Wanted(s) = {}
    BY <1>5 DEF RecvEnd, IInv, BufferIsWhatIsOwed, Held, Owed, Accepted, Abstract!Wanted
  <2>2. closed \/ handles = {}
    BY <1>5 DEF RecvEnd, IInv, SenderThere
  <2> QED BY <1>5, <2>1, <2>2 DEF RecvEnd, Abstract!End, ModeOf, IInv, TypeOK, RxStates
<1>6. ASSUME NEW s \in Subs, DropReceiver(s)
      PROVE  Abstract!Leave(s)
  BY <1>6 DEF DropReceiver, Abstract!Leave, ModeOf, IInv, TypeOK, RxStates
<1>7. ASSUME NEW s \in Subs, DropToken(s)
      PROVE  UNCHANGED Abstract!fvars
  BY <1>7 DEF DropToken, ModeOf, IInv, TypeOK, RxStates
<1> QED BY <1>1, <1>2, <1>3, <1>4, <1>5, <1>6, <1>7 DEF Next, Abstract!FanoutNext

\* A reader of the broadcaster cannot tell it from a shared log with a place of
\* its own: the broadcaster implements the fan-out.
THEOREM Refinement == Spec => ImplementsFanout
<1>1. Init => Abstract!FanoutInit
  BY BroadcasterAssumption DEF Init, Abstract!FanoutInit, ModeOf
<1>2. IInv /\ [Next]_vars => [Abstract!FanoutNext]_(Abstract!fvars)
  <2>1. UNCHANGED vars => UNCHANGED Abstract!fvars
    BY DEF vars, Abstract!fvars
  <2> QED BY <2>1, StepRefines
<1> QED BY <1>1, <1>2, Invariance, PTL DEF Spec, ImplementsFanout, Abstract!FanoutSpec

\* A send asks for the token before the filter: no subscription of a dropped
\* subscriber outlives it (broadcaster.rs:430).
THEOREM SendsPruneTheDead == Spec => SendPrunesTheDead
<1>1. ASSUME NEW k \in Kinds, Send(k) PROVE \A s \in subscribers' : rx[s] # "dropped"
  BY <1>1 DEF Send, Retained, TokenAlive
<1>2. (\E k \in Kinds : Send(k)) => \A s \in subscribers' : rx[s] # "dropped" BY <1>1
<1>3. [(\E k \in Kinds : Send(k)) => \A s \in subscribers' : rx[s] # "dropped"]_vars BY <1>2
<1> QED BY <1>3, PTL DEF SendPrunesTheDead
=============================================================================
