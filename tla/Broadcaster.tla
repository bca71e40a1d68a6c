----------------------------- MODULE Broadcaster -----------------------------
(***************************************************************************)
(* The fan-out of build events: Broadcaster<T> of                          *)
(* crates/axl-runtime/src/engine/bazel/stream/broadcaster.rs.              *)
(*                                                                         *)
(* Every method of the broadcaster runs under one mutex, so each is one    *)
(* action.  What happens outside the mutex is a step of its own: a         *)
(* consumer taking an event from its channel, and the two drops that make  *)
(* up the drop of a Subscriber (field order: first the receiver, then the  *)
(* liveness token the broadcaster watches).                                *)
(*                                                                         *)
(* An event is identified by its place in `log`, the history of the events *)
(* a send accepted while the broadcaster was open; the log gives its kind, *)
(* which is all a filter looks at.                                         *)
(***************************************************************************)
EXTENDS Naturals, Sequences

CONSTANTS
  Subs,       \* the subscribers a build may attach
  Kinds,      \* the kinds of event; a filter is a subset of them
  Handles,    \* the clones of the broadcaster (reader thread, stream object)
  MaxSends    \* bound on the events sent

ASSUME BroadcasterAssumption ==
  /\ Handles # {}
  /\ MaxSends \in Nat

VARIABLES
  subscribers, \* the subscriptions the broadcaster holds a sender of
  filter,      \* filter[s]: the kinds s accepts (None is all of them)
  closed,      \* the flag close() sets
  handles,     \* the clones not yet dropped
  buffer,      \* buffer[s]: the channel between the broadcaster and s
  rx,          \* the subscriber's half
  log,         \* history: the kinds of the events sent while open
  at           \* history: the last log position s consumed (or joined at)

vars == <<subscribers, filter, closed, handles, buffer, rx, log, at>>

\* The life of a Subscriber: not created, holding receiver and token, receiver
\* dropped but token still held, dropped, and told by recv that the stream ended.
RxStates == {"none", "open", "tokenOnly", "dropped", "ended"}

Accepted(s, e) == log[e] \in filter[s]

-----------------------------------------------------------------------------
Init ==
  /\ subscribers = {}
  /\ filter = [s \in Subs |-> Kinds]
  /\ closed = FALSE
  /\ handles = Handles
  /\ buffer = [s \in Subs |-> <<>>]
  /\ rx = [s \in Subs |-> "none"]
  /\ log = <<>>
  /\ at = [s \in Subs |-> 0]

\* subscribe_filtered: on a closed broadcaster the subscriber is attached to
\* nothing (Subscriber::disconnected), so its first recv reports the end.
SubscribeFiltered(s, f) ==
  /\ handles # {}
  /\ rx[s] = "none"
  /\ rx' = [rx EXCEPT ![s] = "open"]
  /\ filter' = [filter EXCEPT ![s] = f]
  /\ at' = [at EXCEPT ![s] = Len(log)]
  /\ subscribers' = IF closed THEN subscribers ELSE subscribers \cup {s}
  /\ UNCHANGED <<closed, handles, buffer, log>>

TokenAlive(s) == rx[s] \in {"open", "tokenOnly"}

\* The subscriptions `retain` keeps when an event of kind k is sent: a dead
\* token is pruned before the filter runs; a rejected event keeps the
\* subscription; an accepted one keeps it when the channel has a receiver.
RetainedByFilterFirst(k) ==   \* mutant: the filter is asked before the token
  {s \in subscribers : k \in filter[s] => rx[s] = "open"}

RetainedIfAccepting(k) ==     \* mutant: a rejected event ends the subscription
  {s \in subscribers : k \in filter[s] /\ rx[s] = "open"}

Retained(k) ==
  {s \in subscribers : TokenAlive(s) /\ (k \in filter[s] => rx[s] = "open")}

Send(k) ==
  /\ handles # {}
  /\ Len(log) < MaxSends
  /\ subscribers' = Retained(k)
  /\ log' = IF closed THEN log ELSE Append(log, k)
  /\ buffer' = [s \in Subs |->
                  IF s \in Retained(k) /\ k \in filter[s]
                  THEN Append(buffer[s], Len(log) + 1)
                  ELSE buffer[s]]
  /\ UNCHANGED <<filter, closed, handles, rx, at>>

CloseFlagOnly ==              \* mutant: the senders are kept
  /\ handles # {}
  /\ closed' = TRUE
  /\ UNCHANGED <<subscribers, filter, handles, buffer, rx, log, at>>

CloseDiscarding ==            \* mutant: closing empties the channels
  /\ handles # {}
  /\ closed' = TRUE
  /\ subscribers' = {}
  /\ buffer' = [s \in Subs |-> <<>>]
  /\ UNCHANGED <<filter, handles, rx, log, at>>

Close ==
  /\ handles # {}
  /\ closed' = TRUE
  /\ subscribers' = {}
  /\ UNCHANGED <<filter, handles, buffer, rx, log, at>>

\* Dropping the last clone frees the shared state and with it every sender.
DropHandle(h) ==
  /\ h \in handles
  /\ handles' = handles \ {h}
  /\ subscribers' = IF handles' = {} THEN {} ELSE subscribers
  /\ UNCHANGED <<filter, closed, buffer, rx, log, at>>

-----------------------------------------------------------------------------
Recv(s) ==
  /\ rx[s] = "open"
  /\ buffer[s] # <<>>
  /\ at' = [at EXCEPT ![s] = Head(buffer[s])]
  /\ buffer' = [buffer EXCEPT ![s] = Tail(@)]
  /\ UNCHANGED <<subscribers, filter, closed, handles, rx, log>>

\* recv returns Err only when the channel is empty and has no sender.
RecvEnd(s) ==
  /\ rx[s] = "open"
  /\ buffer[s] = <<>>
  /\ s \notin subscribers
  /\ rx' = [rx EXCEPT ![s] = "ended"]
  /\ UNCHANGED <<subscribers, filter, closed, handles, buffer, log, at>>

DropReceiver(s) ==
  /\ rx[s] = "open"
  /\ rx' = [rx EXCEPT ![s] = "tokenOnly"]
  /\ buffer' = [buffer EXCEPT ![s] = <<>>]
  /\ UNCHANGED <<subscribers, filter, closed, handles, log, at>>

DropToken(s) ==
  /\ rx[s] = "tokenOnly"
  /\ rx' = [rx EXCEPT ![s] = "dropped"]
  /\ UNCHANGED <<subscribers, filter, closed, handles, buffer, log, at>>

-----------------------------------------------------------------------------
Next ==
  \/ \E k \in Kinds : Send(k)
  \/ Close
  \/ \E h \in Handles : DropHandle(h)
  \/ \E s \in Subs :
       \/ \E f \in SUBSET Kinds : SubscribeFiltered(s, f)
       \/ Recv(s)
       \/ RecvEnd(s)
       \/ DropReceiver(s)
       \/ DropToken(s)

\* A consumer loops on recv, and the producer closes when it is done: the reader
\* thread does on every way out of its loop (build_event.rs:180-272).  Nobody owes
\* a drop: the stream's clone goes only when the task joins it, after its own
\* iteration.
Fairness ==
  /\ \A s \in Subs : WF_vars(Recv(s) \/ RecvEnd(s))
  /\ WF_vars(Close)

Spec == Init /\ [][Next]_vars
FairSpec == Spec /\ Fairness

-----------------------------------------------------------------------------
\* Every variable has its type and no consumer is ahead of the log: nothing is
\* delivered that was not sent while the broadcaster was open.
TypeOK ==
  /\ subscribers \subseteq Subs
  /\ filter \in [Subs -> SUBSET Kinds]
  /\ closed \in BOOLEAN
  /\ handles \subseteq Handles
  /\ buffer \in [Subs -> Seq(Nat)]
  /\ rx \in [Subs -> RxStates]
  /\ log \in Seq(Kinds)
  /\ at \in [Subs -> Nat]
  /\ \A s \in Subs : at[s] <= Len(log)

\* The events sent since s joined that it accepts and has not consumed yet.
Owed(s) == {e \in (at[s] + 1)..Len(log) : Accepted(s, e)}

Held(s) == {buffer[s][i] : i \in 1..Len(buffer[s])}

\* A subscriber's channel holds exactly the accepted events it is owed, in the
\* order they were sent: nothing a filter rejected, nothing from before it
\* joined, nothing lost to the pruning of others, to close() or to the drop of
\* the last clone.
BufferIsWhatIsOwed ==
  \A s \in Subs : rx[s] = "open" =>
    /\ Held(s) = Owed(s)
    /\ \A i, j \in 1..Len(buffer[s]) : i < j => buffer[s][i] < buffer[s][j]

\* The channels are what send, subscribe, close and the drops keep them: typed,
\* and exactly what is owed (Broadcaster and Subscriber of broadcaster.rs).
ChannelsSound == TypeOK /\ BufferIsWhatIsOwed

\* A subscriber that was told the stream ended has consumed every event it was
\* owed: buffered events stay drainable after close().
EndMeansDrained == \A s \in Subs : rx[s] = "ended" => Owed(s) = {}

\* No consumer is left blocked on a channel nobody can feed or end: an open
\* receiver without a sender belongs to a stream that is over.
NeverCutOff ==
  \A s \in Subs : rx[s] = "open" /\ s \notin subscribers => closed \/ handles = {}

\* The end comes after what is owed, and it comes (close and the drop of the last
\* clone, Subscriber::recv).
EndIsInOrder == EndMeansDrained /\ NeverCutOff

\* A send leaves no subscription of a dropped subscriber behind, even one whose
\* filter rejects the event sent.
SendPrunesTheDead ==
  [][(\E k \in Kinds : Send(k)) => \A s \in subscribers' : rx[s] # "dropped"]_vars

\* Every consumer that keeps receiving is told of the end, or was dropped, though
\* a clone lives on that only a consumer's own end could drop (broadcaster.rs:76:
\* without close() the loop never exits).
EveryConsumerEnds == \A s \in Subs : rx[s] = "open" ~> rx[s] # "open"
-----------------------------------------------------------------------------
\* The broadcaster implements the fan-out a reader of the events relies on.
ModeOf(r) ==
  CASE r = "none" -> "out"
    [] r = "open" -> "in"
    [] r = "ended" -> "ended"
    [] OTHER -> "left"

Abstract == INSTANCE Fanout WITH
  Readers <- Subs, log <- log, final <- (closed \/ handles = {}),
  accepts <- filter, place <- at, mode <- [s \in Subs |-> ModeOf(rx[s])]

ImplementsFanout == Abstract!FanoutSpec
=============================================================================
