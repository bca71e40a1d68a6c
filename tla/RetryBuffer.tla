----------------------------- MODULE RetryBuffer -----------------------------
(***************************************************************************)
(* The replay buffer of the gRPC sink: RetryBuffer of                      *)
(* crates/axl-runtime/src/engine/bazel/sink/retry.rs.                      *)
(*                                                                         *)
(* Unacked events are kept for replay within a byte budget; the oldest are *)
(* evicted to make room for a new one.  A request is its sequence number,  *)
(* and Size gives its encoded length.                                      *)
(***************************************************************************)
EXTENDS Integers, Sequences

CONSTANTS
  Size,      \* Size[n]: the encoded length of event n
  Upto,      \* Upto[n]: that of the events 1 to n together
  CapBytes   \* retry_max_buffer_bytes

Events == DOMAIN Size

ASSUME RetryBufferAssumption ==
  /\ Events = 1..Len(Size)
  /\ Size \in Seq(Nat)
  /\ Upto \in [0..Len(Size) -> Nat] /\ Upto[0] = 0
  /\ \A n \in Events : Upto[n] = Upto[n - 1] + Size[n]
  /\ \A m, n \in 0..Len(Size) : m <= n => Upto[m] <= Upto[n]
  /\ CapBytes \in Nat \ {0}

VARIABLES
  items,     \* the retained sequence numbers, oldest first
  bytes,     \* the running total of their sizes
  evicted,   \* evictions since the last take_evicted
  forgotten  \* history: the sequence numbers evicted or never retained

bufferVars == <<items, bytes, evicted, forgotten>>

BufferInit ==
  /\ items = <<>>
  /\ bytes = 0
  /\ evicted = 0
  /\ forgotten = {}

\* What is retained is a run of consecutive events (Run): they enter in order, leave
\* from the front, and one that is not retained leaves none behind.
Bytes(s) == IF s = <<>> THEN 0 ELSE Upto[s[Len(s)]] - Upto[s[1] - 1]
Oldest(k) == SubSeq(items, 1, k)
AllBut(k) == SubSeq(items, k + 1, Len(items))

\* The loop condition of push is false once the k oldest are gone.
Fits(k, n) == bytes - Bytes(Oldest(k)) + Size[n] <= CapBytes

StopsIgnoringNew(k, n) ==  \* mutant: room is made without counting the new event
  /\ k = Len(items) \/ Fits(k, n) \/ bytes - Bytes(Oldest(k)) <= CapBytes
  /\ \A j \in 0..(k - 1) : bytes - Bytes(Oldest(j)) > CapBytes

\* The eviction loop of push stops at the first k that makes room, or when
\* nothing is left to evict.
StopsAt(k, n) ==
  /\ k = Len(items) \/ Fits(k, n)
  /\ \A j \in 0..(k - 1) : ~Fits(j, n)

\* push: an event larger than the whole budget evicts everything and is then not
\* retained itself.
Push(n) ==
  \E k \in 0..Len(items) :
    /\ StopsAt(k, n)
    /\ LET gone == {items[i] : i \in 1..k}
       IN \/ /\ Size[n] <= CapBytes
             /\ items' = Append(AllBut(k), n)
             /\ bytes' = bytes - Bytes(Oldest(k)) + Size[n]
             /\ evicted' = evicted + k
             /\ forgotten' = forgotten \cup gone
          \/ /\ Size[n] > CapBytes
             /\ items' = AllBut(k)
             /\ bytes' = bytes - Bytes(Oldest(k))
             /\ evicted' = evicted + k + 1
             /\ forgotten' = forgotten \cup gone \cup {n}

PrunePastAck(ack) ==    \* mutant: one event too many is pruned
  \E k \in 0..Len(items) :
    /\ \A i \in 1..k : items[i] <= ack + 1
    /\ k < Len(items) => items[k + 1] > ack + 1
    /\ items' = AllBut(k)
    /\ bytes' = bytes - Bytes(Oldest(k))
    /\ UNCHANGED <<evicted, forgotten>>

\* prune_until pops while the front is at or below the ack.
PruneUntil(ack) ==
  \E k \in 0..Len(items) :
    /\ \A i \in 1..k : items[i] <= ack
    /\ k < Len(items) => items[k + 1] > ack
    /\ items' = AllBut(k)
    /\ bytes' = bytes - Bytes(Oldest(k))
    /\ UNCHANGED <<evicted, forgotten>>

TakeEvicted ==
  /\ evicted' = 0
  /\ UNCHANGED <<items, bytes, forgotten>>

-----------------------------------------------------------------------------
BufferTypeOK ==
  /\ items \in Seq(Events)
  /\ evicted \in Nat
  /\ forgotten \subseteq Events

\* The running total is the size of what is retained, never negative (a usize
\* subtraction) and never over budget.
Run == \A i \in 1..Len(items) - 1 : items[i + 1] = items[i] + 1
BytesAccounted == Run /\ bytes \in 0..CapBytes /\ bytes = Bytes(items)
=============================================================================
