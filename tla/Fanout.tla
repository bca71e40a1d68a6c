------------------------------- MODULE Fanout -------------------------------
(***************************************************************************)
(* What the broadcaster promises, without channels, tokens or clones: a    *)
(* log of events, and for each reader a place in it.  A reader is served   *)
(* the next event after its place that it accepts, and is told of the end  *)
(* only once the log is final and nothing it accepts is left.              *)
(***************************************************************************)
EXTENDS Naturals, Sequences

CONSTANTS Readers, Kinds

VARIABLES log, final, accepts, place, mode

fvars == <<log, final, accepts, place, mode>>

Wanted(r) == {e \in (place[r] + 1)..Len(log) : log[e] \in accepts[r]}

FanoutInit ==
  /\ log = <<>>
  /\ final = FALSE
  /\ accepts = [r \in Readers |-> Kinds]
  /\ place = [r \in Readers |-> 0]
  /\ mode = [r \in Readers |-> "out"]

Publish(k) ==
  /\ ~final
  /\ log' = Append(log, k)
  /\ UNCHANGED <<final, accepts, place, mode>>

Finish ==
  /\ final' = TRUE
  /\ UNCHANGED <<log, accepts, place, mode>>

Join(r, f) ==
  /\ mode[r] = "out"
  /\ mode' = [mode EXCEPT ![r] = "in"]
  /\ accepts' = [accepts EXCEPT ![r] = f]
  /\ place' = [place EXCEPT ![r] = Len(log)]
  /\ UNCHANGED <<log, final>>

Serve(r, e) ==
  /\ mode[r] = "in"
  /\ e \in Wanted(r)
  /\ \A d \in Wanted(r) : e <= d
  /\ place' = [place EXCEPT ![r] = e]
  /\ UNCHANGED <<log, final, accepts, mode>>

End(r) ==
  /\ mode[r] = "in"
  /\ final
  /\ Wanted(r) = {}
  /\ mode' = [mode EXCEPT ![r] = "ended"]
  /\ UNCHANGED <<log, final, accepts, place>>

Leave(r) ==
  /\ mode[r] = "in"
  /\ mode' = [mode EXCEPT ![r] = "left"]
  /\ UNCHANGED <<log, final, accepts, place>>

FanoutNext ==
  \/ \E k \in Kinds : Publish(k)
  \/ Finish
  \/ \E r \in Readers :
       \/ \E f \in SUBSET Kinds : Join(r, f)
       \/ \E e \in Wanted(r) : Serve(r, e)
       \/ End(r)
       \/ Leave(r)

FanoutSpec == FanoutInit /\ [][FanoutNext]_fvars
=============================================================================
