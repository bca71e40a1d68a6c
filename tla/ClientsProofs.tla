---------------------------- MODULE ClientsProofs ----------------------------
(***************************************************************************)
(* What the registry of clients and the shutdown handler keep, for any     *)
(* pids, scripts and faults.                                               *)
(*                                                                         *)
(* A registered pid is ours because nobody but the task can free it        *)
(* (Child::wait), and the task unregisters it next (RegistryOK).  The      *)
(* handler reaches every client because one that lives, was registered     *)
(* when the signal came and was not given up is registered still           *)
(* (StillThere), so that each burst tells it once more (Told).             *)
(***************************************************************************)
EXTENDS Cancellation, TLAPS

\* A child of ours that was not waited for.
Own(p) == kind[p] \in Ours /\ (Alive(p) \/ proc[p] = "zombie")

\* A pid that is no client's has no past.
Coherent ==
  \A p \in Pids : /\ proc[p] \in {"free", "stranger"} => kind[p] = "none"
                  /\ proc[p] = "zombie" => kind[p] \in Ours

RegistryOK ==
  /\ \A i, j \in 1..Len(registry) : registry[i] = registry[j] => i = j
  /\ \A i \in 1..Len(registry) : Own(registry[i]) \/ (cur = registry[i] /\ step = "reaped")
  /\ step = "spawned" =>
       Own(cur) /\ \A i \in 1..Len(registry) : registry[i] # cur
  /\ step = "reaped" => kind[cur] \notin Ours

\* Only a call that runs a subprocess has one.
SubLabels == ProbeLabels \cup {"build.info", "build.spawn", "info", "wait", "shutdown", "base"}
StepOK == step # "go" => at \in SubLabels

\* Where a call is about to signal the client it found, there is one.
TargetOK == at \in {"sigint", "second", "third", "watch", "kill"} => target \in Pids

\* A client the handler owes its signals.
Owed(p) ==
  /\ p \in targets \ abandoned
  /\ kind[p] \in Ours /\ proc[p] \in {"starting", "running"}

StillThere == \A p \in Pids : Owed(p) => \E i \in 1..Len(registry) : registry[i] = p

InTodo(p) == \E i \in 1..Len(todo) : todo[i] = p
Told ==
  /\ h = "tick" => round <= 3
  /\ h \in {"burst", "send"} => round >= 1
  /\ \A p \in Pids : Owed(p) =>
       /\ h = "tick" => ints[p] >= round
       /\ h = "burst" => ints[p] >= round - 1
       /\ h = "send" => \/ InTodo(p) /\ ints[p] >= round - 1
                        \/ round <= 3 /\ ints[p] >= round
       /\ h = "exit" => ci /\ ints[p] >= 2

\* The parts of TypeOK.
TaskTypes ==
  /\ registry \in Seq(Pids) /\ step \in {"go", "spawned", "registered", "reaped"}
  /\ cur \in Pids \cup {NoPid} /\ build \in Pids \cup {NoPid}
  /\ answer \in Replies /\ abandoned \subseteq Pids /\ at \in Labels
  /\ step = "go" <=> cur = NoPid
HandlerTypes ==
  /\ todo \in Seq(Pids) /\ owed \in Pids \cup {NoPid} /\ ci \in BOOLEAN /\ exited \in BOOLEAN
  /\ h \in {"off", "idle", "look", "tick", "burst", "send", "exit"} /\ round \in 0..4
  /\ targets \subseteq Pids
OwnTypes ==
  /\ target \in Pids \cup {NoPid} /\ cancelled \subseteq Pids
  /\ auto \in BOOLEAN /\ waiting \in BOOLEAN /\ found \in BOOLEAN
  /\ result \in Results

IInv ==
  /\ BazelTypeOK /\ TaskTypes /\ HandlerTypes /\ OwnTypes
  /\ Coherent /\ RegistryOK /\ StepOK /\ TargetOK /\ StillThere /\ Told

-----------------------------------------------------------------------------
LEMMA TypesSplit == TypeOK <=> BazelTypeOK /\ TaskTypes /\ HandlerTypes /\ OwnTypes
BY DEF TypeOK, ClientsTypeOK, TaskTypes, HandlerTypes, OwnTypes

LEMMA InitIInv == Init => IInv
<1> SUFFICES ASSUME Init PROVE IInv
  OBVIOUS
<1> USE DEF Init, ClientsInit, BazelInit
<1>1. BazelTypeOK
  <2>1. proc \in [Pids -> {"free", "stranger", "zombie"} \cup Phases]
    OBVIOUS
  <2>2. kind \in [Pids -> Kinds]
    BY DEF Kinds
  <2>3. ints \in [Pids -> 0..3]
    OBVIOUS
  <2>4. reply \in [Pids -> Replies]
    BY DEF Replies
  <2>5. orphaned \in BOOLEAN /\ pidFile \in BOOLEAN
    OBVIOUS
  <2> QED BY <2>1, <2>2, <2>3, <2>4, <2>5 DEF BazelTypeOK, Busy
<1>2. TaskTypes
  BY DEF TaskTypes, Replies, Labels
<1>3. HandlerTypes
  <2>1. ci \in BOOLEAN /\ exited \in BOOLEAN
    OBVIOUS
  <2>2. h \in {"off", "idle"} /\ round \in 0..4 /\ todo \in Seq(Pids)
    OBVIOUS
  <2> QED BY <2>1, <2>2 DEF HandlerTypes
<1>4. OwnTypes
  BY DEF OwnTypes, Results
<1>5. Coherent /\ RegistryOK /\ StepOK /\ TargetOK
  BY DEF Coherent, RegistryOK, StepOK, TargetOK
<1>6. StillThere /\ Told
  BY DEF StillThere, Told, Owed
<1> QED BY <1>1, <1>2, <1>3, <1>4, <1>5, <1>6 DEF IInv

-----------------------------------------------------------------------------
(* What Bazel, the operating system and signals may do: our children stay  *)
(* ours, none comes to be, and none forgets a SIGINT while it lives.       *)
Lives(p) == kind[p] \in Ours /\ proc[p] \in {"starting", "running"}
Gentle ==
  /\ BazelTypeOK' /\ Coherent'
  /\ \A p \in Pids : Own(p) => Own(p)'
  /\ \A p \in Pids : kind'[p] \in Ours => kind[p] \in Ours
  /\ \A p \in Pids : Lives(p)' => Lives(p) /\ ints'[p] >= ints[p]

LEMMA StillGentle ==
  ASSUME BazelTypeOK, Coherent, UNCHANGED <<fault, bazelVars>> PROVE Gentle
BY DEF bazelVars, Gentle, BazelTypeOK, Coherent, Own, Lives, Alive, Busy

LEMMA AcquireGentle ==
  ASSUME BazelTypeOK, Coherent, UNCHANGED fault, NEW p \in Pids, Acquire(p) PROVE Gentle
<1> USE DEF Acquire, BazelTypeOK, Busy, Phases
<1>1. BazelTypeOK'
  BY BazelAssumption
<1>2. Coherent'
  BY DEF Coherent
<1> QED BY <1>1, <1>2 DEF Gentle, Own, Lives, Alive

LEMMA FinishGentle ==
  ASSUME BazelTypeOK, Coherent, UNCHANGED fault, NEW p \in Pids, Finish(p) PROVE Gentle
<1> USE DEF Finish, BazelTypeOK, Busy, Phases
<1>1. BazelTypeOK'
  <2>1. reply' \in [Pids -> Replies]
    BY DEF Replies
  <2>2. proc' \in [Pids -> {"free", "stranger", "zombie"} \cup Phases]
    OBVIOUS
  <2>3. /\ lock' = NoPid /\ lock' \in Pids \cup {NoPid} /\ ~orphaned'
        /\ server' \in {"down", "up", "dying"} /\ pidFile' \in BOOLEAN
        /\ UNCHANGED <<fault, kind, ints, stranded>>
    OBVIOUS
  <2> QED BY <2>1, <2>2, <2>3
<1>2. Coherent'
  BY DEF Coherent
<1> QED BY <1>1, <1>2 DEF Gentle, Own, Lives, Alive

LEMMA ProbeAnswersGentle ==
  ASSUME BazelTypeOK, Coherent, UNCHANGED fault, NEW p \in Pids, ProbeAnswers(p) PROVE Gentle
<1> USE DEF ProbeAnswers, BazelTypeOK, Busy, Phases
<1>1. BazelTypeOK'
  <2>1. reply' \in [Pids -> Replies]
    <3>1. \A r \in Pids \cup {"ok", "failed"} : [reply EXCEPT ![p] = r] \in [Pids -> Replies]
      BY DEF Replies
    <3> QED BY <3>1
  <2>2. proc' \in [Pids -> {"free", "stranger", "zombie"} \cup Phases]
    OBVIOUS
  <2>3. /\ Busy' <=> Busy
        /\ proc[p] = "starting" /\ \A q \in Pids \ {p} : proc'[q] = proc[q]
    OBVIOUS
  <2>4. server' \in {"down", "up", "dying"} /\ pidFile' \in BOOLEAN /\ (Busy => server' # "down")
    OBVIOUS
  <2>5. Busy /\ ~orphaned => proc'[lock] = "running"
    BY <2>3
  <2> QED BY <2>1, <2>2, <2>3, <2>4, <2>5
<1>2. Coherent'
  BY DEF Coherent
<1> QED BY <1>1, <1>2 DEF Gentle, Own, Lives, Alive

LEMMA ExitGentle ==
  ASSUME BazelTypeOK, Coherent, UNCHANGED fault, NEW p \in Pids, Exit(p) PROVE Gentle
<1> USE DEF Exit, BazelTypeOK, Busy, Phases
<1>1. CASE kind[p] \in Ours
  <2> USE <1>1 DEF Gone
  <2>1. BazelTypeOK'
    OBVIOUS
  <2>2. Coherent'
    BY DEF Coherent
  <2> QED BY <2>1, <2>2 DEF Gentle, Own, Lives, Alive
<1>2. CASE kind[p] \notin Ours
  <2> USE <1>2 DEF Gone, Forget
  <2>1. BazelTypeOK'
    BY DEF Replies, Kinds
  <2>2. Coherent'
    BY DEF Coherent
  <2> QED BY <2>1, <2>2 DEF Gentle, Own, Lives, Alive, Ours
<1> QED BY <1>1, <1>2

LEMMA KilledGentle ==
  ASSUME BazelTypeOK, Coherent, UNCHANGED fault, NEW p \in Pids, Alive(p), Killed(p)
  PROVE  Gentle /\ ~Lives(p)'
<1> USE DEF Killed, BazelTypeOK, Busy, Phases
<1>1. /\ orphaned' \in BOOLEAN /\ lock' = lock
      /\ lock # NoPid /\ ~orphaned' => ~orphaned /\ lock # p
      /\ orphaned' => lock # NoPid
  BY BazelAssumption
<1>2. CASE kind[p] \in Ours
  <2> USE <1>2 DEF Gone
  <2>1. BazelTypeOK'
    BY <1>1 DEF Replies
  <2>2. Coherent'
    BY DEF Coherent
  <2> QED BY <2>1, <2>2 DEF Gentle, Own, Lives, Alive
<1>3. CASE kind[p] \notin Ours
  <2> USE <1>3 DEF Gone, Forget
  <2>1. BazelTypeOK'
    BY <1>1 DEF Replies, Kinds
  <2>2. Coherent'
    BY DEF Coherent
  <2> QED BY <2>1, <2>2 DEF Gentle, Own, Lives, Alive, Ours
<1> QED BY <1>2, <1>3

LEMMA OrphanEndsGentle ==
  ASSUME BazelTypeOK, Coherent, UNCHANGED fault, OrphanEnds PROVE Gentle
<1> USE DEF OrphanEnds, BazelTypeOK, Busy
<1>1. BazelTypeOK'
  OBVIOUS
<1>2. Coherent'
  BY DEF Coherent
<1> QED BY <1>1, <1>2 DEF Gentle, Own, Lives, Alive

LEMMA DownedGentle ==
  ASSUME BazelTypeOK, Coherent, UNCHANGED <<fault, kind, pidFile>>, Downed,
         ints' \in [Pids -> 0..3], \A p \in Pids : ints'[p] >= ints[p]
  PROVE  Gentle /\ (\A p \in Pids : Busy /\ ~orphaned /\ p = lock => ~Lives(p)')
<1> USE DEF Downed, BazelTypeOK, Busy, Phases
<1>1. BazelTypeOK'
  BY DEF Replies, Leftovers
<1>2. Coherent'
  BY DEF Coherent
<1> QED BY <1>1, <1>2 DEF Gentle, Own, Lives, Alive

LEMMA StartGentle ==
  ASSUME BazelTypeOK, Coherent, UNCHANGED fault, NEW p \in Pids, NEW k \in Kinds \ {"none"},
         Start(p, k)
  PROVE  /\ BazelTypeOK' /\ Coherent'
         /\ \A q \in Pids : Own(q) => Own(q)' /\ q # p
         /\ kind'[p] = k /\ (k \in Ours => Own(p)')
         /\ \A q \in Pids \ {p} : /\ kind'[q] = kind[q]
                                  /\ Lives(q)' => Lives(q) /\ ints'[q] >= ints[q]
<1> USE DEF Start, BazelTypeOK, Busy, Phases
<1>1. BazelTypeOK'
  OBVIOUS
<1>2. Coherent'
  BY DEF Coherent
<1> QED BY <1>1, <1>2 DEF Own, Lives, Alive

LEMMA StrangerGentle ==
  ASSUME BazelTypeOK, Coherent, UNCHANGED fault, NEW p \in Pids, Stranger(p) PROVE Gentle
<1> USE DEF Stranger, BazelTypeOK, Busy, Phases
<1>1. BazelTypeOK'
  OBVIOUS
<1>2. Coherent'
  BY DEF Coherent
<1>3. kind[p] = "none"
  BY DEF Coherent
<1> QED BY <1>1, <1>2, <1>3 DEF Gentle, Own, Lives, Alive, Ours

LEMMA TheirsGentle ==
  ASSUME BazelTypeOK, Coherent, UNCHANGED fault, NEW p \in Pids, Theirs(p) PROVE Gentle
<1>1. "theirs" \in Kinds \ {"none"} /\ "theirs" \notin Ours
  BY DEF Kinds, Ours
<1>2. Start(p, "theirs")
  BY DEF Theirs
<1> QED BY <1>1, <1>2, StartGentle DEF Gentle, Lives

LEMMA WorldGentle ==
  ASSUME BazelTypeOK, Coherent, UNCHANGED fault, World PROVE Gentle
<1>1. ASSUME NEW p \in Pids, Crash(p) PROVE Gentle
  BY <1>1, KilledGentle DEF Crash
<1>2. CASE ServerDies
  BY <1>2, DownedGentle DEF ServerDies, BazelTypeOK
<1> QED BY <1>1, <1>2, AcquireGentle, FinishGentle, ProbeAnswersGentle, ExitGentle,
           OrphanEndsGentle DEF World

LEMMA SigintGentle ==
  ASSUME BazelTypeOK, Coherent, UNCHANGED fault, NEW p \in Pids, Sigint(p)
  PROVE  Gentle /\ (Lives(p)' => ints'[p] >= 3 \/ ints'[p] >= ints[p] + 1)
<1> USE DEF BazelTypeOK, Phases
<1>1. CASE ~Alive(p) \/ proc[p] = "done"
  <2>1. UNCHANGED bazelVars
    BY <1>1 DEF Sigint
  <2>2. ~Lives(p)'
    BY <1>1, <2>1 DEF bazelVars, Lives, Alive
  <2> QED BY <2>1, <2>2, StillGentle
<1>2. CASE Alive(p) /\ proc[p] = "starting"
  <2>1. /\ proc' = [proc EXCEPT ![p] = "done"]
        /\ ints' = [ints EXCEPT ![p] = IF ints[p] < 3 THEN ints[p] + 1 ELSE ints[p]]
        /\ reply' = [reply EXCEPT ![p] = "failed"]
        /\ UNCHANGED <<kind, lock, orphaned, server, pidFile, stranded>>
    BY <1>2 DEF Sigint
  <2>2. BazelTypeOK'
    BY <1>2, <2>1 DEF Replies, Busy
  <2>3. Coherent'
    BY <1>2, <2>1 DEF Coherent
  <2> QED BY <1>2, <2>1, <2>2, <2>3 DEF Gentle, Own, Lives, Alive
<1>3. CASE Alive(p) /\ proc[p] = "running"
  <2>1. /\ ints' = [ints EXCEPT ![p] = IF ints[p] < 3 THEN ints[p] + 1 ELSE ints[p]]
        /\ UNCHANGED <<kind, pidFile>>
    BY <1>3 DEF Sigint
  <2>2. /\ ints' \in [Pids -> 0..3] /\ \A q \in Pids : ints'[q] >= ints[q]
        /\ ints'[p] >= 3 \/ ints'[p] >= ints[p] + 1
    BY <2>1
  <2>3. CASE Downed
    BY <2>1, <2>2, <2>3, DownedGentle
  <2>4. CASE UNCHANGED <<proc, lock, orphaned, server, stranded, reply>>
    <3>1. BazelTypeOK'
      BY <2>1, <2>2, <2>4 DEF Busy
    <3>2. Coherent'
      BY <2>1, <2>4 DEF Coherent
    <3> QED BY <2>1, <2>2, <2>4, <3>1, <3>2 DEF Gentle, Own, Lives, Alive
  <2> QED BY <1>3, <2>3, <2>4 DEF Sigint
<1> QED BY <1>1, <1>2, <1>3 DEF Alive

LEMMA SigkillGentle ==
  ASSUME BazelTypeOK, Coherent, UNCHANGED fault, NEW p \in Pids, Sigkill(p)
  PROVE  Gentle /\ ~Lives(p)'
<1>1. CASE Alive(p)
  BY <1>1, KilledGentle DEF Sigkill
<1>2. CASE ~Alive(p) /\ proc[p] = "stranger"
  <2>1. /\ proc' = [proc EXCEPT ![p] = "free"]
        /\ UNCHANGED <<kind, ints, lock, orphaned, server, pidFile, stranded, reply>>
    BY <1>2 DEF Sigkill
  <2>2. Stranger(p)
    BY <1>2, <2>1 DEF Stranger
  <2>3. ~Lives(p)'
    BY <2>1 DEF Lives, BazelTypeOK
  <2> QED BY <2>2, <2>3, StrangerGentle
<1>3. CASE ~Alive(p) /\ proc[p] # "stranger"
  <2>1. UNCHANGED bazelVars
    BY <1>3 DEF Sigkill
  <2>2. ~Lives(p)'
    BY <1>3, <2>1 DEF bazelVars, Lives, Alive, Phases
  <2> QED BY <2>1, <2>2, StillGentle
<1> QED BY <1>1, <1>2, <1>3

LEMMA SigkillServerGentle ==
  ASSUME BazelTypeOK, Coherent, UNCHANGED fault, SigkillServer PROVE Gentle
<1>1. CASE UNCHANGED bazelVars
  BY <1>1, StillGentle
<1>2. CASE /\ server' = "dying"
           /\ UNCHANGED <<proc, kind, ints, lock, orphaned, pidFile, stranded, reply>>
  <2>1. BazelTypeOK'
    BY <1>2 DEF BazelTypeOK, Busy
  <2>2. Coherent'
    BY <1>2 DEF Coherent
  <2> QED BY <1>2, <2>1, <2>2 DEF Gentle, Own, Lives, Alive, BazelTypeOK
<1>3. CASE Downed /\ UNCHANGED <<kind, ints, pidFile>>
  BY <1>3, DownedGentle DEF BazelTypeOK
<1> QED BY <1>1, <1>2, <1>3 DEF SigkillServer

LEMMA StrandedGentle ==
  ASSUME BazelTypeOK, Coherent, UNCHANGED fault, stranded' \subseteq stranded,
         UNCHANGED <<proc, kind, ints, lock, orphaned, server, pidFile, reply>>
  PROVE  Gentle
<1>1. BazelTypeOK'
  BY DEF BazelTypeOK, Busy
<1>2. Coherent'
  BY DEF Coherent
<1> QED BY <1>1, <1>2 DEF Gentle, Own, Lives, Alive, BazelTypeOK

LEMMA ReapGentle ==
  ASSUME BazelTypeOK, Coherent, UNCHANGED fault, NEW p \in Pids, Reap(p)
  PROVE  /\ BazelTypeOK' /\ Coherent' /\ kind'[p] = "none"
         /\ \A q \in Pids \ {p} : Own(q) => Own(q)'
         /\ \A q \in Pids : kind'[q] \in Ours => kind[q] \in Ours
         /\ \A q \in Pids : Lives(q)' => Lives(q) /\ ints'[q] >= ints[q]
<1> USE DEF Reap, Forget, BazelTypeOK, Busy, Phases
<1>1. BazelTypeOK'
  BY DEF Replies, Kinds
<1>2. Coherent'
  BY DEF Coherent
<1> QED BY <1>1, <1>2 DEF Own, Lives, Alive, Ours

-----------------------------------------------------------------------------
(* Steps that leave the registry and the handler where they are.           *)
LEMMA RegistryKept ==
  ASSUME IInv, Gentle, UNCHANGED <<registry, step, cur>> PROVE RegistryOK'
<1>1. /\ \A p \in Pids : Own(p) => Own(p)'
      /\ \A p \in Pids : kind'[p] \in Ours => kind[p] \in Ours
  BY DEF Gentle
<1>2. /\ \A i \in 1..Len(registry) : registry[i] \in Pids
      /\ step # "go" => cur \in Pids
  BY DEF IInv, TaskTypes
<1>3. \A i \in 1..Len(registry) : Own(registry[i])' \/ (cur = registry[i] /\ step = "reaped")
  BY <1>1, <1>2 DEF IInv, RegistryOK
<1>4. step = "spawned" => Own(cur)'
  BY <1>1, <1>2 DEF IInv, RegistryOK
<1>5. step = "reaped" => kind'[cur] \notin Ours
  BY <1>1, <1>2 DEF IInv, RegistryOK
<1> QED BY <1>3, <1>4, <1>5 DEF IInv, RegistryOK

LEMMA QuietKeeps ==
  ASSUME IInv, Gentle, UNCHANGED <<registry, step, cur, abandoned, targets, ci, h, round, todo>>,
         TaskTypes', HandlerTypes', OwnTypes', StepOK', TargetOK'
  PROVE  IInv'
<1>1. BazelTypeOK' /\ Coherent'
  BY DEF Gentle
<1>3. RegistryOK'
  BY RegistryKept
<1>4. \A p \in Pids : Owed(p)' => Owed(p) /\ ints'[p] >= ints[p]
  BY DEF Gentle, Owed, Lives
<1>5. StillThere'
  BY <1>4 DEF StillThere, IInv
<1>6. Told'
  <2>1. \A p \in Pids : ints[p] \in 0..3 /\ ints'[p] \in 0..3
    BY <1>1 DEF IInv, BazelTypeOK
  <2>2. round \in 0..4
    BY DEF IInv, HandlerTypes
  <2> QED BY <1>4, <2>1, <2>2 DEF Told, IInv, InTodo
<1> QED BY <1>1, <1>3, <1>5, <1>6 DEF IInv

LEMMA OsKeeps ==
  ASSUME IInv, UNCHANGED <<clientVars, ownVars>>, Gentle PROVE IInv'
<1> USE DEF clientVars, taskVars, handlerVars, ownVars
<1>1. TaskTypes' /\ HandlerTypes' /\ OwnTypes' /\ StepOK' /\ TargetOK'
  BY DEF IInv, TaskTypes, HandlerTypes, OwnTypes, StepOK, TargetOK
<1> QED BY <1>1, QuietKeeps

-----------------------------------------------------------------------------
(* LiveBazelGuard::drop takes its pid out of the registry, and no other.   *)
LEMMA UnregisteredRemoves ==
  ASSUME registry \in Seq(Pids), NEW p \in Pids,
         \A i, j \in 1..Len(registry) : registry[i] = registry[j] => i = j
  PROVE  /\ Unregistered(p) \in Seq(Pids)
         /\ \A i, j \in 1..Len(Unregistered(p)) :
              Unregistered(p)[i] = Unregistered(p)[j] => i = j
         /\ \A i \in 1..Len(Unregistered(p)) :
              /\ Unregistered(p)[i] # p
              /\ \E j \in 1..Len(registry) : Unregistered(p)[i] = registry[j]
         /\ \A j \in 1..Len(registry) : registry[j] # p =>
              \E i \in 1..Len(Unregistered(p)) : Unregistered(p)[i] = registry[j]
<1>1. CASE p \notin Registered
  <2>1. Unregistered(p) = registry
    BY <1>1 DEF Unregistered
  <2>2. \A i \in 1..Len(registry) : registry[i] # p
    BY <1>1 DEF Registered, ToSet
  <2> QED BY <2>1, <2>2
<1>2. CASE p \in Registered
  <2> DEFINE n == Len(registry)
             First(i) == registry[i] = p /\ \A j \in 1..(i - 1) : registry[j] # p
             k == CHOOSE i \in DOMAIN registry : First(i)
             s == [registry EXCEPT ![k] = registry[n]]
             r == SubSeq(s, 1, n - 1)
  <2>1. \E i \in DOMAIN registry : First(i)
    BY <1>2 DEF Registered, ToSet
  <2>2. k \in 1..n /\ registry[k] = p
    BY <2>1
  <2>3. Unregistered(p) = r
    BY <1>2, <2>2 DEF Unregistered, Front, Last
  <2>4. n \in Nat \ {0}
    BY <2>2
  <2> HIDE DEF k
  <2>5. /\ r \in Seq(Pids) /\ Len(r) = n - 1
        /\ \A i \in 1..(n - 1) : r[i] = IF i = k THEN registry[n] ELSE registry[i]
    <3>1. s \in Seq(Pids) /\ Len(s) = n
      BY <2>2, <2>4
    <3>2. \A i \in 1..n : s[i] = IF i = k THEN registry[n] ELSE registry[i]
      BY <2>2, <2>4
    <3> HIDE DEF s
    <3>3. r \in Seq(Pids) /\ Len(r) = n - 1
      BY <2>4, <3>1
    <3>4. \A i \in 1..(n - 1) : r[i] = s[i]
      BY <2>4, <3>1
    <3> QED BY <2>4, <3>2, <3>3, <3>4
  <2> HIDE DEF r
  <2>6. \A i, j \in 1..Len(r) : r[i] = r[j] => i = j
    BY <2>2, <2>5
  <2>7. \A i \in 1..Len(r) : r[i] # p /\ \E j \in 1..n : r[i] = registry[j]
    BY <2>2, <2>4, <2>5
  <2>8. ASSUME NEW j \in 1..n, registry[j] # p PROVE \E i \in 1..Len(r) : r[i] = registry[j]
    <3>1. CASE j = n
      <4>1. k \in 1..(n - 1)
        BY <2>2, <2>8, <3>1
      <4> QED BY <2>5, <3>1, <4>1
    <3>2. CASE j # n
      BY <2>2, <2>5, <2>8, <3>2
    <3> QED BY <3>1, <3>2
  <2> QED BY <2>3, <2>5, <2>6, <2>7, <2>8
<1> QED BY <1>1, <1>2

-----------------------------------------------------------------------------
(* A subprocess of the task.                                               *)
LEMMA SpawnKeeps ==
  ASSUME IInv, NEW p \in Pids, NEW k \in Ours, Spawn(k, p), at \in SubLabels,
         UNCHANGED <<fault, ownVars>>
  PROVE  IInv'
<1> USE DEF Spawn
<1>1. Start(p, k) /\ k \in Kinds \ {"none"} /\ BazelTypeOK /\ Coherent
  BY DEF IInv, Kinds, Ours
<1>2. /\ BazelTypeOK' /\ Coherent'
      /\ \A q \in Pids : Own(q) => Own(q)' /\ q # p
      /\ kind'[p] = k /\ Own(p)'
      /\ \A q \in Pids \ {p} : /\ kind'[q] = kind[q]
                               /\ Lives(q)' => Lives(q) /\ ints'[q] >= ints[q]
  BY <1>1, StartGentle
<1>3. TaskTypes'
  BY BazelAssumption DEF IInv, TaskTypes
<1>4. HandlerTypes' /\ OwnTypes' /\ StepOK' /\ TargetOK'
  BY DEF IInv, HandlerTypes, OwnTypes, StepOK, TargetOK, handlerVars, ownVars
<1>5. RegistryOK'
  <2>1. \A i \in 1..Len(registry) : registry[i] \in Pids
    BY DEF IInv, TaskTypes
  <2>2. \A i \in 1..Len(registry) : Own(registry[i])
    BY DEF IInv, RegistryOK
  <2>3. \A i \in 1..Len(registry) : Own(registry[i])' /\ registry[i] # p
    BY <1>2, <2>1, <2>2
  <2> QED BY <1>2, <2>3 DEF IInv, RegistryOK
<1>6. \A q \in Pids : Owed(q)' => Owed(q) /\ ints'[q] >= ints[q]
  BY <1>2 DEF Owed, Lives
<1>7. StillThere'
  BY <1>6 DEF IInv, StillThere
<1>8. Told'
  <2>1. \A q \in Pids : ints[q] \in 0..3 /\ ints'[q] \in 0..3
    BY <1>2 DEF IInv, BazelTypeOK
  <2> QED BY <1>6, <2>1 DEF Told, IInv, InTodo, HandlerTypes, handlerVars
<1> QED BY <1>2, <1>3, <1>4, <1>5, <1>7, <1>8 DEF IInv

LEMMA RegisterKeeps ==
  ASSUME IInv, Register, UNCHANGED <<fault, ownVars>> PROVE IInv'
<1> USE DEF Register, bazelVars, handlerVars, ownVars
<1>1. BazelTypeOK' /\ Coherent' /\ OwnTypes' /\ HandlerTypes' /\ TargetOK' /\ StepOK'
  BY StillGentle DEF IInv, Gentle, HandlerTypes, OwnTypes, StepOK, TargetOK
<1>2. cur \in Pids /\ registry \in Seq(Pids)
  BY DEF IInv, TaskTypes
<1>3. TaskTypes'
  BY <1>2, BazelAssumption DEF IInv, TaskTypes
<1>4. /\ Len(registry') = Len(registry) + 1 /\ Len(registry) \in Nat
      /\ registry'[Len(registry) + 1] = cur
      /\ \A i \in 1..Len(registry) : registry'[i] = registry[i]
  BY <1>2
<1>5. \A p \in Pids : (Own(p)' <=> Own(p)) /\ (Owed(p)' <=> Owed(p))
  BY DEF Own, Owed, Alive
<1>6. RegistryOK'
  <2>1. \A i \in 1..Len(registry') : Own(registry'[i])
    BY <1>2, <1>4 DEF IInv, RegistryOK
  <2>2. \A i \in 1..Len(registry') : registry'[i] \in Pids
    BY <1>3 DEF TaskTypes
  <2>3. \A i \in 1..Len(registry') : Own(registry[i])'
    BY <1>5, <2>1, <2>2 DEF Own, Alive
  <2> QED BY <1>2, <1>4, <2>3 DEF IInv, RegistryOK
<1>7. StillThere'
  BY <1>4, <1>5 DEF IInv, StillThere
<1>8. Told'
  BY <1>5 DEF IInv, Told, InTodo
<1> QED BY <1>1, <1>3, <1>6, <1>7, <1>8 DEF IInv

LEMMA CollectKeeps ==
  ASSUME IInv, Collect, UNCHANGED <<fault, ownVars>> PROVE IInv'
<1> USE DEF Collect, handlerVars, ownVars
<1>1. cur \in Pids /\ BazelTypeOK /\ Coherent
  BY DEF IInv, TaskTypes
<1>2. /\ BazelTypeOK' /\ Coherent' /\ kind'[cur] = "none"
      /\ \A q \in Pids \ {cur} : Own(q) => Own(q)'
      /\ \A q \in Pids : kind'[q] \in Ours => kind[q] \in Ours
      /\ \A q \in Pids : Lives(q)' => Lives(q) /\ ints'[q] >= ints[q]
  BY <1>1, ReapGentle
<1>3. TaskTypes'
  BY <1>1, BazelAssumption DEF IInv, TaskTypes, BazelTypeOK
<1>4. OwnTypes' /\ HandlerTypes' /\ TargetOK' /\ StepOK'
  BY DEF IInv, HandlerTypes, OwnTypes, StepOK, TargetOK
<1>5. RegistryOK'
  <2>1. \A i \in 1..Len(registry) : registry[i] \in Pids /\ Own(registry[i])
    BY DEF IInv, RegistryOK, TaskTypes
  <2>2. \A i \in 1..Len(registry) : Own(registry[i])' \/ cur = registry[i]
    BY <1>2, <2>1
  <2> QED BY <1>2, <2>2 DEF IInv, RegistryOK, Ours
<1>6. \A q \in Pids : Owed(q)' => Owed(q) /\ ints'[q] >= ints[q]
  BY <1>2 DEF Owed, Lives
<1>7. StillThere'
  BY <1>6 DEF IInv, StillThere
<1>8. Told'
  <2>1. \A q \in Pids : ints[q] \in 0..3 /\ ints'[q] \in 0..3
    BY <1>1, <1>2 DEF BazelTypeOK
  <2> QED BY <1>6, <2>1 DEF Told, IInv, InTodo, HandlerTypes
<1> QED BY <1>2, <1>3, <1>4, <1>5, <1>7, <1>8 DEF IInv

\* A pid that leaves the registry is nobody the handler owes anything.
LEMMA DroppedKeeps ==
  ASSUME IInv, registry' = Unregistered(cur), cur \in Pids, step' = "go", cur' = NoPid,
         UNCHANGED <<fault, bazelVars, handlerVars, ci, targets>>,
         \A p \in Pids : Owed(p)' => Owed(p) /\ p # cur,
         step = "reaped" \/ step = "registered",
         TaskTypes', OwnTypes', StepOK', TargetOK'
  PROVE  IInv'
<1> USE DEF bazelVars, handlerVars
<1>1. BazelTypeOK' /\ Coherent' /\ HandlerTypes'
  BY StillGentle DEF IInv, Gentle, HandlerTypes
<1>2. /\ registry \in Seq(Pids)
      /\ \A i, j \in 1..Len(registry) : registry[i] = registry[j] => i = j
  BY DEF IInv, TaskTypes, RegistryOK
<1> HIDE DEF Unregistered
<1>3. /\ \A i, j \in 1..Len(registry') : registry'[i] = registry'[j] => i = j
      /\ \A i \in 1..Len(registry') :
           registry'[i] # cur /\ \E j \in 1..Len(registry) : registry'[i] = registry[j]
      /\ \A j \in 1..Len(registry) : registry[j] # cur =>
           \E i \in 1..Len(registry') : registry'[i] = registry[j]
  <2> DEFINE r == Unregistered(cur)
  <2>1. /\ \A i, j \in 1..Len(r) : r[i] = r[j] => i = j
        /\ \A i \in 1..Len(r) : r[i] # cur /\ \E j \in 1..Len(registry) : r[i] = registry[j]
        /\ \A j \in 1..Len(registry) : registry[j] # cur => \E i \in 1..Len(r) : r[i] = registry[j]
    BY <1>2, UnregisteredRemoves
  <2>2. registry' = r
    OBVIOUS
  <2> HIDE DEF r
  <2> QED BY <2>1, <2>2
<1>4. RegistryOK'
  <2>1. \A i \in 1..Len(registry') : Own(registry'[i])
    BY <1>3 DEF IInv, RegistryOK
  <2>2. \A i \in 1..Len(registry') : Own(registry[i])'
    BY <2>1 DEF Own, Alive
  <2> QED BY <1>3, <2>2 DEF RegistryOK
<1>5. StillThere'
  <2> SUFFICES ASSUME NEW p \in Pids, Owed(p)' PROVE \E i \in 1..Len(registry') : registry'[i] = p
    BY DEF StillThere
  <2>1. PICK j \in 1..Len(registry) : registry[j] = p
    BY DEF IInv, StillThere
  <2> QED BY <1>3, <2>1
<1>6. Told'
  BY DEF IInv, Told, InTodo
<1> QED BY <1>1, <1>4, <1>5, <1>6 DEF IInv

LEMMA ReleasedKeeps ==
  ASSUME IInv, NEW l \in Labels, Released(l), UNCHANGED fault, OwnTypes',
         l \in {"sigint", "second", "third", "watch", "kill"} => target' \in Pids
  PROVE  IInv'
<1> USE DEF Released
<1>1. cur \in Pids /\ kind[cur] \notin Ours
  BY DEF IInv, TaskTypes, RegistryOK
<1>2. \A p \in Pids : Owed(p)' => Owed(p) /\ p # cur
  BY <1>1 DEF Owed, bazelVars
<1>3. TaskTypes'
  <2>1. registry' \in Seq(Pids)
    BY <1>1, UnregisteredRemoves DEF IInv, TaskTypes, RegistryOK
  <2>2. build' \in Pids \cup {NoPid} /\ "ok" \in Replies
    BY DEF IInv, TaskTypes, Replies
  <2> QED BY <2>1, <2>2 DEF IInv, TaskTypes
<1>4. StepOK' /\ TargetOK'
  BY DEF StepOK, TargetOK
<1> QED BY <1>1, <1>2, <1>3, <1>4, DroppedKeeps

LEMMA BuildFailsKeeps ==
  ASSUME IInv, BuildFails, UNCHANGED <<fault, ownVars>> PROVE IInv'
<1> USE DEF BuildFails
<1>1. cur \in Pids
  BY DEF IInv, TaskTypes
<1>2. \A p \in Pids : Owed(p)' => Owed(p) /\ p # cur
  BY <1>1 DEF Owed, bazelVars
<1>3. TaskTypes'
  <2>1. registry' \in Seq(Pids)
    BY <1>1, UnregisteredRemoves DEF IInv, TaskTypes, RegistryOK
  <2> QED BY <1>1, <2>1 DEF IInv, TaskTypes, Labels
<1>4. StepOK' /\ TargetOK' /\ OwnTypes'
  BY DEF StepOK, TargetOK, OwnTypes, ownVars, IInv
<1> QED BY <1>1, <1>2, <1>3, <1>4, DroppedKeeps

\* The child of a call goes over to the Build, or comes back from it.
LEMMA HandedKeeps ==
  ASSUME IInv, UNCHANGED <<fault, bazelVars, registry, abandoned, h, round, todo, ci, targets>>,
         step \in {"go", "registered"}, step' \in {"go", "registered"},
         TaskTypes', HandlerTypes', OwnTypes', StepOK', TargetOK'
  PROVE  IInv'
<1> USE DEF bazelVars
<1>1. BazelTypeOK' /\ Coherent'
  BY StillGentle DEF IInv, Gentle
<1>2. \A p \in Pids : (Own(p)' <=> Own(p)) /\ (Owed(p)' <=> Owed(p))
  BY DEF Own, Owed, Alive
<1>3. RegistryOK'
  <2>1. \A i \in 1..Len(registry) : registry[i] \in Pids /\ Own(registry[i])
    BY DEF IInv, RegistryOK, TaskTypes
  <2>2. \A i \in 1..Len(registry) : Own(registry[i])'
    BY <2>1 DEF Own, Alive
  <2> QED BY <2>2 DEF IInv, RegistryOK
<1>4. StillThere' /\ Told'
  BY <1>2 DEF IInv, StillThere, Told, InTodo
<1> QED BY <1>1, <1>3, <1>4 DEF IInv

LEMMA TaskKeeps ==
  ASSUME IInv, Task, UNCHANGED <<fault, ownVars>> PROVE IInv'
<1>0. OwnTypes'
  BY DEF IInv, OwnTypes, ownVars
<1>1. ASSUME EnterBuild \/ EnterInfo \/ EnterShutdown PROVE IInv'
  <2> USE <1>1 DEF EnterBuild, EnterInfo, EnterShutdown, Calls, Idle, handlerVars
  <2>1. TaskTypes' /\ HandlerTypes'
    BY DEF IInv, TaskTypes, HandlerTypes, Labels
  <2>2. step = "go"
    BY DEF IInv, StepOK, TaskTypes, SubLabels, ProbeLabels
  <2>3. StepOK' /\ TargetOK'
    BY <2>2 DEF StepOK, TargetOK
  <2> QED BY <1>0, <2>1, <2>2, <2>3, HandedKeeps
<1>2. ASSUME EnterWait \/ TryWait PROVE IInv'
  <2> USE <1>2 DEF EnterWait, TryWait, Calls, Idle, handlerVars
  <2>1. TaskTypes' /\ HandlerTypes'
    BY BazelAssumption DEF IInv, TaskTypes, HandlerTypes, Labels
  <2>2. step = "go"
    BY DEF IInv, StepOK, TaskTypes, SubLabels, ProbeLabels
  <2>3. StepOK' /\ TargetOK' /\ step' \in {"go", "registered"}
    BY <2>2 DEF StepOK, TargetOK, SubLabels
  <2> QED BY <1>0, <2>1, <2>2, <2>3, HandedKeeps
<1>3. ASSUME RunClient PROVE IInv'
  <2>1. PICK p \in Pids : \E k \in Ours : Spawn(k, p) /\ at \in SubLabels
    BY <1>3 DEF RunClient, Ours, SubLabels
  <2> QED BY <2>1, SpawnKeeps
<1>4. ASSUME ServerInfo \/ InfoReturns \/ CommandReturns PROVE IInv'
  <2>1. PICK l \in {"build.spawn", "idle"} : Released(l)
    BY <1>4 DEF ServerInfo, InfoReturns, CommandReturns
  <2>2. l \in Labels
    BY DEF Labels
  <2> QED BY <1>0, <2>1, <2>2, ReleasedKeeps
<1>5. ASSUME BuildReturns PROVE IInv'
  <2> USE <1>5 DEF BuildReturns, handlerVars
  <2>1. TaskTypes' /\ HandlerTypes'
    BY DEF IInv, TaskTypes, HandlerTypes, Labels
  <2>2. StepOK' /\ TargetOK'
    BY DEF StepOK, TargetOK
  <2> QED BY <1>0, <2>1, <2>2, HandedKeeps
<1>6. ASSUME TaskEnds PROVE IInv'
  <2> USE <1>6 DEF TaskEnds
  <2>1. TaskTypes' /\ HandlerTypes'
    BY DEF IInv, TaskTypes, HandlerTypes, Labels
  <2>2. step = "go"
    BY DEF IInv, StepOK, TaskTypes, SubLabels, ProbeLabels
  <2>3. StepOK' /\ TargetOK'
    BY <2>2 DEF StepOK, TargetOK
  <2> QED BY <1>0, <2>1, <2>2, <2>3, HandedKeeps
<1> QED BY <1>1, <1>2, <1>3, <1>4, <1>5, <1>6, RegisterKeeps, CollectKeeps, BuildFailsKeeps DEF Task

-----------------------------------------------------------------------------
(* The handler.                                                            *)
LEMMA HandlingKeeps ==
  ASSUME IInv, Gentle, Handling, UNCHANGED <<ownVars>>, HandlerTypes', Told',
         targets' = targets \/ targets' = Registered
  PROVE  IInv'
<1> USE DEF Handling, taskVars, ownVars
<1>1. BazelTypeOK' /\ Coherent'
  BY DEF Gentle
<1>2. TaskTypes' /\ OwnTypes' /\ StepOK' /\ TargetOK'
  BY DEF IInv, TaskTypes, OwnTypes, StepOK, TargetOK
<1>3. RegistryOK'
  BY RegistryKept
<1>4. StillThere'
  <2>1. CASE targets' = targets
    <3>1. \A p \in Pids : Owed(p)' => Owed(p)
      BY <2>1 DEF Gentle, Owed, Lives
    <3> QED BY <3>1 DEF IInv, StillThere
  <2>2. CASE targets' = Registered
    <3>1. \A p \in Registered : \E i \in 1..Len(registry) : registry[i] = p
      BY DEF Registered, ToSet, IInv, TaskTypes
    <3> QED BY <2>2, <3>1 DEF StillThere, Owed
  <2> QED BY <2>1, <2>2
<1> QED BY <1>1, <1>2, <1>3, <1>4 DEF IInv

\* A step of the handler that signals nobody.
LEMMA QuietHandler ==
  ASSUME IInv, UNCHANGED <<fault, bazelVars>>, Handling
  PROVE  /\ Gentle
         /\ targets' = targets => \A p \in Pids : (Owed(p)' <=> Owed(p)) /\ ints'[p] = ints[p]
         /\ \A p \in Pids : ints'[p] \in 0..3
         /\ ci' = ci /\ registry' = registry
<1>1. Gentle
  BY StillGentle DEF IInv
<1> QED BY <1>1 DEF bazelVars, Owed, Handling, taskVars, Gentle, BazelTypeOK

LEMMA SendKeeps ==
  ASSUME IInv, Send, UNCHANGED <<fault, ownVars>> PROVE IInv'
<1>1. /\ Head(todo) \in Pids /\ todo \in Seq(Pids) /\ todo # <<>> /\ round \in 1..4
  BY DEF IInv, HandlerTypes, Told, Send
<1>p. PICK p \in Pids : p = Head(todo)
  BY <1>1
<1>2. Gentle /\ (~Lives(p)' \/ (round # 4 /\ (ints'[p] >= 3 \/ ints'[p] >= ints[p] + 1)))
  <2>1. CASE ~IsPidRunning(p)
    <3>1. UNCHANGED bazelVars
      BY <1>p, <2>1 DEF Send
    <3>2. ~Lives(p)'
      BY <2>1, <3>1 DEF bazelVars, Lives, IsPidRunning
    <3> QED BY <3>1, <3>2, StillGentle DEF IInv
  <2>2. CASE IsPidRunning(p) /\ round = 4
    <3>1. Sigkill(p)
      BY <1>p, <2>2 DEF Send
    <3> QED BY <1>1, <3>1, SigkillGentle DEF IInv
  <2>3. CASE IsPidRunning(p) /\ round # 4
    <3>1. Sigint(p)
      BY <1>p, <2>3 DEF Send
    <3> QED BY <1>1, <2>3, <3>1, SigintGentle DEF IInv
  <2> QED BY <2>1, <2>2, <2>3
<1>3. HandlerTypes'
  BY <1>1 DEF IInv, HandlerTypes, Send, Handling
<1>4. \A i \in 1..Len(todo) : i = 1 \/ (i - 1 \in 1..Len(todo') /\ todo'[i - 1] = todo[i])
  BY <1>1 DEF Send
<1>5. Told'
  <2>1. h = "send" /\ h' = "send" /\ round' = round /\ targets' = targets /\ abandoned' = abandoned
    BY DEF Send, Handling, taskVars
  <2> SUFFICES ASSUME NEW q \in Pids, Owed(q)'
               PROVE  \/ InTodo(q)' /\ ints'[q] >= round - 1
                      \/ round <= 3 /\ ints'[q] >= round
    BY <1>1, <2>1 DEF Told
  <2>2. Owed(q) /\ Lives(q)' /\ ints'[q] >= ints[q] /\ ints[q] \in 0..3 /\ ints'[q] \in 0..3
    BY <1>2, <2>1 DEF Gentle, Owed, Lives, IInv, BazelTypeOK
  <2>3. CASE round <= 3 /\ ints[q] >= round
    BY <1>1, <2>2, <2>3
  <2>4. CASE InTodo(q) /\ ints[q] >= round - 1
    <3>1. PICK i \in 1..Len(todo) : todo[i] = q
      BY <2>4 DEF InTodo
    <3>2. CASE i = 1
      <4>1. q = p
        BY <1>1, <1>p, <3>1, <3>2
      <4> QED BY <1>1, <1>2, <2>2, <2>4, <4>1
    <3>3. CASE i # 1
      BY <1>1, <1>4, <2>2, <2>4, <3>1, <3>3 DEF InTodo
    <3> QED BY <3>2, <3>3
  <2> QED BY <2>1, <2>2, <2>3, <2>4 DEF IInv, Told
<1> QED BY <1>2, <1>3, <1>5, HandlingKeeps DEF Send

LEMMA HandlerKeeps ==
  ASSUME IInv, Handler, UNCHANGED <<fault, ownVars>> PROVE IInv'
<1>0. ASSUME UNCHANGED bazelVars, Handling
      PROVE  /\ Gentle
             /\ targets' = targets => \A p \in Pids : (Owed(p)' <=> Owed(p)) /\ ints'[p] = ints[p]
             /\ \A p \in Pids : ints'[p] \in 0..3
             /\ ci' = ci /\ registry' = registry
  BY <1>0, QuietHandler
<1>a. \A p \in Pids : ints[p] \in 0..3
  BY DEF IInv, BazelTypeOK
<1>1. ASSUME Signal PROVE IInv'
  <2> USE <1>1 DEF Signal, Goes
  <2>1. HandlerTypes'
    <3>1. Registered \subseteq Pids
      BY DEF IInv, TaskTypes, Registered, ToSet
    <3> QED BY <3>1 DEF IInv, HandlerTypes, Handling
  <2>2. Told'
    BY DEF Told
  <2> QED BY <1>0, <2>1, <2>2, HandlingKeeps
<1>2. ASSUME Look PROVE IInv'
  <2> USE <1>2 DEF Look, Goes, TickBegins
  <2>1. HandlerTypes'
    <3>1. cur \in Pids \cup {NoPid}
      BY DEF IInv, TaskTypes
    <3> QED BY <3>1 DEF IInv, HandlerTypes, Handling
  <2>2. Told'
    BY <1>0 DEF Told
  <2> QED BY <1>0, <2>1, <2>2, HandlingKeeps
<1>3. ASSUME Recheck PROVE IInv'
  <2> USE <1>3 DEF Recheck, Goes, ExitNow
  <2>1. HandlerTypes'
    <3>1. exited' \in BOOLEAN
      BY DEF IInv, HandlerTypes
    <3> QED BY <3>1 DEF IInv, HandlerTypes, Handling
  <2>2. CASE registry = <<>>
    <3>1. \A p \in Pids : ~Owed(p)
      BY <2>2 DEF IInv, StillThere
    <3>2. Told'
      BY <1>0, <2>2, <3>1 DEF Told
    <3> QED BY <1>0, <2>1, <3>2, HandlingKeeps
  <2>3. CASE registry # <<>>
    <3>1. Told'
      BY <1>0, <2>3 DEF Told
    <3> QED BY <1>0, <2>1, <3>1, HandlingKeeps
  <2> QED BY <2>2, <2>3
<1>4. ASSUME Burst PROVE IInv'
  <2> USE <1>4 DEF Burst, Goes
  <2>1. HandlerTypes'
    BY DEF IInv, HandlerTypes, Handling, TaskTypes
  <2>2. \A p \in Pids : Owed(p)' => InTodo(p)' /\ ints'[p] >= round - 1
    <3>1. \A p \in Pids : Owed(p)' => Owed(p) /\ ints'[p] = ints[p]
      BY <1>0
    <3>2. \A p \in Pids : Owed(p) => ints[p] >= round - 1 /\ \E i \in 1..Len(registry) : registry[i] = p
      BY DEF IInv, StillThere, Told
    <3> QED BY <3>1, <3>2 DEF InTodo
  <2>3. Told'
    BY <2>2 DEF Told, IInv
  <2> QED BY <1>0, <2>1, <2>3, HandlingKeeps
<1>5. ASSUME Sent PROVE IInv'
  <2> USE <1>5 DEF Sent, Goes, ExitNow, TickBegins
  <2>1. HandlerTypes'
    <3>1. cur \in Pids \cup {NoPid}
      BY DEF IInv, TaskTypes
    <3> QED BY <3>1 DEF IInv, HandlerTypes, Handling
  <2>2. \A p \in Pids : Owed(p) => round <= 3 /\ ints[p] >= round
    BY DEF IInv, Told, InTodo
  <2>3. round \in 0..4
    BY DEF IInv, HandlerTypes
  <2>4. Told'
    BY <1>0, <1>a, <2>2, <2>3 DEF Told
  <2> QED BY <1>0, <2>1, <2>4, HandlingKeeps
<1>6. ASSUME NextBurst PROVE IInv'
  <2> USE <1>6 DEF NextBurst, Goes, TickEnds
  <2>1. round \in 1..3
    BY DEF IInv, HandlerTypes, Told
  <2>2. HandlerTypes'
    BY <2>1 DEF IInv, HandlerTypes, Handling
  <2>3. Told'
    BY <1>0, <1>a, <2>1 DEF Told, IInv
  <2> QED BY <1>0, <2>2, <2>3, HandlingKeeps
<1> QED BY <1>1, <1>2, <1>3, <1>4, <1>5, <1>6, SendKeeps DEF Handler

-----------------------------------------------------------------------------
(* The calls of Cancellation.                                              *)
\* A step of the task's between two subprocesses.
LEMMA BetweenKeeps ==
  ASSUME IInv, Gentle, at \notin SubLabels, at' \in Labels, OwnTypes', TargetOK',
         UNCHANGED <<registry, step, cur, answer, build, abandoned, handlerVars, ci, targets>>
  PROVE  IInv'
<1>1. TaskTypes' /\ HandlerTypes'
  BY DEF IInv, TaskTypes, HandlerTypes, handlerVars
<1>2. StepOK'
  BY DEF IInv, StepOK
<1> QED BY <1>1, <1>2, QuietKeeps DEF handlerVars

LEMMA EnterKeeps ==
  ASSUME IInv, UNCHANGED fault,
         EnterCancel \/ EnterCancelWait \/ EnterForce \/ EnterHealth \/ EnterRecover
  PROVE  IInv'
<1> USE DEF EnterCancel, EnterCancelWait, EnterForce, EnterHealth, EnterRecover, Enter, Calls,
           Still, To, Returns, ownVars
<1>1. Gentle
  BY StillGentle DEF IInv
<1>2. at = "idle" /\ at \notin SubLabels
  BY DEF SubLabels, ProbeLabels
<1>3. at' \in {"idle", "cancel", "poll", "force", "probe", "list"}
  BY <1>2
<1>4. at' \in Labels /\ TargetOK'
  BY <1>3 DEF Labels, ProbeLabels, TargetOK
<1>5. OwnTypes'
  <2>1. auto' \in BOOLEAN
    BY DEF IInv, OwnTypes
  <2>2. waiting' \in BOOLEAN
    BY DEF IInv, OwnTypes
  <2>3. found' \in BOOLEAN
    BY DEF IInv, OwnTypes
  <2>4. result' \in Results /\ UNCHANGED <<target, cancelled>>
    BY DEF IInv, OwnTypes, Results
  <2> QED BY <2>1, <2>2, <2>3, <2>4 DEF IInv, OwnTypes
<1> QED BY <1>1, <1>2, <1>4, <1>5, BetweenKeeps

\* The steps that signal a client.
LEMMA SignallingKeeps ==
  ASSUME IInv, UNCHANGED fault, FirstSigint \/ LaterSigint \/ KillClient
  PROVE  IInv'
<1> USE DEF FirstSigint, LaterSigint, KillClient, At, To
<1>1. target \in Pids
  BY DEF IInv, TargetOK
<1>2. Gentle
  BY <1>1, SigintGentle, SigkillGentle DEF IInv
<1>3. at \notin SubLabels /\ at' \in Labels
  BY DEF SubLabels, ProbeLabels, Labels
<1>4. TargetOK'
  BY <1>1 DEF TargetOK
<1>5. OwnTypes'
  BY <1>1 DEF IInv, OwnTypes
<1> QED BY <1>2, <1>3, <1>4, <1>5, BetweenKeeps

\* The steps that signal the server, or nobody.
LEMMA BetweensKeep ==
  ASSUME IInv, UNCHANGED fault,
         \/ Late \/ Watch \/ KillServer \/ Clean \/ ExtractServerPid \/ KillWedged
         \/ ListEntries \/ RemoveEntries \/ Relist
  PROVE  IInv'
<1> USE DEF At, To, Returns
<1>1. BazelTypeOK /\ Coherent /\ OwnTypes
  BY DEF IInv
<1>2. CASE Late
  <2> USE <1>2 DEF Late, WaitDone, Going
  <2>1. Gentle
    BY <1>1, StillGentle
  <2>2. at \notin SubLabels /\ at' \in {"idle", "poll", "force"}
    BY DEF SubLabels, ProbeLabels
  <2>3. at' \in Labels /\ TargetOK'
    BY <2>2 DEF Labels, ProbeLabels, TargetOK
  <2>4. OwnTypes'
    BY <1>1 DEF OwnTypes, Results
  <2> QED BY <2>1, <2>2, <2>3, <2>4, BetweenKeeps
<1>3. CASE Watch
  <2> USE <1>3 DEF Watch, ForceReturns
  <2>1. Gentle
    BY <1>1, StillGentle
  <2>2. at \notin SubLabels /\ at' \in {"idle", "kill", "repoll"}
    BY DEF SubLabels, ProbeLabels
  <2>3. at' \in Labels /\ TargetOK'
    BY <2>2 DEF Labels, ProbeLabels, TargetOK, IInv
  <2>4. OwnTypes'
    BY <1>1 DEF OwnTypes, Results
  <2> QED BY <2>1, <2>2, <2>3, <2>4, BetweenKeeps
<1>4. CASE KillServer
  <2> USE <1>4 DEF KillServer, ForceReturns
  <2>1. Gentle
    BY <1>1, SigkillServerGentle
  <2>2. at \notin SubLabels /\ at' \in {"idle", "repoll"}
    BY DEF SubLabels, ProbeLabels
  <2>3. at' \in Labels /\ TargetOK'
    BY <2>2 DEF Labels, ProbeLabels, TargetOK
  <2>4. OwnTypes'
    BY <1>1 DEF OwnTypes, Results
  <2> QED BY <2>1, <2>2, <2>3, <2>4, BetweenKeeps
<1>5. CASE Clean \/ RemoveEntries
  <2> USE <1>5 DEF Clean, RemoveEntries, ownVars
  <2>1. Gentle
    BY <1>1, StrandedGentle
  <2>2. at \notin SubLabels /\ at' \in {"idle", "relist"}
    BY DEF SubLabels, ProbeLabels
  <2>3. at' \in Labels /\ TargetOK'
    BY <2>2 DEF Labels, TargetOK
  <2>4. OwnTypes'
    BY <1>1 DEF OwnTypes, Results
  <2> QED BY <2>1, <2>2, <2>3, <2>4, BetweenKeeps
<1>6. CASE ExtractServerPid \/ ListEntries \/ Relist
  <2> USE <1>6 DEF ExtractServerPid, ListEntries, Relist
  <2>1. Gentle
    BY <1>1, StillGentle
  <2>2. at \notin SubLabels /\ at' \in {"idle", "killWedged", "remove"}
    BY DEF SubLabels, ProbeLabels
  <2>3. at' \in Labels /\ TargetOK'
    BY <2>2 DEF Labels, TargetOK
  <2>4. found' \in BOOLEAN
    BY <1>1 DEF OwnTypes, BazelTypeOK
  <2>5. result' \in Results
    BY <1>1 DEF OwnTypes, Results
  <2>6. OwnTypes'
    BY <1>1, <2>4, <2>5 DEF OwnTypes
  <2> QED BY <2>1, <2>2, <2>3, <2>6, BetweenKeeps
<1>7. CASE KillWedged
  <2> USE <1>7 DEF KillWedged, ownVars
  <2>1. Gentle
    BY <1>1, SigkillServerGentle
  <2>2. at \notin SubLabels /\ at' \in Labels
    BY DEF SubLabels, ProbeLabels, Labels
  <2>3. TargetOK' /\ OwnTypes'
    BY <1>1 DEF TargetOK, OwnTypes
  <2> QED BY <2>1, <2>2, <2>3, BetweenKeeps
<1> QED BY <1>2, <1>3, <1>4, <1>5, <1>6, <1>7

\* The steps that take the answer of a subprocess.
LEMMA AnswersKeep ==
  ASSUME IInv, UNCHANGED fault,
         \/ ClientPid \/ Poll \/ Repoll \/ ForceClientPid \/ StillBusy \/ ServerPid
         \/ Checked \/ OutputBase \/ Retried
  PROVE  IInv'
<1> USE DEF ClientPid, Poll, Repoll, ForceClientPid, StillBusy, ServerPid, Checked,
           OutputBase, Retried, ForceReleases, WaitDone, Going, Held
<1>1. PICK l \in {"sigint", "idle", "late", "repoll", "second", "busy", "pid", "killServer",
                  "base", "pidFile", "clean"} : Released(l)
  OBVIOUS
<1>2. l \in Labels
  BY DEF Labels, ProbeLabels
<1>3. l \in {"sigint", "second"} => target' \in Pids
  BY <1>1 DEF Released
<1>4. OwnTypes'
  BY DEF IInv, OwnTypes, Results
<1> QED BY <1>1, <1>2, <1>3, <1>4, ReleasedKeeps

LEMMA ProbeKeeps ==
  ASSUME IInv, Probe, UNCHANGED fault PROVE IInv'
<1>1. PICK p \in Pids, k \in Ours : Spawn(k, p) /\ at \in SubLabels
  BY DEF Probe, Ours, SubLabels
<1> QED BY <1>1, SpawnKeeps DEF Probe

-----------------------------------------------------------------------------
LEMMA NextIInv == IInv /\ [Next]_vars => IInv'
<1> SUFFICES ASSUME IInv, [Next]_vars PROVE IInv'
  OBVIOUS
<1>1. CASE OsSteps
  <2>1. World \/ (\E p \in Pids : Theirs(p) \/ Stranger(p))
    BY <1>1 DEF OsSteps, Alone, Others
  <2>2. Gentle
    BY <1>1, <2>1, WorldGentle, TheirsGentle, StrangerGentle DEF OsSteps, Alone, Runs, IInv
  <2> QED BY <1>1, <2>2, OsKeeps DEF OsSteps, Alone
<1>2. CASE TaskSteps
  <2>1. CASE Task /\ UNCHANGED ownVars
    BY <1>2, <2>1, TaskKeeps DEF TaskSteps, Runs
  <2>2. CASE OwnCalls
    BY <1>2, <2>2, EnterKeeps, SignallingKeeps, BetweensKeep, AnswersKeep, ProbeKeeps
       DEF TaskSteps, Runs, OwnCalls
  <2> QED BY <1>2, <2>1, <2>2 DEF TaskSteps
<1>3. CASE HandlerSteps
  BY <1>3, HandlerKeeps DEF HandlerSteps, Runs
<1>4. CASE UNCHANGED vars
  BY <1>4, StillGentle, OsKeeps DEF vars, IInv
<1> QED BY <1>1, <1>2, <1>3, <1>4 DEF Next

\* The invariant holds.
THEOREM Invariance == Spec => []IInv
<1> QED BY InitIInv, NextIInv, PTL DEF Spec

(* The registry names each unreaped child of ours once, and a pid that may *)
(* be a stranger's only until the task's next step (live.rs).              *)
THEOREM RegistryIsSound == Spec => []PidsSound
<1>1. IInv => PidsSound
  <2> SUFFICES ASSUME IInv PROVE PidsSound
    OBVIOUS
  <2>1. TypeOK
    BY TypesSplit DEF IInv
  <2>2. DOMAIN registry = 1..Len(registry)
    BY DEF IInv, TaskTypes
  <2>3. RegistryIsOurs
    BY <2>2 DEF IInv, RegistryOK, RegistryIsOurs, Registered, ToSet, Own
  <2> QED BY <2>1, <2>3 DEF PidsSound
<1> QED BY Invariance, <1>1, PTL

(* No registered client whose Build was made survives the handler off CI,  *)
(* nor on CI without its two SIGINTs (main.rs:368).                        *)
THEOREM HandlerReachesAll == Spec => []SignalReachesAll
<1>1. IInv => SignalReachesAll
  <2> SUFFICES ASSUME IInv, h = "exit", NEW p \in targets \ abandoned
               PROVE  \/ kind[p] \notin Ours \/ proc[p] \notin {"starting", "running"}
                      \/ ci /\ ints[p] >= 2
    BY DEF SignalReachesAll
  <2>1. p \in Pids
    BY DEF IInv, HandlerTypes
  <2> QED BY <2>1 DEF IInv, Told, Owed
<1> QED BY Invariance, <1>1, PTL

(* A health check that killed the server answers healthy only from the     *)
(* cleanup, which leaves no trash behind without a warning                 *)
(* (health_check.rs:187, 300).                                             *)
THEOREM KillersClean == Spec => KilledMeansCleaned
<1> DEFINE A == found /\ at \in {"retry", "clean"} /\ at' = "idle"
                  /\ result' \in {"healthy", "healthy_warned"}
                  => ("trash" \in stranded' <=> result' = "healthy_warned")
<1>1. [Next]_vars => [A]_vars
  <2> SUFFICES ASSUME Next, at \in {"retry", "clean"}, at' = "idle",
                      result' \in {"healthy", "healthy_warned"}
               PROVE  "trash" \in stranded' <=> result' = "healthy_warned"
    OBVIOUS
  <2>1. ~OsSteps /\ ~HandlerSteps
    BY DEF OsSteps, Alone, HandlerSteps, Handler, Signal, Look, Recheck, Burst, Send, Sent,
           NextBurst, Handling, clientVars, taskVars
  <2>2. ~Task
    BY DEF Task, EnterBuild, EnterInfo, EnterShutdown, EnterWait, TryWait, Calls, RunClient,
           Spawn, Register, Collect, ServerInfo, InfoReturns, CommandReturns, BuildReturns,
           BuildFails, TaskEnds
  <2>3. OwnCalls
    BY <2>1, <2>2 DEF Next, TaskSteps
  <2>4. at' # at
    OBVIOUS
  <2>5. ~(EnterCancel \/ EnterCancelWait \/ EnterForce \/ EnterHealth \/ EnterRecover \/ Probe)
    BY DEF EnterCancel, EnterCancelWait, EnterForce, EnterHealth, EnterRecover, Enter, Calls,
           Probe, Spawn
  <2>6. ~(ClientPid \/ Poll \/ Repoll \/ ForceClientPid \/ StillBusy \/ ServerPid
          \/ Checked \/ OutputBase)
    BY DEF ClientPid, Poll, Repoll, ForceClientPid, StillBusy, ServerPid, Checked, OutputBase,
           After
  <2>7. ~(FirstSigint \/ Late \/ LaterSigint \/ Watch \/ KillClient \/ KillServer
          \/ ExtractServerPid \/ KillWedged \/ ListEntries \/ RemoveEntries \/ Relist)
    BY DEF FirstSigint, Late, LaterSigint, Watch, KillClient, KillServer, ExtractServerPid,
           KillWedged, ListEntries, RemoveEntries, Relist, At
  <2>8. ~Retried
    BY DEF Retried, Released
  <2>9. Clean
    BY <2>3, <2>5, <2>6, <2>7, <2>8 DEF OwnCalls
  <2> QED BY <2>9 DEF Clean, Returns
<1> QED BY <1>1, PTL DEF Spec, KilledMeansCleaned
=============================================================================
