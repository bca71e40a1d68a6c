------------------------------- MODULE Bazel -------------------------------
(* What aspect-cli meets when it runs bazel commands against one output    *)
(* base: process ids, clients that queue for the server's lock, the        *)
(* server, its pid file and its sandbox.  None of it is code of this       *)
(* repository: it is modelled from how crates/axl-runtime/src/engine/bazel *)
(* uses it, and from process.rs, which signals it.                         *)
EXTENDS Integers, Sequences, FiniteSets

CONSTANTS
  Pids,   \* process ids of clients
  NoPid,
  Faults  \* what may happen, one of them in a behaviour: "theirs", clients of
          \* others, "crash" of a client, "deaf" clients that take no SIGINT,
          \* "locks": "bazel info output_base" needs the server's lock, as
          \* health_check.rs says and info.rs denies, "probe" of a server that
          \* fails, "late" death of a killed server, "bind" of an iterator or
          \* sink (Clients), or "none"

ASSUME BazelAssumption ==
  /\ NoPid \notin Pids /\ IsFiniteSet(Pids)
  /\ Faults \subseteq {"none", "theirs", "crash", "deaf", "locks", "probe", "late", "bind"}

VARIABLES
  fault,     \* which of Faults
  proc,      \* for each pid: "free", a "stranger"'s, or a client "starting",
             \* "running" its command, "done" with it, or an unreaped "zombie"
  kind,      \* for each pid: what the client was started as
  ints,      \* for each pid: SIGINTs the client has had
  lock,      \* the client whose command the server runs, NoPid when it is free
  orphaned,  \* that client is gone, the command is not
  server,    \* "down", "up", or "dying" of a SIGKILL
  pidFile,   \* server/server.pid.txt exists
  stranded,  \* what killed servers left in sandbox/: the "trash" directory that
             \* the next command trips over, a strategy's "tree"
  reply      \* for each pid: what the last client of that pid came back with

bazelVars == <<proc, kind, ints, lock, orphaned, server, pidFile, stranded, reply>>

Probes == {"probe"}  \* bazel --noblock_for_lock info
Ours == {"build", "info", "probe", "shutdown"}
Kinds == Ours \cup {"theirs", "none"}
Phases == {"starting", "running", "done"}
Replies == {"ok", "failed"} \cup Pids  \* a pid: exit code 9, the holder's in stderr

Leftovers == {"trash", "tree"}

Alive(p) == proc[p] \in Phases
Busy == lock # NoPid

BazelTypeOK ==
  /\ fault \in Faults
  /\ proc \in [Pids -> {"free", "stranger", "zombie"} \cup Phases]
  /\ kind \in [Pids -> Kinds] /\ ints \in [Pids -> 0..3]
  /\ lock \in Pids \cup {NoPid} /\ orphaned \in BOOLEAN
  /\ server \in {"down", "up", "dying"} /\ pidFile \in BOOLEAN
  /\ stranded \subseteq Leftovers /\ reply \in [Pids -> Replies]
  /\ orphaned => Busy
  /\ Busy => server # "down"
  /\ Busy /\ ~orphaned => proc[lock] = "running"

\* Nobody runs bazel yet; an earlier server was killed and left its mark.
BazelInit ==
  /\ fault \in Faults
  /\ proc = [p \in Pids |-> "free"] /\ kind = [p \in Pids |-> "none"]
  /\ ints = [p \in Pids |-> 0] /\ reply = [p \in Pids |-> "ok"]
  /\ lock = NoPid /\ orphaned = FALSE
  /\ server = "up" /\ pidFile = TRUE /\ stranded = Leftovers

-----------------------------------------------------------------------------
(* Processes.                                                              *)
Start(p, k) ==
  /\ proc[p] = "free"
  /\ proc' = [proc EXCEPT ![p] = "starting"]
  /\ kind' = [kind EXCEPT ![p] = k]
  /\ UNCHANGED <<ints, lock, orphaned, server, pidFile, stranded, reply>>

\* A child of ours stays a zombie until it is waited for.
Gone(p) == [proc EXCEPT ![p] = IF kind[p] \in Ours THEN "zombie" ELSE "free"]
Forget(p) ==
  /\ kind' = [kind EXCEPT ![p] = "none"]
  /\ ints' = [ints EXCEPT ![p] = 0]
  /\ reply' = [reply EXCEPT ![p] = "ok"]

Reap(p) ==
  /\ proc[p] = "zombie"
  /\ proc' = [proc EXCEPT ![p] = "free"]
  /\ Forget(p)
  /\ UNCHANGED <<lock, orphaned, server, pidFile, stranded>>

\* An unrelated process takes a free pid, or gives it back.  (Cancellation lets it
\* take those that aspect-cli still refers to: nobody else would notice.)
Stranger(p) ==
  /\ \/ proc[p] = "free" /\ proc' = [proc EXCEPT ![p] = "stranger"]
     \/ proc[p] = "stranger" /\ proc' = [proc EXCEPT ![p] = "free"]
  /\ UNCHANGED <<kind, ints, lock, orphaned, server, pidFile, stranded, reply>>

-----------------------------------------------------------------------------
(* Clients and the server.                                                 *)
\* The server goes down with its command; the client, told or cut off, ends.
Downed ==
  /\ server' = "down" /\ lock' = NoPid /\ orphaned' = FALSE
  /\ proc' = IF Busy /\ ~orphaned THEN [proc EXCEPT ![lock] = "done"] ELSE proc
  /\ reply' = IF Busy /\ ~orphaned THEN [reply EXCEPT ![lock] = "failed"] ELSE reply
  /\ stranded' \in IF Busy THEN {stranded, Leftovers} ELSE {stranded}

Acquire(p) ==
  /\ proc[p] = "starting" /\ kind[p] \notin Probes /\ ~Busy /\ server # "dying"
  /\ proc' = [proc EXCEPT ![p] = "running"]
  /\ lock' = p /\ server' = "up" /\ pidFile' = TRUE
  /\ UNCHANGED <<kind, ints, orphaned, stranded, reply>>

Finish(p) ==
  /\ lock = p /\ ~orphaned /\ server = "up"
  /\ proc' = [proc EXCEPT ![p] = "done"] /\ lock' = NoPid
  /\ reply' = [reply EXCEPT ![p] = IF ints[p] = 0 THEN "ok" ELSE "failed"]
  /\ IF kind[p] = "shutdown"
     THEN server' = "down" /\ pidFile' = FALSE
     ELSE UNCHANGED <<server, pidFile>>
  /\ UNCHANGED <<kind, ints, orphaned, stranded>>

ProbeAnswers(p) ==
  /\ proc[p] = "starting" /\ kind[p] \in Probes
  /\ proc' = [proc EXCEPT ![p] = "done"]
  /\ \/ /\ reply' = [reply EXCEPT ![p] = IF Busy THEN lock ELSE "ok"]
        /\ IF Busy THEN UNCHANGED <<server, pidFile>>
           ELSE server # "dying" /\ server' = "up" /\ pidFile' = TRUE
     \/ /\ fault = "probe"
        /\ reply' = [reply EXCEPT ![p] = "failed"] /\ UNCHANGED <<server, pidFile>>
  /\ UNCHANGED <<kind, ints, lock, orphaned, stranded>>

Exit(p) ==
  /\ proc[p] = "done"
  /\ proc' = Gone(p)
  /\ IF kind[p] \in Ours THEN UNCHANGED <<kind, ints, reply>> ELSE Forget(p)
  /\ UNCHANGED <<lock, orphaned, server, pidFile, stranded>>

\* What SIGKILL, or a crash, makes of a client: a command it held runs on.
Killed(p) ==
  /\ proc' = Gone(p)
  /\ IF kind[p] \in Ours
     THEN reply' = [reply EXCEPT ![p] = "failed"] /\ UNCHANGED <<kind, ints>>
     ELSE Forget(p)
  /\ orphaned' = (orphaned \/ lock = p)
  /\ UNCHANGED <<lock, server, pidFile, stranded>>

\* (A probe that crashes is one that fails.)
Crash(p) ==
  /\ fault = "crash" /\ Alive(p) /\ kind[p] \notin Probes /\ Killed(p)

OrphanEnds ==
  /\ orphaned /\ server = "up"
  /\ lock' = NoPid /\ orphaned' = FALSE
  /\ UNCHANGED <<proc, kind, ints, server, pidFile, stranded, reply>>

ServerDies ==
  /\ server = "dying"
  /\ Downed
  /\ UNCHANGED <<kind, ints, pidFile>>

\* Another terminal runs bazel on the same output base.
Theirs(p) == fault = "theirs" /\ Start(p, "theirs")

World ==
  \/ \E p \in Pids : Acquire(p) \/ Finish(p)
                       \/ ProbeAnswers(p) \/ Exit(p) \/ Crash(p)
  \/ OrphanEnds \/ ServerDies

-----------------------------------------------------------------------------
(* Signals (process.rs).  A zombie still answers to its pid.               *)
IsPidRunning(p) == proc[p] # "free"

\* The first two cancel the command and the third kills the server and ends
\* the client; one that is still waiting for the lock ends at once.
Sigint(p) ==
  IF ~Alive(p) \/ proc[p] = "done" THEN UNCHANGED bazelVars
  ELSE IF proc[p] = "starting"
  THEN /\ proc' = [proc EXCEPT ![p] = "done"]
       /\ ints' = [ints EXCEPT ![p] = IF @ < 3 THEN @ + 1 ELSE @]
       /\ reply' = [reply EXCEPT ![p] = "failed"]
       /\ UNCHANGED <<kind, lock, orphaned, server, pidFile, stranded>>
  ELSE /\ ints' = [ints EXCEPT ![p] = IF @ < 3 THEN @ + 1 ELSE @]
       /\ \/ ints[p] >= 2 /\ Downed
          \/ /\ ints[p] < 2 \/ fault = "deaf"
             /\ UNCHANGED <<proc, lock, orphaned, server, stranded, reply>>
       /\ UNCHANGED <<kind, pidFile>>

Sigkill(p) ==
  IF Alive(p) THEN Killed(p)
  ELSE IF proc[p] = "stranger"
  THEN /\ proc' = [proc EXCEPT ![p] = "free"]
       /\ UNCHANGED <<kind, ints, lock, orphaned, server, pidFile, stranded, reply>>
  ELSE UNCHANGED bazelVars

\* Its pid file stays.
SigkillServer ==
  IF server # "up" THEN UNCHANGED bazelVars
  ELSE IF fault = "late"
  THEN /\ server' = "dying"
       /\ UNCHANGED <<proc, kind, ints, lock, orphaned, pidFile, stranded, reply>>
  ELSE Downed /\ UNCHANGED <<kind, ints, pidFile>>
=============================================================================
