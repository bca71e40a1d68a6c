---------------------------- MODULE Cancellation ----------------------------
(* What a task does to the invocation that runs on the server, which need  *)
(* not be its own: cancel_invocation(), wait() and force() of its          *)
(* Cancellation (engine/bazel/cancel.rs), health_check() (health_check.rs) *)
(* and recover_poisoned_sandbox() (sandbox_recovery.rs), each with the     *)
(* bazel processes it asks (info.rs), on the thread, the registry and      *)
(* under the signal handler of Clients.                                    *)
EXTENDS Clients

CONSTANT OutputBaseFlag  \* the startup flags have --output_base=

ASSUME CancellationAssumption == OutputBaseFlag \in BOOLEAN

VARIABLES
  target,     \* the client that client_pid() found, until the call returns
  auto,       \* the Cancellation's force_kill_after_ms is not 0
  waiting,    \* force_kill() was called by wait()
  found,      \* health_check(): the pid file was there; it killed the server
  result,     \* what the last of these calls returned
  cancelled   \* history: the clients that had a SIGINT from these calls

ownVars == <<target, auto, waiting, found, result, cancelled>>
vars == <<fault, bazelVars, clientVars, ownVars>>

ProbeLabels == {"cancel", "poll", "force", "busy", "pid", "repoll", "probe", "retry"}
Labels == ProbeLabels \cup {"idle", "ended", "build.info", "build.spawn", "info", "wait",
  "shutdown", "sigint", "late", "second", "third", "watch", "kill", "killServer",
  "base", "clean", "pidFile", "killWedged", "list", "remove", "relist"}
\* "healthy_warned" is "healthy" after the warning that the trash resists.
Results == {"none", "true", "false", "healthy", "healthy_warned", "unhealthy",
            "inconclusive", "clean", "repaired", "still_poisoned"}

TypeOK ==
  /\ ClientsTypeOK /\ at \in Labels
  /\ target \in Pids \cup {NoPid} /\ cancelled \subseteq Pids
  /\ auto \in BOOLEAN /\ waiting \in BOOLEAN /\ found \in BOOLEAN
  /\ result \in Results

Init ==
  /\ ClientsInit
  /\ target = NoPid /\ auto = FALSE /\ waiting = FALSE /\ found = FALSE
  /\ result = "none" /\ cancelled = {}

-----------------------------------------------------------------------------
(* Steps of these calls.                                                   *)
Still == UNCHANGED <<bazelVars, registry, answer, abandoned, handlerVars, ci, targets,
                     step, cur, build>>
Enter(c, l) == Calls(c) /\ at' = l /\ UNCHANGED script /\ Still
To(l) == at' = l /\ UNCHANGED script
Returns(r) == at' = "idle" /\ Return /\ result' = r
\* A step between two subprocesses.
At(l) == at = l /\ UNCHANGED <<registry, step, cur, answer, build, abandoned,
                               handlerVars, ci, targets>>

Held == answer \in Pids  \* exit code 9
After(l) == at = l /\ step = "reaped"

Probe ==
  /\ \E p \in Pids :
       \/ at \in ProbeLabels /\ Spawn("probe", p)
       \/ at = "base" /\ Spawn("info", p)
  /\ UNCHANGED ownVars

-----------------------------------------------------------------------------
(* cancel_invocation(): the first SIGINT.                                  *)
EnterCancel ==
  /\ \/ Enter("cancel", "cancel") /\ auto' = TRUE
     \/ Enter("cancel_manual", "cancel") /\ auto' = FALSE
  /\ UNCHANGED <<target, waiting, found, result, cancelled>>

ClientPid ==
  /\ After("cancel")
  /\ IF Held THEN Released("sigint") /\ target' = answer /\ UNCHANGED script
     ELSE Released("idle") /\ Return /\ UNCHANGED target
  /\ UNCHANGED <<auto, waiting, found, result, cancelled>>

FirstSigint ==
  /\ At("sigint")
  /\ Sigint(target) /\ cancelled' = cancelled \cup {target} /\ target' = NoPid
  /\ at' = "idle" /\ Return
  /\ UNCHANGED <<auto, waiting, found, result>>

-----------------------------------------------------------------------------
(* Cancellation.wait().                                                    *)
\* validate_wait_params: a timeout and the automatic escalation exclude each
\* other, and one of them is needed.
EnterCancelWait ==
  \E timed \in BOOLEAN :
    /\ Calls(IF timed THEN "cancel_wait_timeout" ELSE "cancel_wait")
    /\ IF timed = auto THEN Raise /\ UNCHANGED at ELSE To("poll")
    /\ waiting' = (timed # auto)
    /\ Still /\ UNCHANGED <<target, auto, found, result, cancelled>>

WaitDone(r) == Return /\ result' = r /\ waiting' = FALSE
Going == UNCHANGED <<script, result, waiting>>

Poll ==
  /\ After("poll")
  /\ IF Held THEN Released("late") /\ Going ELSE Released("idle") /\ WaitDone("true")
  /\ UNCHANGED <<target, auto, found, cancelled>>

\* Whatever the clock says of the timeout, or of force_kill_after_ms.
Late ==
  /\ At("late") /\ UNCHANGED bazelVars
  /\ \/ at' = "poll" /\ Going
     \/ ~auto /\ at' = "idle" /\ WaitDone("false")
     \/ auto /\ at' = "force" /\ Going
  /\ UNCHANGED <<target, auto, found, cancelled>>

\* After force_kill(): for as long as it takes.
Repoll ==
  /\ After("repoll")
  /\ IF Held THEN Released("repoll") /\ Going ELSE Released("idle") /\ WaitDone("true")
  /\ UNCHANGED <<target, auto, found, cancelled>>

-----------------------------------------------------------------------------
(* force_kill().                                                           *)
EnterForce ==
  /\ Enter("force", "force") /\ UNCHANGED ownVars

ForceReturns(r) ==
  /\ target' = NoPid
  /\ IF waiting THEN To("repoll") /\ UNCHANGED result ELSE Returns(r)
ForceReleases(r) ==
  /\ target' = NoPid
  /\ IF waiting THEN Released("repoll") /\ UNCHANGED <<script, result>>
     ELSE Released("idle") /\ Return /\ result' = r

ForceClientPid ==
  /\ After("force")
  /\ IF Held THEN Released("second") /\ target' = answer
     ELSE Released("busy") /\ target' = NoPid
  /\ UNCHANGED <<script, auto, waiting, found, result, cancelled>>

LaterSigint ==
  /\ \/ At("second") /\ To("third")
     \/ At("third") /\ To("watch")
  /\ Sigint(target) /\ cancelled' = cancelled \cup {target}
  /\ UNCHANGED <<target, auto, waiting, found, result>>

\* Mutant: there is no end to the watch.
WatchForever ==
  /\ At("watch") /\ UNCHANGED bazelVars
  /\ ~IsPidRunning(target) /\ ForceReturns("true")
  /\ UNCHANGED <<auto, waiting, found, cancelled>>

\* The client may be watched for FORCE_KILL_TIMEOUT_MS.
Watch ==
  /\ At("watch") /\ UNCHANGED bazelVars
  /\ IF IsPidRunning(target) THEN To("kill") /\ UNCHANGED <<target, result>>
     ELSE ForceReturns("true")
  /\ UNCHANGED <<auto, waiting, found, cancelled>>

KillClient ==
  /\ At("kill") /\ To("pid")
  /\ Sigkill(target)
  /\ UNCHANGED <<target, auto, waiting, found, result, cancelled>>

StillBusy ==
  /\ After("busy")
  /\ IF Held THEN Released("pid") /\ UNCHANGED <<script, target, result>>
     ELSE ForceReleases("false")
  /\ UNCHANGED <<auto, waiting, found, cancelled>>

\* server_pid_nonblocking(): the output base, then the file in it.
OutputBaseIsTold ==
  answer # "failed" /\ (Held => fault # "locks")

ServerPid ==
  /\ After("pid")
  /\ IF OutputBaseIsTold /\ pidFile
     THEN Released("killServer") /\ UNCHANGED <<script, target, result>>
     ELSE ForceReleases(IF target = NoPid THEN "false" ELSE "true")
  /\ UNCHANGED <<auto, waiting, found, cancelled>>

KillServer ==
  /\ At("killServer") /\ SigkillServer
  /\ ForceReturns("true")
  /\ UNCHANGED <<auto, waiting, found, cancelled>>

-----------------------------------------------------------------------------
(* health_check().                                                         *)
EnterHealth ==
  /\ Enter("health", "probe") /\ found' = FALSE
  /\ UNCHANGED <<target, auto, waiting, result, cancelled>>

\* A code outside RETRYABLE_EXIT_CODES is a matter of configuration.
Checked ==
  /\ After("probe")
  /\ \/ answer = "ok" /\ Released("base") /\ UNCHANGED <<script, result>>
     \/ answer = "failed" /\ Released("idle") /\ Return /\ result' = "inconclusive"
     \/ /\ answer # "ok"
        /\ IF OutputBaseFlag THEN Released("pidFile") /\ UNCHANGED <<script, result>>
           ELSE Released("idle") /\ Return /\ result' = "unhealthy"
  /\ UNCHANGED <<target, auto, waiting, found, cancelled>>

\* get_output_base() waits for the lock.
OutputBase ==
  /\ After("base")
  /\ IF answer = "ok" THEN Released("clean") /\ UNCHANGED <<script, result>>
     ELSE Released("idle") /\ Return /\ result' = "healthy"
  /\ UNCHANGED <<target, auto, waiting, found, cancelled>>

\* cleanup_stranded_sandbox_state(): what it cannot remove it warns of, and run()
\* does not ask.
Clean ==
  /\ At("clean")
  /\ \/ stranded' = stranded \ {"trash"} /\ Returns("healthy")
     \/ "trash" \in stranded /\ UNCHANGED stranded /\ Returns("healthy_warned")
  /\ UNCHANGED <<proc, kind, ints, lock, orphaned, server, pidFile, reply>>
  /\ UNCHANGED <<target, auto, waiting, found, cancelled>>

ExtractServerPid ==
  /\ At("pidFile") /\ UNCHANGED bazelVars
  /\ IF pidFile THEN To("killWedged") /\ UNCHANGED result ELSE Returns("unhealthy")
  /\ found' = pidFile
  /\ UNCHANGED <<target, auto, waiting, cancelled>>

KillWedged ==
  /\ At("killWedged") /\ To("retry")
  /\ SigkillServer
  /\ UNCHANGED ownVars

\* Mutant: the cleanup is left to the first probe's path.
RetriedOnly ==
  /\ After("retry")
  /\ Released("idle") /\ Return /\ result' = IF answer = "ok" THEN "healthy" ELSE "unhealthy"
  /\ UNCHANGED <<target, auto, waiting, found, cancelled>>

Retried ==
  /\ After("retry")
  /\ IF answer = "ok" THEN Released("clean") /\ UNCHANGED <<script, result>>
     ELSE Released("idle") /\ Return /\ result' = "unhealthy"
  /\ UNCHANGED <<target, auto, waiting, found, cancelled>>

-----------------------------------------------------------------------------
(* recover_poisoned_sandbox(): what a command keeps in the sandbox while it *)
(* runs looks no different.                                                 *)
Entries == Busy \/ "tree" \in stranded

EnterRecover ==
  /\ IF OutputBaseFlag THEN Enter("recover", "list") /\ UNCHANGED result
     ELSE Calls("recover") /\ Returns("clean") /\ Still
  /\ UNCHANGED <<target, auto, waiting, found, cancelled>>

ListEntries ==
  /\ At("list") /\ UNCHANGED bazelVars
  /\ IF Entries THEN To("remove") /\ UNCHANGED result ELSE Returns("clean")
  /\ UNCHANGED <<target, auto, waiting, found, cancelled>>

\* An entry may resist.
RemoveEntries ==
  /\ At("remove") /\ To("relist")
  /\ stranded' \in {stranded, stranded \ {"tree"}}
  /\ UNCHANGED <<proc, kind, ints, lock, orphaned, server, pidFile, reply>>
  /\ UNCHANGED ownVars

Relist ==
  /\ At("relist") /\ UNCHANGED bazelVars
  /\ Returns(IF Entries THEN "still_poisoned" ELSE "repaired")
  /\ UNCHANGED <<target, auto, waiting, found, cancelled>>

-----------------------------------------------------------------------------
OwnCalls ==
  \/ EnterCancel \/ ClientPid \/ FirstSigint
  \/ EnterCancelWait \/ Poll \/ Late \/ Repoll
  \/ EnterForce \/ ForceClientPid \/ LaterSigint \/ Watch \/ KillClient
  \/ StillBusy \/ ServerPid \/ KillServer
  \/ EnterHealth \/ Checked \/ OutputBase \/ Clean \/ ExtractServerPid \/ KillWedged
  \/ Retried \/ EnterRecover \/ ListEntries \/ RemoveEntries \/ Relist \/ Probe

\* Others take no pid when it is the last one: only the bound has a last pid.
Spare(p) == \E q \in Pids \ {p} : proc[q] = "free"
Others ==
  \E p \in Pids :
    \/ Spare(p) /\ Theirs(p)
    \/ Stranger(p) /\ (proc[p] = "free" =>
         Spare(p) /\ p \in Registered \cup ToSet(todo) \cup {target})

Runs == ~exited /\ UNCHANGED fault
Alone(A) == A /\ Runs /\ UNCHANGED <<clientVars, ownVars>>
OsSteps == Alone(World \/ Others)
TaskSteps == Runs /\ ((Task /\ UNCHANGED ownVars) \/ OwnCalls)
HandlerSteps == Runs /\ Handler /\ UNCHANGED ownVars

Next == OsSteps \/ TaskSteps \/ HandlerSteps
Spec == Init /\ [][Next]_vars

\* The threads run, a subprocess that can end does, and so does a killed
\* server.  A command need not end, nor a deaf client.
Fairness ==
  /\ WF_vars(TaskSteps) /\ WF_vars(h # "idle" /\ HandlerSteps)
  /\ \A p \in Pids : WF_vars(Alone(Exit(p) \/ ProbeAnswers(p)))
  /\ WF_vars(Alone(ServerDies))
FairSpec == Spec /\ Fairness

-----------------------------------------------------------------------------
(* A registered pid is a child of ours, alive or unreaped, and is          *)
(* registered once: only between the return of Child::wait and the drop of *)
(* the guard may the pid be a stranger's (build.rs:793).                    *)
RegistryIsOurs ==
  /\ \A i, j \in DOMAIN registry : registry[i] = registry[j] => i = j
  /\ \A p \in Registered :
       \/ kind[p] \in Ours /\ (Alive(p) \/ proc[p] = "zombie")
       \/ cur = p /\ step = "reaped"

(* The registry and the processes it names (live.rs, Child::wait).         *)
PidsSound == TypeOK /\ RegistryIsOurs

(* A client that was registered when the signal came, and whose Build was  *)
(* made, does not survive the handler off CI, and on CI it has had both    *)
(* graceful SIGINTs (main.rs:368).                                         *)
SignalReachesAll ==
  h = "exit" => \A p \in targets \ abandoned :
    \/ kind[p] \notin Ours \/ proc[p] \notin {"starting", "running"}
    \/ ci /\ ints[p] >= 2

(* On CI the handler takes no server down and leaves no command orphaned,  *)
(* unless the task had already sent that client SIGINTs of its own         *)
(* (main.rs:381, 414).                                                     *)
OnCiGraceful ==
  [][ci /\ todo # <<>> /\ todo' = Tail(todo) /\ Head(todo) \notin cancelled
       => server' = server /\ orphaned' = orphaned]_vars

(* A health check that killed the server and calls it healthy has tried to *)
(* remove what its own kill may have left in the sandbox: it is gone, or   *)
(* the user was warned that it is not.  "healthy" alone does not say it    *)
(* (health_check.rs:187-202, 300-303).                                     *)
KilledMeansCleaned ==
  [][found /\ at \in {"retry", "clean"} /\ at' = "idle"
       /\ result' \in {"healthy", "healthy_warned"}
       => ("trash" \in stranded' <=> result' = "healthy_warned")]_vars

(* The signal handler gets to its exit, whatever the clients do            *)
(* (main.rs:405).                                                          *)
ShutdownExits == h = "look" ~> exited

(* The shutdown is orderly: graceful on CI, and over in the end            *)
(* (main.rs:368-500).                                                      *)
ShutdownIsOrderly == OnCiGraceful /\ ShutdownExits

(* If the server's pid cannot be had while the lock is held, as            *)
(* health_check.rs:209 has it, force_kill() kills the client alone, and    *)
(* wait() asks after the lock of a command that nobody ends (info.rs:195). *)
ServerOutOfReach == fault = "locks" /\ orphaned /\ at = "repoll"

(* wait() of a Cancellation comes back after the escalation, unless others *)
(* take the lock meanwhile or the one look for the client that             *)
(* force_kill() takes fails; the server it cannot get at is the only other *)
(* reason not to (cancel.rs:98).                                           *)
WaitReturns ==
  (at = "force" /\ waiting /\ fault \notin {"theirs", "probe"})
    ~> (at \in {"idle", "ended"} \/ exited \/ ServerOutOfReach)

(* Claimed at main.rs:486: the tick lets a registration complete, so that   *)
(* a just-spawned client is not orphaned.  Every build that outlives the    *)
(* handler has been told.                                                  *)
NoOrphan ==
  h = "exit" => \A p \in Pids :
    kind[p] = "build" /\ proc[p] \in {"starting", "running"} => ints[p] > 0
=============================================================================
