------------------------------- MODULE Clients ------------------------------
(* The clients aspect-cli starts, the registry it keeps of them            *)
(* (engine/bazel/live.rs), and what a signal to aspect-cli does to them    *)
(* (run_shutdown_sequence in crates/aspect-cli/src/main.rs).               *)
(*                                                                         *)
(* Two threads: the task's, which makes one call after the other, and the  *)
(* signal handler's.  Every subprocess of a call is spawned, registered,   *)
(* reaped and unregistered in four steps, and the handler may look between *)
(* any two of them.                                                        *)
EXTENDS Bazel, SequencesExt

CONSTANTS
  Scripts,     \* what the task may do: sequences of calls on ctx.bazel
  Interrupted  \* in which of them a signal may come

VARIABLES
  registry,  \* live::REG: pids in the order of the vector
  script,    \* the calls the task has still to make
  at,        \* where its thread is: "idle", "ended" or a label of the call
  step,      \* of the subprocess there: "go", "spawned", "registered", "reaped"
  cur,       \* that subprocess
  answer,    \* what the last one of them came back with
  build,     \* the client of a Build that was not waited for yet
  ci,        \* on_recognized_ci()
  h, round,  \* where the handler is, and in which burst
  todo,      \* live_pids() as the handler took it, less what it has signalled
  owed,      \* the client that was spawned and unregistered when its tick began
  exited,    \* aspect-cli is gone
  targets,   \* history: the clients registered when the signal came
  abandoned  \* history: the clients whose Build::spawn failed after the spawn

taskVars == <<script, at, step, cur, answer, build, abandoned>>
handlerVars == <<h, round, todo, owed, exited>>
clientVars == <<registry, taskVars, handlerVars, ci, targets>>

ClientsTypeOK ==
  /\ BazelTypeOK
  /\ registry \in Seq(Pids) /\ todo \in Seq(Pids)
  /\ step \in {"go", "spawned", "registered", "reaped"}
  /\ cur \in Pids \cup {NoPid} /\ build \in Pids \cup {NoPid} /\ owed \in Pids \cup {NoPid}
  /\ answer \in Replies /\ ci \in BOOLEAN /\ exited \in BOOLEAN
  /\ h \in {"off", "idle", "look", "tick", "burst", "send", "exit"} /\ round \in 0..4
  /\ targets \subseteq Pids /\ abandoned \subseteq Pids
  /\ step = "go" <=> cur = NoPid

ClientsInit ==
  /\ BazelInit
  /\ registry = <<>> /\ script \in Scripts /\ at = "idle" /\ step = "go"
  /\ cur = NoPid /\ answer = "ok" /\ build = NoPid /\ ci \in BOOLEAN
  /\ h = (IF script \in Interrupted THEN "idle" ELSE "off") /\ round = 0 /\ todo = <<>> /\ owed = NoPid /\ exited = FALSE
  /\ targets = {} /\ abandoned = {}

-----------------------------------------------------------------------------
(* The registry and a subprocess of the task's call.                       *)
Registered == ToSet(registry)
\* LiveBazelGuard::drop: the last pid takes the place of the first match.
Unregistered(p) ==
  IF p \notin Registered THEN registry
  ELSE LET i == CHOOSE i \in DOMAIN registry :
                  registry[i] = p /\ \A j \in 1..(i - 1) : registry[j] # p
       IN  Front([registry EXCEPT ![i] = Last(registry)])

Spawn(k, p) ==
  /\ step = "go"
  /\ Start(p, k)
  /\ cur' = p /\ step' = "spawned" /\ targets' = targets \ {p}
  /\ abandoned' = abandoned \ {p}
  /\ UNCHANGED <<registry, script, at, answer, build, handlerVars, ci>>

Register ==
  /\ step = "spawned"
  /\ registry' = Append(registry, cur) /\ step' = "registered"
  /\ UNCHANGED <<bazelVars, script, at, cur, answer, build, abandoned, handlerVars, ci,
                 targets>>

\* Child::wait: the pid is free for anybody before the guard is dropped.
Collect ==
  /\ step = "registered" /\ at # "build.spawn"
  /\ Reap(cur)
  /\ answer' = reply[cur] /\ step' = "reaped"
  /\ UNCHANGED <<registry, script, at, cur, build, abandoned, handlerVars, ci, targets>>

\* Mutant: the guard stays with the Build for the collector to drop.
ReleasedKeepingGuard(l) ==
  /\ step = "reaped"
  /\ cur' = NoPid /\ step' = "go" /\ at' = l
  /\ build' = IF build = cur THEN NoPid ELSE build
  /\ answer' = "ok"
  /\ UNCHANGED <<bazelVars, registry, abandoned, handlerVars, ci, targets>>

\* The guard is dropped, and the call goes on at label l, raises or returns.
Released(l) ==
  /\ step = "reaped"
  /\ registry' = Unregistered(cur)
  /\ cur' = NoPid /\ step' = "go" /\ at' = l
  /\ build' = IF build = cur THEN NoPid ELSE build
  /\ answer' = "ok"
  /\ UNCHANGED <<bazelVars, abandoned, handlerVars, ci, targets>>

Raise == script' = <<>>
Return == script' = Tail(script)
Calls(c) == at = "idle" /\ script # <<>> /\ Head(script) = c

-----------------------------------------------------------------------------
(* Calls on ctx.bazel and on a Build.                                      *)
Idle == UNCHANGED <<bazelVars, registry, answer, abandoned, handlerVars, ci, targets>>

EnterBuild == Calls("build") /\ at' = "build.info" /\ UNCHANGED <<step, cur, script, build>> /\ Idle
EnterInfo == Calls("info") /\ at' = "info" /\ UNCHANGED <<step, cur, script, build>> /\ Idle
EnterShutdown ==
  Calls("shutdown") /\ at' = "shutdown" /\ UNCHANGED <<step, cur, script, build>> /\ Idle

\* The child is one that was spawned and registered long ago.
EnterWait ==
  /\ Calls("wait")
  /\ IF build = NoPid THEN Return /\ UNCHANGED <<at, step, cur>>
     ELSE at' = "wait" /\ cur' = build /\ step' = "registered" /\ UNCHANGED script
  /\ UNCHANGED build /\ Idle

\* It returns None, or reaps the child as wait() does.
TryWait ==
  /\ Calls("try_wait")
  /\ IF build = NoPid \/ proc[build] # "zombie" THEN Return /\ UNCHANGED <<at, step, cur>>
     ELSE at' = "wait" /\ cur' = build /\ step' = "registered" /\ UNCHANGED script
  /\ UNCHANGED build /\ Idle

RunClient ==
  \E p \in Pids :
    \/ at \in {"build.info", "info"} /\ Spawn("info", p)
    \/ at = "build.spawn" /\ Spawn("build", p)
    \/ at = "shutdown" /\ Spawn("shutdown", p)

ServerInfo ==
  /\ at = "build.info"
  /\ IF answer = "ok" THEN Released("build.spawn") /\ UNCHANGED script
     ELSE Released("idle") /\ Raise

InfoReturns ==
  /\ at = "info" /\ Released("idle")
  /\ IF answer = "ok" THEN Return ELSE Raise

CommandReturns == at \in {"shutdown", "wait"} /\ Released("idle") /\ Return

\* Mutant: the child is not handed to the Build.
BuildReturnsHolding ==
  /\ at = "build.spawn" /\ step = "registered"
  /\ build' = cur /\ step' = "go" /\ at' = "idle" /\ Return
  /\ UNCHANGED <<bazelVars, registry, cur, answer, abandoned, handlerVars, ci, targets>>

BuildReturns ==
  /\ at = "build.spawn" /\ step = "registered"
  /\ build' = cur /\ cur' = NoPid /\ step' = "go" /\ at' = "idle" /\ Return
  /\ UNCHANGED <<bazelVars, registry, answer, abandoned, handlerVars, ci, targets>>

\* An iterator or a sink cannot be bound: the guard goes, the client stays.
BuildFails ==
  /\ at = "build.spawn" /\ step = "registered" /\ fault = "bind"
  /\ registry' = Unregistered(cur) /\ abandoned' = abandoned \cup {cur}
  /\ cur' = NoPid /\ step' = "go" /\ at' = "idle" /\ Raise
  /\ UNCHANGED <<bazelVars, answer, build, handlerVars, ci, targets>>

TaskEnds ==
  /\ at = "idle" /\ script = <<>>
  /\ exited' = TRUE /\ at' = "ended"
  /\ UNCHANGED <<bazelVars, registry, script, step, cur, answer, build, abandoned,
                 h, round, todo, owed, ci, targets>>

Task ==
  \/ EnterBuild \/ EnterInfo \/ EnterShutdown \/ EnterWait \/ TryWait
  \/ RunClient \/ Register \/ Collect
  \/ ServerInfo \/ InfoReturns \/ CommandReturns \/ BuildReturns \/ BuildFails
  \/ TaskEnds

-----------------------------------------------------------------------------
(* The signal handler.  A tick lasts longer than registering a child, and  *)
(* nothing else is known of how far the task gets in it.                   *)
Handling == UNCHANGED <<registry, taskVars, ci>>

Goes(label, r) == h' = label /\ round' = r
TickBegins(r) ==
  /\ Goes("tick", r)
  /\ owed' = IF step = "spawned" THEN cur ELSE NoPid
\* Mutant: each tick lasts until the clients are gone.
TickUntilGone == h = "tick" /\ registry = <<>>

TickEnds == h = "tick" /\ ~(step = "spawned" /\ cur = owed)
ExitNow == Goes("exit", round) /\ exited' = TRUE

Signal ==
  /\ h = "idle"
  /\ Goes("look", 0) /\ targets' = Registered
  /\ UNCHANGED <<bazelVars, todo, owed, exited>> /\ Handling

Look ==
  /\ h = "look"
  /\ IF registry = <<>> THEN TickBegins(0) ELSE Goes("burst", 1) /\ UNCHANGED owed
  /\ UNCHANGED <<bazelVars, todo, exited, targets>> /\ Handling

Recheck ==
  /\ TickEnds /\ round = 0
  /\ IF registry = <<>> THEN ExitNow ELSE Goes("burst", 1) /\ UNCHANGED exited
  /\ owed' = NoPid
  /\ UNCHANGED <<bazelVars, todo, targets>> /\ Handling

Burst ==
  /\ h = "burst"
  /\ Goes("send", round) /\ todo' = registry
  /\ UNCHANGED <<bazelVars, owed, exited, targets>> /\ Handling

Send ==
  /\ h = "send" /\ todo # <<>>
  /\ LET p == Head(todo) IN
       IF ~IsPidRunning(p) THEN UNCHANGED bazelVars
       ELSE IF round = 4 THEN Sigkill(p) ELSE Sigint(p)
  /\ todo' = Tail(todo)
  /\ UNCHANGED <<h, round, owed, exited, targets>> /\ Handling

\* Mutant: the same escalation everywhere.
SentAlike ==
  /\ h = "send" /\ todo = <<>>
  /\ IF round = 4 THEN ExitNow /\ UNCHANGED owed ELSE TickBegins(round) /\ UNCHANGED exited
  /\ UNCHANGED <<bazelVars, todo, targets>> /\ Handling

\* Mutant: no SIGKILL after the third SIGINT.
SentNoKill ==
  /\ h = "send" /\ todo = <<>>
  /\ IF (round = 2 /\ ci) \/ round = 3 THEN ExitNow /\ UNCHANGED owed
     ELSE TickBegins(round) /\ UNCHANGED exited
  /\ UNCHANGED <<bazelVars, todo, targets>> /\ Handling

\* On CI two SIGINTs are all.  SIGKILL acts at once here, so the grace after
\* it is not modelled.
Sent ==
  /\ h = "send" /\ todo = <<>>
  /\ IF (round = 2 /\ ci) \/ round = 4 THEN ExitNow /\ UNCHANGED owed
     ELSE TickBegins(round) /\ UNCHANGED exited
  /\ UNCHANGED <<bazelVars, todo, targets>> /\ Handling

NextBurst ==
  /\ TickEnds /\ round > 0
  /\ Goes("burst", round + 1) /\ owed' = NoPid
  /\ UNCHANGED <<bazelVars, todo, exited, targets>> /\ Handling

Handler == Signal \/ Look \/ Recheck \/ Burst \/ Send \/ Sent \/ NextBurst
=============================================================================
