----------------------------- MODULE TaskNames -----------------------------
(***************************************************************************)
(* The name of the task a command runs (axl-runtime/src/ci.rs and          *)
(* Cmd::dispatch): the one on the command line; else <kind>-<CI job>, and  *)
(* for the n-th command of that name in a run of CI on one machine         *)
(* <kind>-<CI job>-<n>; else <kind>-<something random>.  The commands of a *)
(* machine tell each other with claim files, made with O_EXCL in a         *)
(* directory of the run.                                                   *)
(*                                                                         *)
(* A command is [kind, name, key, env]: `name` and `key` are --task:name   *)
(* and --task-key, and `env` is a function from the variables that are set *)
(* to their words, "-" among them if they have nothing but separators.  A  *)
(* name is a sequence of words, "ci-linux" is <<"ci", "linux">>.           *)
(***************************************************************************)
EXTENDS Naturals, Sequences, FiniteSets, TLC
LOCAL Ext == INSTANCE SequencesExt

CONSTANTS
  Callers,     \* processes
  MaxProbe,    \* MAX_NAME_PROBE
  NameWorlds   \* [commands |-> who may run, fault |-> does the disk fail]
ASSUME TaskNamesAssumption == MaxProbe \in Nat \ {0}

VARIABLES
  ci,          \* the world
  command,     \* per process: << >> or << its command >>
  probe,       \* per process: n, of the candidate it tries next
  name,        \* per process: << >> or the name it has got
  claims,      \* the claim files: <<directory, name>>
  given        \* history: the names given after a job, [by, base, name, sure]

nameVars == <<ci, command, probe, name, claims, given>>

NameInit ==
  /\ ci \in NameWorlds
  /\ command = [p \in Callers |-> << >>] /\ probe = [p \in Callers |-> 1]
  /\ name = [p \in Callers |-> << >>]
  /\ claims = {} /\ given = << >>

-----------------------------------------------------------------------------
JobVars ==
  << <<"GITHUB_ACTIONS", <<"GITHUB_JOB">> >>,
     <<"BUILDKITE", <<"BUILDKITE_STEP_KEY", "BUILDKITE_LABEL">> >>,
     <<"CIRCLECI", <<"CIRCLE_JOB">> >>, <<"GITLAB_CI", <<"CI_JOB_NAME">> >> >>
ShardVars ==
  << <<"BUILDKITE", <<"BUILDKITE_PARALLEL_JOB">> >>, <<"CIRCLECI", <<"CIRCLE_NODE_INDEX">> >> >>
RunVars ==
  << <<"GITHUB_ACTIONS", <<"GITHUB_RUN_ID", "GITHUB_RUN_ATTEMPT">> >>,
     <<"BUILDKITE", <<"BUILDKITE_BUILD_ID">> >>, <<"CIRCLECI", <<"CIRCLE_WORKFLOW_ID">> >>,
     <<"GITLAB_CI", <<"CI_PIPELINE_ID">> >> >>
TempVars == <<"ASPECT_WORKFLOWS_RUNNER_JOB_TMPDIR", "RUNNER_TEMP", "TMPDIR">>

\* The variables of the host we are on, the first one that is marked: those that
\* are set to something.
OfHost(table, env) ==
  LET hosts == SelectSeq(table, LAMBDA h : h[1] \in DOMAIN env)
  IN IF hosts = << >> THEN << >>
     ELSE SelectSeq(hosts[1][2], LAMBDA v : v \in DOMAIN env /\ env[v] # << >>)

FirstPresentValue(table, env) ==
  LET vars == OfHost(table, env) IN IF vars = << >> THEN << >> ELSE env[vars[1]]

\* sanitize_name(): "ci / linux" is "ci-linux".
SanitizeName(words) == SelectSeq(words, LAMBDA w : w # "-")

\* ci_job_name(): no job, no name.
CiJobName(env) ==
  LET job == SanitizeName(FirstPresentValue(JobVars, env))
  IN IF job = << >> THEN << >> ELSE job \o SanitizeName(FirstPresentValue(ShardVars, env))

\* run_scope() and dedup_dir().
RunScopeOfOne(env) == SanitizeName(FirstPresentValue(RunVars, env))  \* mutant: without the attempt
RunScope(env) ==
  SanitizeName(Ext!FlattenSeq([i \in DOMAIN OfHost(RunVars, env) |-> env[OfHost(RunVars, env)[i]]]))
TempDir(env) ==
  LET vars == SelectSeq(TempVars, LAMBDA v : v \in DOMAIN env /\ env[v] # << >>)
  IN IF vars = << >> THEN <<"tmp">> ELSE env[vars[1]]
DedupDir(env) ==
  <<TempDir(env), IF RunScope(env) = << >> THEN <<"local">> ELSE RunScope(env)>>

-----------------------------------------------------------------------------
Env(p) == command[p][1].env
Base(p) == <<command[p][1].kind>> \o CiJobName(Env(p))
Candidate(base, n) == IF n = 1 THEN base ELSE base \o <<ToString(n)>>

Given(p, candidate, sure) ==
  /\ name' = [name EXCEPT ![p] = candidate]
  /\ given' = Append(given, [by |-> command[p][1], base |-> Base(p), name |-> candidate,
                              sure |-> sure])

\* Cmd::dispatch(): --task:name, then --task-key.
DispatchTask(p) ==
  /\ command[p] = << >>
  /\ \E c \in ci.commands :
       LET said == IF c.name # << >> THEN c.name ELSE c.key
       IN /\ command' = [command EXCEPT ![p] = <<c>>]
          /\ name' = [name EXCEPT ![p] =
                        IF said # << >> THEN said
                        ELSE IF CiJobName(c.env) = << >> THEN <<c.kind, "random">>
                        ELSE << >>]
  /\ probe' = [probe EXCEPT ![p] = 1]
  /\ UNCHANGED <<ci, claims, given>>

\* One claim: the file is ours if we made it.
TakenNever(file) == FALSE  \* mutant: the file is opened, whoever made it
Taken(file) == file \in claims
Claim(p) ==
  /\ command[p] # << >> /\ name[p] = << >>
  /\ LET candidate == Candidate(Base(p), probe[p])
         file == <<DedupDir(Env(p)), candidate>>
     IN IF probe[p] > MaxProbe
        THEN Given(p, Base(p), FALSE) /\ UNCHANGED <<claims, probe>>
        ELSE IF Taken(file)
        THEN probe' = [probe EXCEPT ![p] = @ + 1] /\ UNCHANGED <<claims, name, given>>
        ELSE Given(p, candidate, TRUE) /\ claims' = claims \cup {file} /\ UNCHANGED probe
  /\ UNCHANGED <<ci, command>>

\* The directory or the file cannot be made.
ClaimFails(p) ==
  /\ ci.fault /\ command[p] # << >> /\ name[p] = << >>
  /\ Given(p, Base(p), FALSE)
  /\ UNCHANGED <<ci, command, probe, claims>>

NameStep(p) == DispatchTask(p) \/ Claim(p) \/ ClaimFails(p)

\* The process ends; the claims stay.
Forget(p) ==
  /\ command' = [command EXCEPT ![p] = << >>] /\ name' = [name EXCEPT ![p] = << >>]
  /\ UNCHANGED <<ci, probe, claims, given>>
=============================================================================
