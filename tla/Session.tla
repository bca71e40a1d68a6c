------------------------------ MODULE Session ------------------------------
(***************************************************************************)
(* A run of the CLI from the directory it is started in, or one whose task *)
(* uses what ctx and the standard library give it while its implementation *)
(* runs: a gRPC server, child processes, HTTP, builds, files, traits.      *)
(*                                                                         *)
(* program.uses holds the uses the task may make of them, [kind |-> "none"]*)
(* among them; `helper` is the one it makes.  The implementation cannot    *)
(* end while its thread is blocked in a helper, and an operation of a      *)
(* helper that fails fails it.                                             *)
(***************************************************************************)
EXTENDS Runtime, GrpcServer, Processes, Http, Builds, Files, TraitTypes, Discovery

VARIABLE helper

helperVars == <<helper, net, proc, web, bld, fil, trt, man>>
Over == [kind |-> "none"]

SessionInit ==
    /\ Init
    /\ helper \in program.uses
    /\ net = IF helper.kind = "server" THEN NewNet(helper) ELSE << >>
    /\ proc = IF helper.kind = "process" THEN NewProc(helper) ELSE << >>
    /\ web = IF helper.kind = "http" THEN NewWeb(helper) ELSE << >>
    /\ bld = IF helper.kind = "build" THEN NewBld(helper) ELSE << >>
    /\ fil = IF helper.kind = "files" THEN NewFil(helper) ELSE << >>
    /\ trt = IF helper.kind = "traits" THEN NewTrt(helper) ELSE << >>
    /\ man = IF helper.kind = "discovery" THEN NewMan(helper) ELSE << >>

InUse(kind) == helper.kind = kind /\ Runs("task") /\ op >= 1

Thread ==
    CASE helper.kind = "server" -> net.thread
      [] helper.kind = "process" -> proc.thread
      [] helper.kind = "http" -> web.thread
      [] helper.kind = "build" -> bld.thread
      [] helper.kind = "files" -> fil.thread
      [] helper.kind = "traits" -> trt.thread
      [] OTHER -> "free"
HelperFree == Thread \in {"free", "failed"}
HelperFailed == Thread = "failed"

\* The implementation goes on, and ends, between the operations of its helper,
\* which is not followed further.
RunsAlong ==
    /\ helper.kind = "discovery" => man.done \/ failure # ""
    /\ Next
    /\ IF helper.kind # "none" /\ phase = "task" /\ phase' = "deferred"
       THEN HelperFree /\ implFailed' = HelperFailed /\ helper' = Over
            /\ net' = << >> /\ proc' = << >> /\ web' = << >> /\ bld' = << >> /\ fil' = << >>
            /\ trt' = << >> /\ man' = << >>
       ELSE UNCHANGED helperVars

UsesServer == InUse("server") /\ NetStep /\ UNCHANGED <<vars, helper, proc, web, bld, fil, trt, man>>
UsesProcess == InUse("process") /\ ProcStep /\ UNCHANGED <<vars, helper, net, web, bld, fil, trt, man>>
UsesHttp == InUse("http") /\ WebStep /\ UNCHANGED <<vars, helper, net, proc, bld, fil, trt, man>>
UsesBuild == InUse("build") /\ BuildStep /\ UNCHANGED <<vars, helper, net, proc, web, fil, trt, man>>
UsesFiles == InUse("files") /\ FileStep /\ UNCHANGED <<vars, helper, net, proc, web, bld, trt, man>>
UsesTraits ==
    InUse("traits") /\ TraitStep /\ UNCHANGED <<vars, helper, net, proc, web, bld, fil, man>>

\* Before any of that, the run finds its program.
Discovers ==
    /\ helper.kind = "discovery" /\ DiscoveryStep(helper)
    /\ UNCHANGED <<cache, frames, scopes, made, got, phase, at, op, discoveryVars, traitVars,
                   exporterVars, commandVars, taskVars, configVars, ranFeatures,
                   helper, net, proc, web, bld, fil, trt>>

SessionNext ==
    \/ RunsAlong \/ Discovers \/ UsesServer \/ UsesProcess \/ UsesHttp \/ UsesBuild \/ UsesFiles \/ UsesTraits

SessionSpec ==
    SessionInit /\ [][SessionNext]_<<vars, helperVars>> /\ WF_<<vars, helperVars>>(SessionNext)

----------------------------------------------------------------------------
\* A run starts with what its directories and its MODULE.aspect files say, and what its
\* functions are given works as it says, whatever else runs at the same time.
HelpersSound ==
    /\ NothingUntraced
    /\ helper.kind = "discovery" => DiscoverySound(helper)
    /\ helper.kind = "server" => CallsSound /\ DrainIsComplete /\ SocketSpared
    /\ helper.kind = "process" => ProcessesSound
    /\ helper.kind = "http" => RequestsSound
    /\ helper.kind = "build" => BuildsSound
    /\ helper.kind = "files" => FilesSound
    /\ helper.kind = "traits" => TraitsSound
=============================================================================
