------------------------------ MODULE Runtime ------------------------------
(***************************************************************************)
(* One run of the CLI, from the AXL files on disk to the exit code         *)
(* (eval/multi_phase.rs and run() of aspect-cli/src/main.rs):              *)
(*                                                                         *)
(*   scripts, modules    find the tasks and the features      (phase 1)    *)
(*   configs             run every config function            (phase 2)    *)
(*   commands            build the command tree, read the command line     *)
(*   features            run the enabled features             (phase 3)    *)
(*   exporters           install what was registered          (phase 3.5)  *)
(*   task, deferred      run the task, then what it deferred  (phase 4)    *)
(*                                                                         *)
(* AXL code is the environment.  A program fixes its files (see Loader)    *)
(* and, for the functions in them, the operations they may perform, as     *)
(* many as `budget` allows, in any order:                                  *)
(*   tasks[f]     the tasks file f defines: [key, traits, args, defaults], *)
(*                the defaults those of a task.alias(...)                  *)
(*   features[f]  the feature file f defines: [name, args, enabled]        *)
(*   scripts      the scripts of the root module                           *)
(*   modules      [name, tasks, features], the root module last            *)
(*   configs      [file, scope], the user's config last                    *)
(*   ops, budget  what functions may do, and how often per function        *)
(*   lines        the command lines that may be typed                      *)
(* A trait is named by the file that defines it.                           *)
(***************************************************************************)
EXTENDS Naturals, Sequences, TLC, Loader, CommandLine, Telemetry

CONSTANT Programs

\* A module's files are named from its root, what is declared is in order, and a
\* task has a name.
IsSequence(s) == Len(s) \in Nat /\ s = [i \in 1..Len(s) |-> s[i]]
Names(s, mod) == IsSequence(s) /\ \A i \in 1..Len(s) : s[i].mod = mod
IsCommand(key) == IsSequence(key) /\ key # << >>
ASSUME ProgramsAssumption ==
    \A p \in Programs :
        /\ Names(p.scripts, "root") /\ IsSequence(p.modules) /\ IsSequence(p.configs)
        /\ \A i \in 1..Len(p.modules) :
              /\ \A e \in p.modules[i].tasks : e.file.mod = p.modules[i].name /\ IsSequence(e.keys)
              /\ Names(p.modules[i].features, p.modules[i].name)
        /\ \A i \in 1..Len(p.configs) : p.configs[i].file.mod = p.configs[i].scope
        /\ \A f \in DOMAIN p.tasks :
              IsSequence(p.tasks[f]) /\ \A i \in 1..Len(p.tasks[f]) : IsCommand(p.tasks[f][i].key)

VARIABLES
    phase,
    at, op,        \* which script, module, config or feature; which operation
    entries, using,\* use_task entries of the module at hand; the one at work
    tasks,         \* TaskMap
    features,      \* FeatureMap
    known,         \* the tasks there were when the traits were registered
    traits,        \* the trait map of configs and features
    heap,          \* trait instances: who wrote each last
    exporters, installed,
    tel,           \* records, spans and their exporters (see Telemetry)
    line, chosen,  \* the command line; the index of the task it selects
    parsed,        \* Dispatch.matches
    args, mine,    \* the task's merged arguments and its trait map
    defers, pending, implFailed, code,
    info, now,     \* the phase log, and task time in operations
    \* history
    written,       \* <<task key, argument>> -> what a config set it to last
    switched,      \* <<feature file, argument>> -> the same of a feature's
    owed,          \* trait -> who wrote it last before the task
    registered, exported, ranFeatures, ranDefers

discoveryVars == <<entries, using, tasks, features, known>>
traitVars == <<traits, heap, owed>>
specVars == <<exporters, installed, exported>>
exporterVars == <<specVars, tel>>
commandVars == <<line, chosen, parsed, args, mine>>
taskVars == <<defers, pending, implFailed, code, info, now, registered, ranDefers>>
configVars == <<written, switched>>
vars == <<loaderVars, phase, at, op, discoveryVars, traitVars, exporterVars,
          commandVars, taskVars, configVars, ranFeatures>>

----------------------------------------------------------------------------
(* What a context keeps, as operators.  The trait map                      *)
(* (engine/trait_map.rs): from the type id of a trait to its instance,     *)
(* None until somebody reads or writes it; instances are shared by         *)
(* reference, so an entry is the number of an instance on the heap.  The   *)
(* phase log of a task (engine/task_info.rs): `phases` is the closed ones, *)
(* `current` the open one as a sequence of at most one; a phase is its     *)
(* name and the interval of task time it covers.                           *)
None == 0         \* a registered type whose instance does not exist yet

\* TraitMap::insert keeps what is there.
RegisterAll(map, types) ==
    [t \in DOMAIN map \cup types |-> IF t \in DOMAIN map THEN map[t] ELSE None]

\* `Trait in ctx.traits`
Holds(map, type) == type \in DOMAIN map

\* at(): the instance, constructed as number `fresh` on the first read.
At(map, type, fresh) == IF map[type] = None THEN fresh ELSE map[type]

\* set_at() registers the type if need be.
SetAt(map, type, instance) == With(map, type, instance)

\* The map a task sees: the entries of its own traits, copied; ScopedBare copies
\* the types and leaves the instances behind.
ScopedBare(map, types) == [t \in types \cap DOMAIN map |-> None]

Scoped(map, types) == [t \in types \cap DOMAIN map |-> map[t]]

----------------------------------------------------------------------------
Closed(p, to, interrupted) ==
    [name |-> p.name, from |-> p.from, to |-> to, interrupted |-> interrupted]

NewInfo(when) == [started |-> when, phases |-> << >>, current |-> << >>]

\* The entry the first call makes up for the time before it.
Init0Left(log, when) == << >>

Init0(log, when) == << Closed([name |-> "init", from |-> log.started], when, FALSE) >>

\* ctx.task.phase(name): opens a phase, closing the open one; a call with the
\* name of the open phase changes nothing.
Phase(log, name, when) ==
    IF log.current # << >> /\ log.current[1].name = name THEN log
    ELSE [log EXCEPT
            !.current = << [name |-> name, from |-> when] >>,
            !.phases =
               IF log.current # << >>
               THEN Append(@, Closed(log.current[1], when, FALSE))
               ELSE IF @ = << >> THEN Init0(log, when) ELSE @]

\* close_active_phase, when the task is over.
CloseActive(log, when) ==
    IF log.current = << >> THEN log
    ELSE [log EXCEPT
            !.phases = Append(@, Closed(log.current[1], when, TRUE)),
            !.current = << >>]

----------------------------------------------------------------------------
Final == {"passed", "failed"}

----------------------------------------------------------------------------
\* The frozen module a name used in file f refers to: its own, or the one the
\* file received from a load.
Handle(f, g) == IF f = g THEN Module(f) ELSE got[<<f, g>>]
Imports(f, g) == <<f, g>> \in DOMAIN got

TasksOf(f) ==
    LET Live(t) == [key |-> t.key, file |-> f, module |-> Module(f),
                    traits |-> {Handle(f, g) : g \in t.traits},
                    args |-> TaskArgs(t), overrides |-> << >>]
        defined == IF f \in DOMAIN program.tasks THEN program.tasks[f] ELSE << >>
    IN  [i \in 1..Len(defined) |-> Live(defined[i])]

KeysIn(ts) == {ts[i].key : i \in 1..Len(ts)}
PlaceOf(ts, key) == SelectInSeq(ts, LAMBDA t : t.key = key)

Init ==
    /\ program \in Programs
    /\ LoaderInit
    /\ phase = "scripts" /\ at = 1 /\ op = 0
    /\ entries = {} /\ using = << >>
    /\ tasks = << >> /\ features = << >> /\ known = 0
    /\ traits = << >> /\ heap = << >> /\ owed = << >>
    /\ exporters = << >> /\ installed = << >> /\ exported = << >> /\ tel = Init1
    /\ line = << >> /\ chosen = 0 /\ parsed = << >> /\ args = << >> /\ mine = << >>
    /\ defers = << >> /\ pending = << >> /\ implFailed = FALSE /\ code = 0
    /\ info = NewInfo(0) /\ now = 0 /\ registered = << >> /\ ranDefers = << >>
    /\ written = << >> /\ switched = << >> /\ ranFeatures = << >>

Fails(why, what) ==
    failure' = why /\ blamed' = [trace |-> << >>, target |-> what]
Succeeds == UNCHANGED <<failure, blamed>>

\* The loader's own steps, and the file the phase at hand needs.
Needed ==
    CASE phase = "scripts" /\ at <= Len(program.scripts) ->
            << [file |-> program.scripts[at], scope |-> "root"] >>
      [] phase = "modules" /\ at <= Len(program.modules) /\ using # << >> ->
            << [file |-> using[1].file, scope |-> program.modules[at].name] >>
      [] phase = "configs" /\ at <= Len(program.configs) /\ op = 0 ->
            << program.configs[at] >>
      [] OTHER -> << >>

Evaluate ==
    /\ \/ Needed # << >> /\ EvalFile(Needed[1].file, Needed[1].scope)
       \/ LoaderStep
    /\ UNCHANGED <<phase, at, op, discoveryVars, traitVars, exporterVars,
                   commandVars, taskVars, configVars, ranFeatures>>

Ready == Idle /\ Needed # << >> /\ Loaded(Needed[1].file)

\* The span a phase runs in (tracing::instrument).
SpanOf(p) ==
    CASE p \in {"scripts", "modules"} -> "eval"
      [] p = "configs" -> "execute.configs"
      [] p = "features" -> "execute.features"
      [] p \in {"task", "deferred"} -> "execute.task"
      [] OTHER -> ""

\* The batch processors' threads, at any time; how the queue is cut into batches
\* before there is an exporter makes no difference to what is buffered.
BatchThread ==
    /\ phase \in {"exporters", "task", "deferred"} /\ installed # << >>
    /\ \E s \in {"spans", "logs"} : \E n \in 1..Len(tel.pipes[s].queue) :
          tel' = Export(tel, s, n)
    /\ UNCHANGED <<loaderVars, phase, at, op, discoveryVars, traitVars, specVars,
                   commandVars, taskVars, configVars, ranFeatures>>

\* The frame of every step of the runtime itself.
Runs(p) == phase = p /\ failure = "" /\ frames = << >>
KeepsLoader == UNCHANGED <<program, cache, frames, scopes, made, got>>

----------------------------------------------------------------------------
\* Phase 1.  Every task of a script, and what the modules' MODULE.aspect name;
\* `tasks` of a module is a HashMap, its order anybody's guess.
TakeScript ==
    /\ Runs("scripts") /\ Ready
    /\ tasks' = tasks \o TasksOf(Needed[1].file)
    /\ at' = at + 1
    /\ Succeeds /\ KeepsLoader
    /\ UNCHANGED <<phase, op, entries, using, features, known, traitVars, exporterVars,
                   commandVars, taskVars, configVars, ranFeatures>>

NextModule(n) ==
    /\ at' = n /\ op' = 0 /\ using' = << >>
    /\ entries' = IF n <= Len(program.modules) THEN program.modules[n].tasks ELSE {}

ScriptsDone ==
    /\ Runs("scripts") /\ at > Len(program.scripts)
    /\ phase' = "modules" /\ NextModule(1)
    /\ Succeeds /\ KeepsLoader
    /\ UNCHANGED <<tasks, features, known, traitVars, exporterVars, commandVars,
                   taskVars, configVars, ranFeatures>>

\* Which entry the module's maps yield next: all the tasks, then the features
\* in order (`op` counts those).
Pick ==
    /\ Runs("modules") /\ at <= Len(program.modules) /\ using = << >>
    /\ \/ \E e \in entries :
             using' = << [file |-> e.file, keys |-> e.keys, what |-> "task"] >> /\ entries' = entries \ {e} /\ op' = op
       \/ /\ entries = {} /\ op < Len(program.modules[at].features)
          /\ using' = << [file |-> program.modules[at].features[op + 1],
                          what |-> "feature"] >>
          /\ op' = op + 1 /\ entries' = entries
    /\ Succeeds /\ KeepsLoader
    /\ UNCHANGED <<phase, at, tasks, features, known, traitVars, exporterVars,
                   commandVars, taskVars, configVars, ranFeatures>>

UseTask ==
    /\ Runs("modules") /\ Ready /\ using[1].what = "task"
    /\ LET f == using[1].file
           named == [i \in 1..Len(using[1].keys) |->
                        TasksOf(f)[PlaceOf(TasksOf(f), using[1].keys[i])]]
       IN  IF Range(using[1].keys) \subseteq KeysIn(TasksOf(f))
           THEN tasks' = tasks \o named /\ Succeeds
           ELSE tasks' = tasks /\ Fails("no symbol", f)
    /\ using' = << >>
    /\ KeepsLoader
    /\ UNCHANGED <<phase, at, op, entries, features, known, traitVars, exporterVars,
                   commandVars, taskVars, configVars, ranFeatures>>

UseFeature ==
    /\ Runs("modules") /\ Ready /\ using[1].what = "feature"
    /\ LET f == using[1].file
       IN  IF f \in DOMAIN program.features
           THEN /\ features' = Append(features,
                        [file |-> f, handle |-> Module(f), name |-> program.features[f].name,
                         args |-> FeatureArgs(program.features[f]), overrides |-> << >>])
                /\ Succeeds
           ELSE features' = features /\ Fails("no symbol", f)
    /\ using' = << >>
    /\ KeepsLoader
    /\ UNCHANGED <<phase, at, op, entries, tasks, known, traitVars, exporterVars,
                   commandVars, taskVars, configVars, ranFeatures>>

ModuleDone ==
    /\ Runs("modules") /\ at <= Len(program.modules)
    /\ using = << >> /\ entries = {} /\ op = Len(program.modules[at].features)
    /\ NextModule(at + 1)
    /\ Succeeds /\ KeepsLoader
    /\ UNCHANGED <<phase, tasks, features, known, traitVars, exporterVars, commandVars,
                   taskVars, configVars, ranFeatures>>

----------------------------------------------------------------------------
\* Phase 2.  The trait types of the tasks found so far are registered, then
\* the config functions run in order on the shared maps.
StartConfigs ==
    /\ Runs("modules") /\ at > Len(program.modules)
    /\ traits' = RegisterAll(traits, UNION {tasks[i].traits : i \in 1..Len(tasks)})
    /\ known' = Len(tasks)
    /\ phase' = "configs" /\ at' = 1 /\ op' = 0
    /\ tel' = EndSpan(tel, SpanOf(phase))
    /\ Succeeds /\ KeepsLoader
    /\ UNCHANGED <<entries, using, tasks, features, heap, owed, specVars, commandVars,
                   taskVars, configVars, ranFeatures>>

CallConfig ==
    /\ Runs("configs") /\ Ready
    /\ op' = 1
    /\ Succeeds /\ KeepsLoader
    /\ UNCHANGED <<phase, at, discoveryVars, traitVars, exporterVars, commandVars,
                   taskVars, configVars, ranFeatures>>

Config == program.configs[at].file
InConfig(o) == Runs("configs") /\ op \in 1..program.budget.config /\ o \in program.ops

FindTask(key) == PlaceOf(tasks, key)

\* ctx.tasks[key].args.x = v
Whom(key) == [task |-> key]      \* in the histories
SetArg ==
    \E o \in {p \in program.ops : p.op = "set"} :
        /\ InConfig(o)
        /\ LET i == FindTask(o.key)
           IN  IF i = 0 \/ ~StoreAccepts(tasks[i].args, o.arg)
               THEN Fails("no task", Config) /\ UNCHANGED <<tasks, written>>
               ELSE /\ tasks' = [tasks EXCEPT ![i].overrides = With(@, o.arg, o.value)]
                    /\ written' = With(written, <<Whom(o.key), o.arg>>, o.value)
                    /\ Succeeds
        /\ op' = op + 1
        /\ KeepsLoader
        /\ UNCHANGED <<phase, at, entries, using, features, known, traitVars,
                       exporterVars, commandVars, taskVars, switched, ranFeatures>>

\* ctx.features[F].enabled = b and ctx.features[F].args.x = v: FeatureMap::at goes
\* by the handle, and `enabled` takes a bool.
FindFeature(handle) == SelectInSeq(features, LAMBDA f : f.handle = handle)
Settable(i, o) ==
    IF o.op = "enable" THEN o.value.type = "bool" ELSE StoreAccepts(features[i].args, o.arg)

SetFeature ==
    \E o \in {p \in program.ops : p.op \in {"enable", "setf"}} :
        /\ InConfig(o) /\ Imports(Config, o.file)
        /\ LET i == FindFeature(Handle(Config, o.file))
           IN  IF i = 0 \/ (i # 0 /\ ~Settable(i, o))
               THEN /\ Fails(IF i = 0 THEN "no feature" ELSE "no arg", o.file)
                    /\ UNCHANGED <<features, switched>>
               ELSE /\ features' = [features EXCEPT ![i].overrides = With(@, o.arg, o.value)]
                    /\ switched' = With(switched, <<o.file, o.arg>>, o.value)
                    /\ Succeeds
        /\ op' = op + 1
        /\ KeepsLoader
        /\ UNCHANGED <<phase, at, entries, using, tasks, known, traitVars,
                       exporterVars, commandVars, taskVars, written, ranFeatures>>

\* ctx.tasks.add(T), thawed with an override store of its own.
AddTask ==
    \E o \in {p \in program.ops : p.op = "add"} :
        /\ InConfig(o) /\ Imports(Config, o.file)
        /\ LET new == TasksOf(o.file)
           IN  IF KeysIn(new) \cap KeysIn(tasks) # {}
               THEN Fails("task exists", o.file) /\ tasks' = tasks
               ELSE tasks' = tasks \o new /\ Succeeds
        /\ op' = op + 1
        /\ KeepsLoader
        /\ UNCHANGED <<phase, at, entries, using, features, known, traitVars,
                       exporterVars, commandVars, taskVars, configVars, ranFeatures>>

ConfigDone ==
    /\ Runs("configs") /\ at <= Len(program.configs) /\ op >= 1
    /\ at' = at + 1 /\ op' = 0
    /\ Succeeds /\ KeepsLoader
    /\ UNCHANGED <<phase, discoveryVars, traitVars, exporterVars, commandVars,
                   taskVars, configVars, ranFeatures>>

----------------------------------------------------------------------------
\* What config functions and feature implementations do alike.
Caller == IF phase = "configs" THEN Config ELSE features[at].file
Budget == IF phase = "configs" THEN program.budget.config ELSE program.budget.feature
InBody(o) ==
    /\ phase \in {"configs", "features"} /\ failure = "" /\ frames = << >>
    /\ op \in 1..Budget /\ o \in program.ops
InTask(o) == Runs("task") /\ op \in 1..program.budget.task /\ o \in program.ops
Stamp == <<phase, at, op>>

\* ctx.traits[T].field = v: the instance is read, made if need be, and mutated.
TouchTrait ==
    \E o \in {p \in program.ops : p.op = "touch"} :
        /\ InBody(o) /\ Imports(Caller, o.file)
        /\ LET t == Handle(Caller, o.file)
               fresh == Len(heap) + 1
           IN  IF ~Holds(traits, t)
               THEN Fails("no trait", o.file) /\ UNCHANGED traitVars
               ELSE LET i == At(traits, t, fresh)
                    IN  /\ traits' = SetAt(traits, t, i)
                        /\ heap' = IF i = fresh THEN Append(heap, Stamp)
                                   ELSE [heap EXCEPT ![i] = Stamp]
                        /\ owed' = With(owed, t, Stamp)
                        /\ Succeeds
        /\ op' = op + 1
        /\ KeepsLoader
        /\ UNCHANGED <<phase, at, discoveryVars, exporterVars, commandVars, taskVars,
                       configVars, ranFeatures>>

\* ctx.traits[T] = T(...)
PutTrait ==
    \E o \in {p \in program.ops : p.op = "put"} :
        /\ InBody(o) /\ Imports(Caller, o.file)
        /\ LET t == Handle(Caller, o.file)
           IN  /\ traits' = SetAt(traits, t, Len(heap) + 1)
               /\ owed' = With(owed, t, Stamp)
        /\ heap' = Append(heap, Stamp)
        /\ op' = op + 1
        /\ Succeeds /\ KeepsLoader
        /\ UNCHANGED <<phase, at, discoveryVars, exporterVars, commandVars, taskVars,
                       configVars, ranFeatures>>

\* ctx.telemetry.exporters.add(...), which can also be a hook's in the task,
\* when nobody takes the specs any more; there, an error is the task's (EndTask).
AddExporter ==
    \E o \in {p \in program.ops : p.op = "export"} :
        /\ InBody(o) \/ (InTask(o) /\ ranFeatures # << >>)
        /\ IF Addable(o.call)
           THEN /\ exporters' = Append(exporters, SpecOf(o.call))
                /\ exported' = IF phase = "task" THEN exported
                               ELSE Append(exported, SpecOf(o.call))
                /\ tel' = [tel EXCEPT !.active = TRUE]
                /\ Succeeds
           ELSE InBody(o) /\ Fails("axl", << >>) /\ UNCHANGED exporterVars
        /\ op' = op + 1
        /\ KeepsLoader
        /\ UNCHANGED <<phase, at, discoveryVars, traitVars, installed, commandVars,
                       taskVars, configVars, ranFeatures>>

\* trace.log(...), trace.event(...)
Emit ==
    \E o \in {p \in program.ops : p.op \in {"log", "event"}} :
        /\ InBody(o) \/ InTask(o)
        /\ tel' = IF o.op = "log" THEN Log(tel) ELSE Event(tel)
        /\ op' = op + 1
        /\ Succeeds /\ KeepsLoader
        /\ UNCHANGED <<phase, at, discoveryVars, traitVars, specVars, commandVars,
                       taskVars, configVars, ranFeatures>>

\* The function fails: fail(), an exception of a builtin.
FailBody ==
    \E o \in {p \in program.ops : p.op = "fail"} :
        /\ InBody(o)
        /\ Fails("axl", Caller)
        /\ KeepsLoader
        /\ UNCHANGED <<phase, at, op, discoveryVars, traitVars, exporterVars,
                       commandVars, taskVars, configVars, ranFeatures>>

----------------------------------------------------------------------------
\* Between the phases: the command tree, and the command line against it.
AllKeys == [i \in 1..Len(tasks) |-> tasks[i].key]

BuildCommands ==
    /\ Runs("configs") /\ at > Len(program.configs)
    /\ IF Accepts(AllKeys) THEN Succeeds ELSE Fails("conflict", << >>)
    /\ phase' = "commands"
    /\ tel' = EndSpan(tel, SpanOf(phase))
    /\ KeepsLoader
    /\ UNCHANGED <<at, op, discoveryVars, traitVars, specVars, commandVars,
                   taskVars, configVars, ranFeatures>>

Dispatch ==
    /\ Runs("commands")
    /\ \E l \in program.lines :
          /\ line' = l
          /\ chosen' = FindTask(l.key)
          /\ LET i == FindTask(l.key)
                 flags == TaskCommand(tasks[i], features)
             IN  IF i # 0 /\ Usable(flags, l.words)
                 THEN parsed' = MatchesOf(flags, l.words) /\ phase' = "features" /\ Succeeds
                 ELSE parsed' = parsed /\ phase' = phase /\ Fails("usage", << >>)
    /\ at' = 1 /\ op' = 0
    /\ KeepsLoader
    /\ UNCHANGED <<discoveryVars, traitVars, exporterVars, args, mine, taskVars,
                   configVars, ranFeatures>>

\* Phase 3.  What the command line says; `enabled` is an argument like any
\* other, and only a bool can turn a feature off.
ArgsOf(f) == MergeArgs(f.args, f.overrides, parsed, << f.name >>)
IsEnabled(f) == ArgsOf(f).values[Enabled] # Scalar("bool", "false")
Called(f) == [file |-> f.file, args |-> ArgsOf(f)]

CallFeatureAgain ==
    /\ Runs("features") /\ at <= Len(features) /\ op = 0 /\ at' = at
    /\ IF IsEnabled(features[at])
       THEN op' = 1 /\ ranFeatures' = Append(ranFeatures, Called(features[at]))
       ELSE op' = 0 /\ ranFeatures' = ranFeatures
    /\ Succeeds /\ KeepsLoader
    /\ UNCHANGED <<phase, discoveryVars, traitVars, exporterVars, commandVars,
                   taskVars, configVars>>

CallFeature ==
    /\ Runs("features") /\ at <= Len(features) /\ op = 0
    /\ IF IsEnabled(features[at])
       THEN op' = 1 /\ at' = at /\ ranFeatures' = Append(ranFeatures, Called(features[at]))
       ELSE op' = 0 /\ at' = at + 1 /\ ranFeatures' = ranFeatures
    /\ Succeeds /\ KeepsLoader
    /\ UNCHANGED <<phase, discoveryVars, traitVars, exporterVars, commandVars,
                   taskVars, configVars>>

FeatureDone ==
    /\ Runs("features") /\ at <= Len(features) /\ op >= 1
    /\ at' = at + 1 /\ op' = 0
    /\ Succeeds /\ KeepsLoader
    /\ UNCHANGED <<phase, discoveryVars, traitVars, exporterVars, commandVars,
                   taskVars, configVars, ranFeatures>>

\* Phase 3.5: the specs are taken, the file sinks opened and their buffer replayed;
\* without a spec tracing is switched off.  The first form reads the specs without
\* taking them.
InstallsExporters(left) ==
    /\ Runs("features") /\ at > Len(features)
    /\ installed' = exporters /\ exporters' = left
    /\ LET t == EndSpan(tel, SpanOf(phase))
       IN  IF exporters = << >>
           THEN /\ tel' = [t EXCEPT !.active = FALSE]
                /\ phase' = "task" /\ Succeeds
           ELSE /\ tel' = SinksInstalled(t, exporters)
                /\ phase' = "exporters"
                /\ IF LoopFails(exporters) THEN Fails("exporter", << >>) ELSE Succeeds
    /\ at' = 0 /\ op' = 0
    /\ KeepsLoader
    /\ UNCHANGED <<discoveryVars, traitVars, exported, commandVars, taskVars,
                   configVars, ranFeatures>>

InstallExportersKeeping == InstallsExporters(exporters)
InstallExporters == InstallsExporters(<< >>)

\* The spans and then the logs (`op`): what was buffered is taken under the lock
\* and sent without it; no exporter wants them, no replay.
Signal == IF op < 2 THEN [pipe |-> "spans", name |-> "traces"]
          ELSE [pipe |-> "logs", name |-> "logs"]
InstallLate ==
    /\ Runs("exporters") /\ op < 4
    /\ LET late == Wanting(installed, Signal.name)
       IN  tel' = IF late = << >> THEN tel
                  ELSE IF op \in {0, 2} THEN TakeBuffer(tel, Signal.pipe, late)
                  ELSE Replay(tel, Signal.pipe, late)
    /\ op' = op + 1
    /\ Succeeds /\ KeepsLoader
    /\ UNCHANGED <<phase, at, discoveryVars, traitVars, specVars, commandVars, taskVars,
                   configVars, ranFeatures>>

InstallMetrics ==
    /\ Runs("exporters") /\ op = 4
    /\ IF MetricsFail(installed)
       THEN phase' = phase /\ Fails("exporter", << >>)
       ELSE phase' = "task" /\ Succeeds
    /\ op' = 0
    /\ KeepsLoader
    /\ UNCHANGED <<at, discoveryVars, traitVars, exporterVars, commandVars, taskVars,
                   configVars, ranFeatures>>

----------------------------------------------------------------------------
\* Phase 4.  The task's context, then its implementation.
Task == tasks[chosen]

StartTask ==
    /\ Runs("task") /\ op = 0
    /\ args' = MergeArgs(Task.args, Task.overrides, parsed, << >>)
    /\ mine' = Scoped(traits, Task.traits)
    /\ info' = NewInfo(now)
    /\ op' = 1
    /\ Succeeds /\ KeepsLoader
    /\ UNCHANGED <<phase, at, discoveryVars, traitVars, exporterVars, line, chosen, parsed,
                   defers, pending, implFailed, code, now, registered, ranDefers,
                   configVars, ranFeatures>>

\* ctx.traits[T] in the task; a miss fails the implementation (EndTask).
ReadTrait ==
    \E o \in {p \in program.ops : p.op = "read"} :
        /\ InTask(o) /\ Imports(Task.file, o.file)
        /\ LET t == Handle(Task.file, o.file)
               fresh == Len(heap) + 1
           IN  /\ Holds(mine, t)
               /\ mine' = SetAt(mine, t, At(mine, t, fresh))
               /\ heap' = IF At(mine, t, fresh) = fresh THEN Append(heap, Stamp) ELSE heap
        /\ op' = op + 1 /\ now' = now + 1
        /\ Succeeds /\ KeepsLoader
        /\ UNCHANGED <<phase, at, discoveryVars, traits, owed, exporterVars, line, chosen, parsed,
                       args, defers, pending, implFailed, code, info, registered,
                       ranDefers, configVars, ranFeatures>>

\* The task calls a hook some feature left behind, which reads its own
\* ctx.traits[T]: the map of the features, not the task's.
CallHook ==
    \E o \in {p \in program.ops : p.op = "hook"} :
        /\ InTask(o)
        /\ \E t \in DOMAIN traits :
              LET fresh == Len(heap) + 1
              IN  /\ traits' = SetAt(traits, t, At(traits, t, fresh))
                  /\ heap' = IF At(traits, t, fresh) = fresh
                             THEN Append(heap, Stamp) ELSE heap
        /\ ranFeatures # << >>
        /\ op' = op + 1 /\ now' = now + 1
        /\ Succeeds /\ KeepsLoader
        /\ UNCHANGED <<phase, at, discoveryVars, owed, exporterVars, commandVars,
                       defers, pending, implFailed, code, info, registered, ranDefers,
                       configVars, ranFeatures>>

\* What both the implementation and a deferred callable may do.
DeferCall(what) ==
    defers' = Append(defers, [id |-> now, does |-> what])

Defer ==
    \E o \in {p \in program.ops : p.op = "defer"} :
        /\ InTask(o)
        /\ DeferCall(o.does)
        /\ registered' = Append(registered, now)
        /\ op' = op + 1 /\ now' = now + 1
        /\ Succeeds /\ KeepsLoader
        /\ UNCHANGED <<phase, at, discoveryVars, traitVars, exporterVars, commandVars,
                       pending, implFailed, code, info, ranDefers, configVars, ranFeatures>>

EnterPhase ==
    \E o \in {p \in program.ops : p.op = "phase"} :
        /\ InTask(o)
        /\ info' = Phase(info, o.name, now)
        /\ op' = op + 1 /\ now' = now + 1
        /\ Succeeds /\ KeepsLoader
        /\ UNCHANGED <<phase, at, discoveryVars, traitVars, exporterVars, commandVars,
                       defers, pending, implFailed, code, registered, ranDefers,
                       configVars, ranFeatures>>

\* The implementation is over, whichever way; what it deferred is drained once,
\* last first.
DrainedInOrder == defers

Drained == Reverse(defers)

TaskOver(failed, exit) ==
    /\ implFailed' = failed /\ code' = exit
    /\ pending' = Drained /\ defers' = << >>
    /\ phase' = "deferred" /\ now' = now + 1

EndTask ==
    /\ Runs("task") /\ op >= 1
    /\ \/ TaskOver(FALSE, 0)
       \/ \E o \in {p \in program.ops : p.op = "return"} : TaskOver(FALSE, o.code)
       \/ \E o \in {p \in program.ops : p.op = "fail"} : TaskOver(TRUE, 0)
       \/ \E o \in {p \in program.ops : p.op = "read"} :
             /\ InTask(o) /\ Imports(Task.file, o.file)
             /\ ~Holds(mine, Handle(Task.file, o.file))
             /\ TaskOver(TRUE, 0)
       \/ \E o \in {p \in program.ops : p.op = "export"} :
             InTask(o) /\ ranFeatures # << >> /\ ~Addable(o.call) /\ TaskOver(TRUE, 0)
    /\ Succeeds /\ KeepsLoader
    /\ UNCHANGED <<at, op, discoveryVars, traitVars, exporterVars, commandVars, info,
                   registered, ranDefers, configVars, ranFeatures>>

\* run_deferred: an error is logged and the next callable runs.
RunDeferred ==
    /\ Runs("deferred") /\ pending # << >>
    /\ ranDefers' = Append(ranDefers, Head(pending).id)
    /\ pending' = Tail(pending)
    /\ IF Head(pending).does = "defer" THEN DeferCall("nothing") ELSE defers' = defers
    /\ info' = IF Head(pending).does = "phase" THEN Phase(info, "cleanup", now) ELSE info
    /\ now' = now + 1
    /\ Succeeds /\ KeepsLoader
    /\ UNCHANGED <<phase, at, op, discoveryVars, traitVars, exporterVars, commandVars,
                   implFailed, code, registered, configVars, ranFeatures>>

\* unpack_task_return: `as u8`.
ExitCode(c) == c % 256

\* An implementation that failed is the error of the run; otherwise the open
\* phase is closed and the code decides the verdict.
Conclude ==
    /\ Runs("deferred") /\ pending = << >>
    /\ IF implFailed
       THEN phase' = "failed" /\ UNCHANGED <<info, code>>
       ELSE /\ info' = CloseActive(info, now)
            /\ code' = ExitCode(code)
            /\ phase' = IF ExitCode(code) = 0 THEN "passed" ELSE "failed"
    /\ tel' = Shutdown(EndSpan(tel, SpanOf(phase)))
    /\ Succeeds /\ KeepsLoader
    /\ UNCHANGED <<at, op, discoveryVars, traitVars, specVars, commandVars, defers,
                   pending, implFailed, now, registered, ranDefers, configVars,
                   ranFeatures>>

\* An error outside the task ends the run.
Abort ==
    /\ failure # "" /\ frames = << >> /\ phase \notin Final
    /\ phase' = "failed"
    /\ tel' = Shutdown(IF SpanOf(phase) = "" THEN tel ELSE EndSpan(tel, SpanOf(phase)))
    /\ UNCHANGED <<loaderVars, at, op, discoveryVars, traitVars, specVars,
                   commandVars, taskVars, configVars, ranFeatures>>

Exited == phase \in Final /\ UNCHANGED vars

Next ==
    \/ Evaluate
    \/ TakeScript \/ ScriptsDone \/ Pick \/ UseTask \/ UseFeature \/ ModuleDone
    \/ StartConfigs \/ CallConfig \/ SetArg \/ SetFeature \/ AddTask \/ ConfigDone
    \/ TouchTrait \/ PutTrait \/ AddExporter \/ Emit \/ FailBody
    \/ BuildCommands \/ Dispatch \/ CallFeature \/ FeatureDone
    \/ InstallExporters \/ InstallLate \/ InstallMetrics \/ BatchThread
    \/ StartTask \/ ReadTrait \/ CallHook \/ Defer \/ EnterPhase \/ EndTask
    \/ RunDeferred \/ Conclude \/ Abort \/ Exited

Spec == Init /\ [][Next]_vars /\ WF_vars(Next)

----------------------------------------------------------------------------
\* The types of the variables.
TypeOK ==
    /\ \A f \in DOMAIN cache : cache[f].state \in {"Loading", "Loaded"}
    /\ \A i \in 1..Len(frames) : frames[i].scoped \in BOOLEAN
    /\ made \in Nat
    /\ \A e \in DOMAIN got : got[e] \in 1..made
    /\ phase \in {"scripts", "modules", "configs", "commands", "features", "exporters",
                  "task", "deferred"} \cup Final
    /\ at \in Nat /\ op \in Nat /\ now \in Nat
    /\ chosen \in 0..Len(tasks) /\ known \in 0..Len(tasks)
    /\ \A t \in DOMAIN traits : traits[t] \in 0..Len(heap)
    /\ \A t \in DOMAIN mine : mine[t] \in 0..Len(heap)
    /\ implFailed \in BOOLEAN

\* A file's relative loads resolve in the module that holds the file, however
\* deep the chain of loads that reached it (load.rs:45-47), and an error leaves
\* neither stack behind.
ScopeIsHome ==
    /\ frames # << >> /\ Top.file.mod # Std => CurrentModule = Top.file.mod
    /\ frames = << >> => scopes = << >>

\* Where a label leads, walked segment by segment.
Ups(l) == Len(SelectSeq(l.segs, LAMBDA s : s = ".."))
NamesIn(l) == SelectSeq(l.segs, LAMBDA s : s \notin {".", ".."})
Start(f, l) == IF l.mod = << >> /\ Head(l.segs) \in {".", ".."} THEN Front(f.name) ELSE << >>
LeadsOut(f, l) == Ups(l) > Len(Start(f, l))
Home(f, l) ==
    [mod |-> IF l.mod = << >> THEN f.mod ELSE l.mod[1],
     name |-> IF LeadsOut(f, l) THEN << >>
              ELSE SubSeq(Start(f, l), 1, Len(Start(f, l)) - Ups(l)) \o NamesIn(l)]
Edge(f, g) == \E i \in 1..Len(LoadsOf(f)) : Home(f, LoadsOf(f)[i]) = g

\* A cycle is reported only where there is one, and the trace printed is the
\* chain of loads that closes it (cycle_error, load.rs:164).
CycleIsReal ==
    failure = "cycle" =>
       LET trace == blamed.trace
       IN  /\ \A i \in 1..Len(trace) - 1 : Edge(trace[i], trace[i + 1])
           /\ Edge(trace[Len(trace)], blamed.target)
           /\ blamed.target \in Range(trace)

\* A label of dots and names leads where one comes who walks it, from the file's directory
\* or from the root of a module and never out of it; it is refused only if it leads out,
\* to nobody's module, to nothing, or is no label (load_path.rs:6, 257).
Astray(f, l) ==
    \/ ~IsLoadPath(l) \/ LeadsOut(f, l) \/ f.mod = Std
    \/ l.mod # << >> /\ (Home(f, l) \notin Existing \/ ~(Listed(l.mod[1]) \/ l.mod = <<Std>>))
    \/ l.mod = <<Std>> /\ Head(l.segs) = "."
LabelsLeadHome ==
    /\ \A f \in DOMAIN cache : Loaded(f) /\ f.mod # Std =>
          {e[2] : e \in {e \in DOMAIN got : e[1] = f}} = {Home(f, l) : l \in Range(LoadsOf(f))}
    /\ failure = "unresolved" /\ blamed.trace = Trace =>
          Astray(Top.file, NextLoad)

\* All files that load a file receive the same frozen module, made before their
\* own: without it a feature's handle and a trait's type would have several
\* identities (LoadState, load.rs:17).
OneModulePerFile ==
    \A e \in DOMAIN got :
        /\ Loaded(e[2]) /\ got[e] = Module(e[2])
        /\ Loaded(e[1]) => got[e] < Module(e[1])

\* A config is told that a feature or a trait is missing only if no module uses
\* that feature, or no task found in phase 1 declares that trait
\* (feature_map.rs:121, trait_map.rs:167).
MissingMeansUndeclared ==
    /\ failure = "no feature" =>
          \A i \in 1..Len(features) : features[i].file # blamed.target
    /\ failure = "no trait" =>
          \A i \in 1..known : Module(blamed.target) \notin tasks[i].traits

\* Loading: a file is evaluated once, in its module, and those who name what it
\* exports mean the same thing (load.rs, feature_map.rs, trait_map.rs).
LoadsAreSound == TypeOK /\ ScopeIsHome /\ OneModulePerFile /\ MissingMeansUndeclared

\* The command line reaches exactly one task by each command, none of them in
\* place of a group or of a built-in command (cmd.rs:1297-1411).
OneTaskPerCommand ==
    phase \in {"features", "task", "deferred"} =>
       \A i, j \in 1..Len(tasks) :
          /\ i # j => ~IsPrefix(tasks[i].key, tasks[j].key)
          /\ Len(tasks[i].key) = 1 => tasks[i].key[1] \notin Reserved \cup Builtin

\* A flag beats config.axl, the last config beats the ones before, and both beat
\* the default, for every argument of the task and of the features that run; what
\* a config set is never dropped, and is_explicit tells what was typed.  Features
\* run after the last config and before the task (cmd.rs:638-683).
Meant(who, name, set, arg) ==
    IF <<who, name>> \in DOMAIN line.says THEN line.says[<<who, name>>]
    ELSE IF <<who, name>> \in DOMAIN set THEN set[<<who, name>>]
    ELSE IF IsCliExposed(arg) THEN ClapToValue(arg, DefaultTexts(arg)) ELSE CustomDefault(arg)
Resolved(who, set, schema, merged) ==
    /\ \A n \in DOMAIN schema : merged.values[n] = Meant(who, n, set, schema[n])
    /\ merged.explicit = {n \in DOMAIN schema : <<who, n>> \in DOMAIN line.says}
    /\ \A e \in DOMAIN set : e[1] = who => e[2] \in DOMAIN merged.values
Runs0(f) == Meant(f.file, Enabled, switched, f.args[Enabled]) # Scalar("bool", "false")

LastWordWins ==
    /\ phase = "task" /\ op = 1 => Resolved(Whom(Task.key), written, Task.args, args)
    /\ phase = "task" /\ op = 0 =>
          LET due == SelectSeq(features, Runs0)
          IN  /\ Len(ranFeatures) = Len(due)
              /\ \A i \in 1..Len(due) :
                    /\ ranFeatures[i].file = due[i].file
                    /\ Resolved(due[i].file, switched, due[i].args, ranFeatures[i].args)
    /\ phase \in {"scripts", "modules", "configs", "commands"} => ranFeatures = << >>

\* A command line is refused only for what is wrong with it, with a value some
\* config set or a default that is not an allowed value, or for a required argument
\* nobody gave; and a wrong one reaches no task (cmd.rs:427-634).
Unfit(who, set, n, arg) ==
    LET given == Meant(who, n, set, arg)
    IN  IF <<who, n>> \in DOMAIN set THEN ~Overlays(arg, given)
        ELSE IsRequired(arg) \/ (arg.values # << >> /\ given.text \notin arg.values[1])
Excused ==
    \/ \E n \in Exposed(Task.args) :
          /\ <<Whom(Task.key), n>> \notin DOMAIN line.says
          /\ Unfit(Whom(Task.key), written, n, Task.args[n])
    \/ \E i \in 1..Len(features) : \E n \in Exposed(features[i].args) :
          /\ <<features[i].file, n>> \notin DOMAIN line.says
          /\ Unfit(features[i].file, switched, n, features[i].args[n])
UsageErrorsAreReal ==
    /\ failure = "usage" /\ chosen # 0 => line.wrong \/ Excused
    /\ phase = "task" /\ op = 0 =>
          /\ ~line.wrong
          /\ \A n \in Exposed(Task.args) :
                IsRequired(Task.args[n]) =>
                   <<Whom(Task.key), n>> \in DOMAIN line.says \cup DOMAIN written

\* What `aspect describe` gives as an argument's default is what the task or the
\* feature gets when nobody types it (cmd.rs:956, "execution will use"): where
\* config.axl set a value of the argument's type, and but for trailing arguments.
Truly(described, got0) == described = got0 \/ (described = NoneValue /\ got0 = List(<< >>))
DescribedOf(schema, shown, overrides, merged) ==
    \A n \in Exposed(schema) \ merged.explicit :
        schema[n].kind # "trailing_var_args" /\ (n \in DOMAIN overrides => Overlays(schema[n], overrides[n]))
        => Truly(DescribedDefault(shown[n], overrides, n), merged.values[n])
DescribedIsEffective ==
    /\ phase = "task" /\ op = 1 =>
          DescribedOf(Task.args, Task.args, Task.overrides, args)
    /\ phase = "task" /\ op = 0 =>
          \A i \in 1..Len(ranFeatures) :
             LET f == features[SelectInSeq(features, LAMBDA g : g.file = ranFeatures[i].file)]
             IN  DescribedOf(f.args, FeatureBlock(f.args, f.overrides), f.overrides, ranFeatures[i].args)

\* What a program and a command line say, of files, of arguments and of tasks, is
\* what happens, and what cannot be said is refused rightly (load_path.rs,
\* multi_phase.rs:240-600).
ConfiguredAsWritten ==
    /\ CycleIsReal /\ LabelsLeadHome /\ OneTaskPerCommand /\ LastWordWins
    /\ UsageErrorsAreReal /\ DescribedIsEffective

\* A task of phase 1 finds every trait it declares, and where a config or a
\* feature wrote one, the task, and any hook of a feature, read that very
\* instance as it was last written (trait_map.rs:122, multi_phase.rs:553).
TraitsAreShared ==
    phase \in {"task", "deferred"} /\ op >= 1 =>
       /\ chosen <= known => Task.traits \subseteq DOMAIN mine
       /\ \A t \in DOMAIN mine \cap DOMAIN owed :
             /\ mine[t] = traits[t] /\ mine[t] # None
             /\ heap[mine[t]] = owed[t]

\* What configs and features registered with ctx.telemetry is installed, all of
\* it and once, when the task starts (multi_phase.rs:170).
ExportersInstalled ==
    phase \in {"task", "deferred"} =>
       installed = exported /\ (op = 0 => exporters = << >>)

\* An exporter is late but misses nothing: a file sink has, in order, every
\* record emitted so far that it accepts, and an OTLP exporter has, when the run
\* is over, every log or span exactly once and every event in one span of its own;
\* but for the oldest of more than BufferCap records that came before them
\* (trace_buffer.rs:8, 110-125; trace.rs:190).
Before == SelectSeq(tel.emitted, LAMBDA r : r.id <= tel.since)
After == SelectSeq(tel.emitted, LAMBDA r : r.id > tel.since)
FileHas(i) ==
    LET due == SelectSeq(LastOf(Before, BufferCap) \o After,
                         LAMBDA r : SinkAccepts(installed[i], r))
    IN  due = IF <<i, "file">> \in DOMAIN tel.wire THEN tel.wire[<<i, "file">>] ELSE << >>

HasEach(got0, all, old) ==
    /\ Range(got0) \subseteq Range(all) /\ IsInjective(got0)
    /\ \A k \in 1..Len(all) : all[k] \notin Range(got0) => k <= Minus(old, BufferCap)

NothingUntraced ==
    /\ DOMAIN tel.wire \subseteq (1..Len(installed)) \X {"file", "spans", "logs"}
    /\ phase = "task" /\ failure = "" =>
          \A i \in 1..Len(installed) : installed[i].kind = "file" => FileHas(i)
    /\ phase \in Final /\ failure = "" /\ installed # << >> =>
          /\ \A i \in Range(Wanting(installed, "logs")) :
                HasEach(tel.wire[<<i, "logs">>],
                        SelectSeq(tel.emitted, LAMBDA r : r.kind = "log"),
                        Len(SelectSeq(Before, LAMBDA r : r.kind = "log")))
          /\ \A i \in Range(Wanting(installed, "traces")) :
                HasEach(tel.wire[<<i, "spans">>], tel.ended, 3)
          /\ \A k \in 1..Len(tel.emitted) : tel.emitted[k].kind = "event" =>
                Cardinality({j \in 1..Len(tel.ended) :
                                tel.emitted[k] \in Range(tel.ended[j].events)}) = 1

\* Whatever becomes of the implementation, what it deferred runs, last first,
\* each callable once, though others fail (task_context.rs:199).
DefersRun ==
    /\ phase = "deferred" =>
          ranDefers \o [i \in 1..Len(pending) |-> pending[i].id] = Reverse(registered)
    /\ phase \in Final /\ registered # << >> => ranDefers = Reverse(registered)

\* A task that entered a phase and did not fail accounts for all its time: the
\* phases are contiguous from the task's start to its end, neighbours differ but for
\* an "init" after the one made up, and only the last can be one that the end cut
\* short (task_info.rs:405).
PhasesCoverTheTask ==
    (phase \in Final /\ chosen # 0 /\ failure = "" /\ ~implFailed) =>
       /\ info.current = << >>
       /\ info.phases # << >> =>
             LET p == info.phases
             IN  /\ p[1].from = info.started /\ p[Len(p)].to = now
                 /\ \A i \in 1..Len(p) - 1 :
                       /\ p[i].to = p[i + 1].from
                       /\ i > 1 => p[i].name # p[i + 1].name
                       /\ ~p[i].interrupted

\* Running: around the implementation, nothing asked for is left out or done
\* twice (multi_phase.rs:553-770).
TaskIsCarriedThrough ==
    ExportersInstalled /\ TraitsAreShared /\ DefersRun /\ PhasesCoverTheTask

\* Every run ends, whatever its files load.
Ends == <>(phase \in Final)
=============================================================================
