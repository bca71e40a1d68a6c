------------------------------- MODULE Loader -------------------------------
(***************************************************************************)
(* AxlLoader (eval/load.rs): how one `.axl` file pulls in the next, and    *)
(* what its load statements may say (eval/load_path.rs).                   *)
(*                                                                         *)
(* A path is the sequence of its segments, a file the module whose root    *)
(* holds it and its path in that module; the embedded files of @std and    *)
(* @bazel belong to Std.  What a file contains is the environment's        *)
(* choice, made once: `program` gives the load statements of every file    *)
(* that exists, as labels [mod |-> <<m>> or << >>, segs |-> <<"d", "f">>]  *)
(* for "@m//d/f.axl" or "d/f.axl", and the files that fail to parse or to  *)
(* evaluate.                                                               *)
(*                                                                         *)
(* The identity of what a file exports (a feature's handle, a trait's type *)
(* id) is the frozen module it came from, so every evaluation of a file is *)
(* numbered by `made`, and `got` remembers which frozen module each file   *)
(* received from each of its loads.                                        *)
(***************************************************************************)
EXTENDS Integers, Arguments, TLC

CONSTANT Std      \* the scope of the embedded files

VARIABLES
    program,      \* the AXL sources, chosen at the start
    cache,        \* loaded_modules: file -> [state, module]
    frames,       \* load_stack: [file, next load, whether a scope was pushed]
    scopes,       \* module_stack
    made,         \* how many evaluations have succeeded
    got,          \* <<file, loaded file>> -> number of the frozen module received
    failure,      \* the error being propagated, "" if none
    blamed        \* what the error is about: [trace of a failed load, target]

loaderVars == <<program, cache, frames, scopes, made, got, failure, blamed>>

Existing == DOMAIN program.loads
LoadsOf(f) == IF f \in Existing THEN program.loads[f] ELSE <<>>

Loading(f) == f \in DOMAIN cache /\ cache[f].state = "Loading"
Loaded(f) == f \in DOMAIN cache /\ cache[f].state = "Loaded"
Module(f) == cache[f].module

\* HashMap::insert
With(map, key, value) ==
    [k \in DOMAIN map \cup {key} |-> IF k = key THEN value ELSE map[k]]

\* load_stack, as cycle_error renders it
Trace == [i \in 1..Len(frames) |-> frames[i].file]
Top == frames[Len(frames)]

Idle == frames = <<>> /\ failure = ""

LoaderInit ==
    /\ cache = << >> /\ frames = << >> /\ scopes = << >>
    /\ made = 0 /\ got = << >>
    /\ failure = "" /\ blamed = [trace |-> << >>, target |-> << >>]

----------------------------------------------------------------------------
\* join_confined, at an absolute base: components() knows no empty segment but the root.
\* The first form stays where it is instead of leaving the base.
Outside == <<"..">>
ComponentsOf(path) == SelectSeq(path, LAMBDA c : c \notin {"", "."})
JoinHeld(base, path) ==
    FoldLeft(LAMBDA dest, c : IF c # ".." THEN Append(dest, c)
                              ELSE IF dest = base THEN dest ELSE Front(dest),
             base, ComponentsOf(path))
JoinConfined(base, path) ==
    IF path # << >> /\ path[1] = "" THEN Outside
    ELSE FoldLeft(LAMBDA dest, c : IF dest = Outside \/ (c = ".." /\ dest = base) THEN Outside
                                   ELSE IF c = ".." THEN Front(dest) ELSE Append(dest, c),
                  base, ComponentsOf(path))

\* validate_module_name and validate_path_segment; what is wrong with a name makes no
\* difference.
WrongModules == {"", "M", "m-", "m/n"}
WrongSegments == {"", ".", "..", "con", " f", "f.", "a:b"}
IsScript(segment) == segment \notin {"", ".", "..", "f.", "txt"}

\* LoadPath::try_from: what a label may be.
FirstName(segs) == SelectInSeq(segs, LAMBDA s : s \notin {".", ".."})
IsLoadPath(l) ==
    LET k == FirstName(l.segs)
    IN  /\ IsScript(Last(l.segs)) /\ Range(l.mod) \cap WrongModules = {}
        /\ ~(l.mod = << >> /\ Head(l.segs) = "")
        /\ Cardinality({i \in 1..k - 1 : l.segs[i] = "."}) <= 1
        /\ \A i \in k..Len(l.segs) : l.segs[i] \notin WrongSegments

\* normalize_rel_path_lexically: of the dots, one is kept that stands first and alone.
Normalized(segs) ==
    LET rest == SelectSeq(segs, LAMBDA s : s # ".")
    IN  IF segs[1] = "." /\ rest[1] # ".." THEN <<".">> \o rest ELSE rest

\* A relative path starts with dots once it is normalized.  The first form takes it for one
\* from the module's root.
SubpathAny(l) == "sub"
PathKind(l) == IF Normalized(l.segs)[1] \in {".", ".."} THEN "rel" ELSE "sub"
LoadKind(l) == IF l.mod = <<Std>> THEN "std" ELSE IF l.mod # << >> THEN "spec" ELSE PathKind(l)

----------------------------------------------------------------------------
\* FileLoader::load: where a load statement of the file on top leads, and the
\* scope it is evaluated under; Std files are pushed without one.
CurrentModule == scopes[Len(scopes)]

Target(l) ==
    LET path == Normalized(l.segs)
    IN  CASE LoadKind(l) = "std"  -> [mod |-> Std, name |-> path]
          [] LoadKind(l) = "spec" -> [mod |-> l.mod[1], name |-> JoinConfined(<< >>, path)]
          [] LoadKind(l) = "sub"  -> [mod |-> CurrentModule, name |-> JoinConfined(<< >>, path)]
          [] LoadKind(l) = "rel"  ->
                [mod |-> CurrentModule, name |-> JoinConfined(<< >>, Front(Top.file.name) \o path)]

\* lookup_module: the root module and the user's are not in the list.
Listed(name) ==
    \E i \in 1..Len(program.modules) : program.modules[i].name = name /\ name # "root"

Resolves(l) ==
    /\ IsLoadPath(l)
    /\ LoadKind(l) = "rel" => Top.file.mod = CurrentModule
    /\ Target(l).name # Outside
    /\ LoadKind(l) = "spec" => Listed(l.mod[1])
    /\ LoadKind(l) \in {"std", "spec"} => Target(l) \in Existing

\* The load() of another module's file, evaluated where the load stands.
ScopeOfTheLoad(l) == CurrentModule

ScopeFor(l) == IF LoadKind(l) = "spec" THEN l.mod[1] ELSE CurrentModule

\* eval_module: its scope, pushed; eval_std_module pushes none.
PushScope(scope) == Append(scopes, scope)

\* eval_module_impl up to the call of eval_module_inner.
Enter(f, scoped) ==
    /\ cache' = With(cache, f, [state |-> "Loading", module |-> 0])
    /\ frames' = Append(frames, [file |-> f, next |-> 1, scoped |-> scoped])

\* eval_file: the runtime evaluates a file that is not in the cache yet.
EvalFile(f, scope) ==
    /\ Idle /\ ~Loaded(f)
    /\ Enter(f, TRUE)
    /\ scopes' = PushScope(scope)
    /\ UNCHANGED <<program, made, got, failure, blamed>>

----------------------------------------------------------------------------
\* What a load() meets in the cache.
HitLoadingToo(f) == f \in DOMAIN cache
HitNever(f) == FALSE
HitInScope(f) == Loaded(f) /\ f.mod = CurrentModule
CyclicByName(f) == \E g \in DOMAIN cache : Loading(g) /\ g.name = f.name

Hit(f) == Loaded(f)
Cyclic(f) == Loading(f)

NextLoad == LoadsOf(Top.file)[Top.next]

Advanced(fs) == [fs EXCEPT ![Len(fs)].next = @ + 1]

Received(parent, child, module) == With(got, <<parent, child>>, module)

Load ==
    /\ frames # <<>> /\ failure = ""
    /\ Top.next <= Len(LoadsOf(Top.file))
    /\ LET l == NextLoad
           f == Target(l)
       IN  \/ /\ ~Resolves(l)
              /\ failure' = "unresolved"
              /\ blamed' = [trace |-> Trace, target |-> Top.file]
              /\ UNCHANGED <<cache, frames, scopes, got>>
           \/ /\ Resolves(l) /\ Hit(f)
              /\ got' = Received(Top.file, f, Module(f))
              /\ frames' = Advanced(frames)
              /\ UNCHANGED <<cache, scopes, failure, blamed>>
           \/ /\ Resolves(l) /\ Cyclic(f)
              /\ failure' = "cycle"
              /\ blamed' = [trace |-> Trace, target |-> f]
              /\ UNCHANGED <<cache, frames, scopes, got>>
           \/ /\ Resolves(l) /\ ~Hit(f) /\ ~Cyclic(f)
              /\ Enter(f, LoadKind(l) # "std")
              /\ scopes' = IF LoadKind(l) = "std" THEN scopes ELSE PushScope(ScopeFor(l))
              /\ UNCHANGED <<got, failure, blamed>>
    /\ UNCHANGED <<program, made>>

\* The pops of eval_module_impl and eval_module, on success and on failure.
PopScope == IF Top.scoped THEN Front(scopes) ELSE scopes

\* The file is there, it parses, and what it declares is accepted.
Evaluates(f) ==
    /\ f \in Existing \ program.broken
    /\ f \in DOMAIN program.tasks =>
          \A i \in 1..Len(program.tasks[f]) : TaskDeclares(program.tasks[f][i])
    /\ f \in DOMAIN program.features => FeatureDeclares(program.features[f])

\* eval_module_inner succeeded: the frozen module is cached and handed to the
\* file that loaded it.
Freeze ==
    /\ frames # <<>> /\ failure = ""
    /\ Top.next > Len(LoadsOf(Top.file))
    /\ Evaluates(Top.file)
    /\ made' = made + 1
    /\ cache' = With(cache, Top.file, [state |-> "Loaded", module |-> made + 1])
    /\ LET below == Front(frames)
       IN  IF below = <<>>
           THEN frames' = below /\ got' = got
           ELSE /\ frames' = Advanced(below)
                /\ got' = Received(Last(below).file, Top.file, made + 1)
    /\ scopes' = PopScope
    /\ UNCHANGED <<program, failure, blamed>>

\* The file cannot be read or parsed, or its top-level code fails.
Break ==
    /\ frames # <<>> /\ failure = ""
    /\ Top.next > Len(LoadsOf(Top.file))
    /\ ~Evaluates(Top.file)
    /\ failure' = "broken"
    /\ UNCHANGED <<program, cache, frames, scopes, made, got, blamed>>

\* An error leaves eval_module_impl: the entry goes, so do both stacks' tops.
Unwind ==
    /\ frames # <<>> /\ failure # ""
    /\ cache' = [f \in DOMAIN cache \ {Top.file} |-> cache[f]]
    /\ frames' = Front(frames)
    /\ scopes' = PopScope
    /\ UNCHANGED <<program, made, got, failure, blamed>>

LoaderStep == Load \/ Freeze \/ Break \/ Unwind
=============================================================================
