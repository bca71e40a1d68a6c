----------------------------- MODULE Discovery -----------------------------
(***************************************************************************)
(* What a run of the CLI consists of: from the directory it is started in  *)
(* to the scripts, modules and configs of its program (aspect-cli          *)
(* helpers.rs, run() of main.rs, module/eval.rs).                          *)
(*                                                                         *)
(* A path is the sequence of its segments.  Of the world `w`:              *)
(*   cwd, home       directories                                           *)
(*   files, dirs     what there is: a script f.axl is the file "f"         *)
(*   says            the statements of the MODULE.aspect in a directory,   *)
(*                   an archive or the built-in module                     *)
(*   names           the names of modules, in order                        *)
(*   wrong           whether some MODULE.aspect has to be refused          *)
(* A statement is [s, name, of, auto, sound] for a dependency, `of' being  *)
(* the directory or archive and `sound' what its other arguments are, or   *)
(* [s, label, symbols, means] for a task or a feature; `means' is the file *)
(* of the module that the label stands for.                                *)
(***************************************************************************)
EXTENDS Loader

VARIABLE man      \* what has been found: see NewMan

ManifestFile == <<"MODULE.aspect">>
AspectFolder == ".aspect"
AspectMarkers == {ManifestFile, <<AspectFolder, "version">>}
BazelMarkers == {<<"MODULE.bazel">>, <<"WORKSPACE">>}
BuiltinModule == "aspect"

----------------------------------------------------------------------------
\* find_ancestor_with_any: from the directory up, so the deepest.
Ancestors(dir) == [i \in 1..Len(dir) + 1 |-> SubSeq(dir, 1, Len(dir) + 1 - i)]
FindAncestor(w, markers) ==
    LET i == SelectInSeq(Ancestors(w.cwd),
                         LAMBDA d : \E m \in markers : d \o m \in w.files \cup w.dirs)
    IN  IF i = 0 THEN << >> ELSE << Ancestors(w.cwd)[i] >>
FindRoot(w, primary, fallback) ==
    LET found == FindAncestor(w, primary) \o FindAncestor(w, fallback) \o << w.cwd >>
    IN  found[1]
AspectRoot(w) == FindRoot(w, AspectMarkers, BazelMarkers)

\* get_default_axl_search_paths, and the first form that starts at the deepest.
SearchDeepest(cwd, root) ==
    [i \in 1..Len(cwd) - Len(root) + 1 |-> Append(SubSeq(cwd, 1, Len(cwd) + 1 - i), AspectFolder)]
SearchPaths(cwd, root) ==
    LET rel == SubSeq(cwd, Len(root) + 1, Len(cwd))
        stop == SelectInSeq(rel, LAMBDA c : c = AspectFolder)
        deep == IF stop = 0 THEN Len(rel) ELSE stop - 1
    IN  [i \in 1..deep + 1 |-> Append(root \o SubSeq(rel, 1, i - 1), AspectFolder)]

\* The files of a directory, which read_dir gives in any order.
EntriesOf(w, dir) == {f \in w.files : f # << >> /\ Front(f) = dir}

----------------------------------------------------------------------------
\* A MODULE.aspect is evaluated into a Mod.
NewMod(name) == [name |-> name, deps |-> {}, tasks |-> << >>, features |-> << >>]
NewMan(w) ==
    [todo |-> << [name |-> "root", of |-> AspectRoot(w)] >>, next |-> 1, mod |-> NewMod("root"),
     mods |-> << >>,
     dirs |-> SearchPaths(w.cwd, AspectRoot(w)), left |-> EntriesOf(w, Append(AspectRoot(w), AspectFolder)),
     scripts |-> << >>, configs |-> << >>, done |-> FALSE]

Statements(w, of) == IF of \in DOMAIN w.says THEN w.says[of] ELSE << >>

\* Dep's Eq is by name, so HashSet::insert keeps the first.
NeverDuplicates(mod, name) == FALSE
Duplicates(mod, name) == \E d \in mod.deps : d.name = name

Place(w, s) == IF s.s = "local" THEN AspectRoot(w) \o s.of ELSE s.of
\* axl_archive_dep and axl_local_dep, which stats the path; the old names only fail.
TakesDep(w, mod, s) ==
    /\ s.name # "root" /\ s.name \notin WrongModules
    /\ s.sound
    /\ s.s = "local" => Place(w, s) \in w.dirs
    /\ ~Duplicates(mod, s.name)
IsDeclarable(w, mod, s) ==
    CASE s.s \in {"archive", "local"} -> TakesDep(w, mod, s)
      [] s.s \in {"task", "feature"} -> JoinConfined(<< >>, s.label) # Outside
      [] s.s = "renamed" -> FALSE

FileNamed(mod, s) == [mod |-> mod.name, name |-> JoinConfined(<< >>, s.label)]

\* entry(path).or_insert(...).extend(symbols), and the same without the entry.
OnlyTheLast(listed, f, symbols) == (f :> symbols) @@ listed
Listing(listed, f, symbols) ==
    (f :> (IF f \in DOMAIN listed THEN listed[f] ELSE << >>) \o symbols) @@ listed

Declare(w, mod, s) ==
    CASE s.s \in {"archive", "local"} ->
            [mod EXCEPT !.deps = @ \cup {[name |-> s.name, of |-> Place(w, s), auto |-> s.auto]}]
      [] s.s = "task" -> [mod EXCEPT !.tasks = Listing(@, FileNamed(mod, s), s.symbols)]
      [] s.s = "feature" -> [mod EXCEPT !.features = Append(@, FileNamed(mod, s))]

\* expand_store: the modules whose tasks are used, by name; a dependency that is
\* called like the built-in one takes its link, though both stay in the list.
LinkedAt(deps, name) ==
    IF \E d \in deps : d.name = name THEN (CHOOSE d \in deps : d.name = name).of
    ELSE << BuiltinModule >>
ModuleRoots(w, deps) ==
    LET Roots(name) ==
            [i \in 1..(IF name = BuiltinModule THEN 1 ELSE 0)
                      + Cardinality({d \in deps : d.name = name /\ d.auto})
                |-> [name |-> name, of |-> LinkedAt(deps, name)]]
    IN  FlattenSeq([i \in 1..Len(w.names) |-> Roots(w.names[i])])

\* ModEvaluator::evaluate, statement by statement.
EvalStatement(w) ==
    /\ man.todo # << >>
    /\ LET text == Statements(w, Head(man.todo).of)
       IN  /\ man.next <= Len(text)
           /\ LET s == text[man.next]
              IN  IF IsDeclarable(w, man.mod, s)
                  THEN /\ man' = [man EXCEPT !.next = @ + 1, !.mod = Declare(w, @, s)]
                       /\ UNCHANGED <<failure, blamed>>
                  ELSE /\ failure' = "manifest"
                       /\ blamed' = [trace |-> << >>, target |-> s]
                       /\ man' = man
    /\ UNCHANGED program

EvalDone(w) ==
    /\ man.todo # << >> /\ man.next > Len(Statements(w, Head(man.todo).of))
    /\ LET left == IF man.mods = << >> THEN ModuleRoots(w, man.mod.deps) ELSE Tail(man.todo)
       IN  man' = [man EXCEPT !.mods = Append(@, man.mod), !.todo = left, !.next = 1,
                              !.mod = IF left = << >> THEN @ ELSE NewMod(left[1].name)]
    /\ UNCHANGED <<program, failure, blamed>>

----------------------------------------------------------------------------
\* search_sources.
Relative(w, f) == SubSeq(f, Len(AspectRoot(w)) + 1, Len(f))
RootFile(w, f) == [mod |-> "root", name |-> Relative(w, f)]

TakeEntry(w) ==
    /\ man.todo = << >> /\ man.dirs # << >>
    /\ \E f \in man.left :
          man' = [man EXCEPT
                    !.left = @ \ {f},
                    !.configs = IF Last(f) = "config" THEN Append(@, RootFile(w, f)) ELSE @,
                    !.scripts = IF IsScript(Last(f)) /\ Last(f) \notin {"config", "version"}
                                THEN Append(@, RootFile(w, f)) ELSE @]
    /\ UNCHANGED <<program, failure, blamed>>

NextDir(w) ==
    /\ man.todo = << >> /\ man.dirs # << >> /\ man.left = {}
    /\ LET left == Tail(man.dirs)
       IN  man' = [man EXCEPT !.dirs = left,
                              !.left = IF left = << >> THEN {} ELSE EntriesOf(w, left[1])]
    /\ UNCHANGED <<program, failure, blamed>>

\* find_user_config, unless the project's configs have it; the second form always.
UserConfigFile(w) == w.home \o <<AspectFolder, "config">>
UserFile == [mod |-> "user", name |-> <<"config">>]
UserConfigAlways(w, configs) ==
    IF UserConfigFile(w) \in w.files THEN << [file |-> UserFile, scope |-> "user"] >> ELSE << >>
UserConfig(w, configs) ==
    IF \E i \in 1..Len(configs) : AspectRoot(w) \o configs[i].name = UserConfigFile(w)
    THEN << >> ELSE UserConfigAlways(w, configs)

ModuleOf(mod) ==
    [name |-> mod.name, features |-> mod.features,
     tasks |-> {[file |-> f, keys |-> mod.tasks[f]] : f \in DOMAIN mod.tasks}]

\* run() goes on to phase 1; the root module comes after the others.
Assemble(w) ==
    /\ man.todo = << >> /\ man.dirs = << >> /\ ~man.done
    /\ program' = [program EXCEPT
          !.scripts = man.scripts,
          !.modules = LET all == [i \in 1..Len(man.mods) |-> ModuleOf(man.mods[i])]
                      IN  Tail(all) \o << all[1] >>,
          !.configs = [i \in 1..Len(man.configs) |-> [file |-> man.configs[i], scope |-> "root"]]
                      \o UserConfig(w, man.configs)]
    /\ man' = [man EXCEPT !.done = TRUE]
    /\ UNCHANGED <<failure, blamed>>

DiscoveryStep(w) ==
    failure = "" /\ (EvalStatement(w) \/ EvalDone(w) \/ TakeEntry(w) \/ NextDir(w) \/ Assemble(w))

----------------------------------------------------------------------------
\* Between the project's root and the directory of the command, but not inside of
\* an .aspect directory.
Between(w) ==
    {d \in Range(Ancestors(w.cwd)) :
        /\ IsPrefix(AspectRoot(w), d)
        /\ AspectFolder \notin Range(SubSeq(d, Len(AspectRoot(w)) + 1, Len(d)))}
PathOf(w, c) ==
    IF c.scope = "user" THEN w.home \o <<AspectFolder>> \o c.file.name
    ELSE AspectRoot(w) \o c.file.name

\* Every config on the way from the project's root to the directory of the command
\* runs, the nearer the later, and the user's once: after all of them, unless the
\* project has it on the way (helpers.rs:101, main.rs:162).
ConfigsInOrder(w) ==
    LET paths == [i \in 1..Len(program.configs) |-> PathOf(w, program.configs[i])]
        due == {d \o <<AspectFolder, "config">> : d \in Between(w)} \cap w.files
    IN  /\ Range(paths) = due \cup ({UserConfigFile(w)} \cap w.files)
        /\ IsInjective(paths)
        /\ \A i, j \in 1..Len(paths) : i < j /\ paths[j] \in due =>
              paths[i] \in due /\ Len(paths[i]) < Len(paths[j])

\* So do all the scripts beside them, each once.
ScriptsFound(w) ==
    /\ IsInjective(program.scripts)
    /\ {AspectRoot(w) \o program.scripts[i].name : i \in 1..Len(program.scripts)} =
          {f \in w.files : /\ f # << >> /\ Last(f) \notin {"config", "version", "txt"}
                           /\ \E d \in Between(w) : Front(f) = Append(d, AspectFolder)}

\* No use_task and no use_feature is dropped, however many name the same file, and
\* modules come by name, the root last (eval.rs:161, disk_store.rs:381).
UsesOf(text, what) == SelectSeq(text, LAMBDA s : s.s = what)
SymbolsOf(text, f) ==
    FlattenSeq([i \in 1..Len(UsesOf(text, "task")) |->
        IF UsesOf(text, "task")[i].means = f THEN UsesOf(text, "task")[i].symbols ELSE << >>])
IsModuleOf(m, text) ==
    /\ {e.file.name : e \in m.tasks} = {s.means : s \in Range(UsesOf(text, "task"))}
    /\ \A e \in m.tasks : e.keys = SymbolsOf(text, e.file.name)
    /\ [i \in 1..Len(m.features) |-> m.features[i].name] =
          [i \in 1..Len(UsesOf(text, "feature")) |-> UsesOf(text, "feature")[i].means]
ModulesWhole(w) ==
    LET own == Statements(w, AspectRoot(w))
        deps == SelectSeq(own, LAMBDA s : s.s \in {"archive", "local"})
        OriginOf(name) ==
            LET i == SelectInSeq(deps, LAMBDA s : s.name = name)
            IN  IF name = "root" THEN AspectRoot(w)
                ELSE IF i = 0 THEN << BuiltinModule >> ELSE Place(w, deps[i])
        ms == program.modules
        Place1(name) == SelectInSeq(Append(w.names, "root"), LAMBDA n : n = name)
    IN  /\ {ms[i].name : i \in 1..Len(ms)} =
              {"root", BuiltinModule} \cup {s.name : s \in {s \in Range(deps) : s.auto}}
        /\ \A i \in 1..Len(ms) : IsModuleOf(ms[i], Statements(w, OriginOf(ms[i].name)))
        /\ \A i, j \in 1..Len(ms) : i < j => Place1(ms[i].name) <= Place1(ms[j].name)

\* A run starts with what its directories and its MODULE.aspect files say, all of it
\* in the order they say it, or it is refused because one of them is wrong.
DiscoverySound(w) ==
    /\ failure = "manifest" => w.wrong
    /\ man.done => ~w.wrong /\ ConfigsInOrder(w) /\ ScriptsFound(w) /\ ModulesWhole(w)
=============================================================================
