----------------------------- MODULE Provision ------------------------------
(***************************************************************************)
(* A command from the launcher to its modules: the launcher of each        *)
(* process execs a CLI, and the CLI extracts its own tasks and expands the *)
(* store of modules before it runs a task, which gets a name.  The         *)
(* processes share the launcher's cache, the tree of tasks, the store, the *)
(* project and the claims of task names.                                   *)
(***************************************************************************)
EXTENDS Launcher, ModuleStore, TaskNames

\* The launcher, the extractor, the store and the task are of one process.
ASSUME ProvisionAssumption == Extractors = Procs /\ Commands = Procs /\ Callers = Procs

vars == <<launchVars, treeVars, storeVars, nameVars>>
Init == LaunchInit /\ ExtractInit /\ StoreInit /\ NameInit

Running(p) == pc[p] = "running" /\ Extracted(p)
Ready(p) == Running(p) /\ (wanted = <<>> \/ sp[p] = "loaded")
Ended(p) ==
  \/ pc[p] \in {"rest", "failed", "killed"}
  \/ pc[p] = "running" /\ (GivenUp(p) \/ sp[p] \in {"stopped", "gone"})
  \/ Ready(p) /\ (ci.commands = {} \/ name[p] # << >>)
Step(p) ==
  \/ LaunchStep(p) /\ UNCHANGED <<treeVars, storeVars, nameVars>>
  \/ pc[p] = "running" /\ ExtractStep(p) /\ UNCHANGED <<launchVars, storeVars, nameVars>>
  \/ Running(p) /\ StoreStep(p) /\ UNCHANGED <<launchVars, treeVars, nameVars>>
  \/ Ready(p) /\ NameStep(p) /\ UNCHANGED <<launchVars, treeVars, storeVars>>
Next ==
  \/ \E p \in Procs :
       \/ Step(p)
       \/ Kill(p) /\ UNCHANGED <<treeVars, storeVars, nameVars>>
       \/ pc[p] = "running" /\ ExtractKill(p) /\ UNCHANGED <<launchVars, storeVars, nameVars>>
       \/ StoreKill(p) /\ UNCHANGED <<launchVars, treeVars, nameVars>>
       \/ /\ IF world.alone THEN \A q \in Procs : Ended(q) ELSE Ended(p)
          /\ Again(p) /\ (Rerun(p) \/ (sp[p] = "idle" /\ UNCHANGED storeVars)) /\ Forget(p)
          /\ ExtractAgain(p)
  \/ LaunchWorld /\ UNCHANGED <<treeVars, storeVars, nameVars>>
  \/ Checkout /\ UNCHANGED <<launchVars, treeVars, nameVars>>
  \/ (\A p \in Procs : Ended(p)) /\ UNCHANGED vars

\* A process that can go on does, and the restore of the cache completes or the runner is
\* taken down.  That every wait for the network ends is an assumption about the network: the
\* launcher's client has no timeout (main.rs:379).
Fairness ==
  /\ \A p \in Procs : WF_vars(Step(p))
  /\ WF_vars(Restore /\ UNCHANGED <<treeVars, storeVars, nameVars>>)
Spec == Init /\ [][Next]_vars /\ Fairness

-----------------------------------------------------------------------------
(* Types, and: no file of the cache has two names.                         *)
ProvisionTypeOK ==
  /\ tool \in [Urls -> Files \cup {None}] /\ tmp \in [Urls -> Files \cup {None}]
  /\ content \in [Files -> SUBSET Chunks]
  /\ \A p \in Procs : run[p].attempt \in 0..Attempts /\ run[p].source \in 1..(Len(Sources) + 1)
  /\ \A u, v \in Urls :
       /\ tool[u] # None => tool[u] # tmp[v] /\ (u # v => tool[u] # tool[v])
       /\ tmp[u] # None /\ u # v => tmp[u] # tmp[v]
  /\ marker \in [Deps -> Versions \cup {NoVersion}]

\* Whatever was killed or cut off before, and however far the restore of the cache
\* is, a launcher execs a whole tool, unless two launchers wrote the same file at
\* once or the runner names no marker to wait for.  What a download whose length was
\* not announced left of it when it broke off cannot be told from a tool (main.rs:194);
\* an empty one can, and only that one file is not whole.
ExecWhole ==
  ~shared /\ world.warming # "unmarked" =>
    \A p \in Procs : launched[p] # NotLaunched =>
      launched[p].chunks = Chunks \/ (launched[p].cutoff /\ launched[p].chunks # {})

\* An unpinned source is at most a day behind: what it resolved to is no older than
\* the newest release of the day before.  On a day when the releases API failed and an old
\* hint was touched it is no older than what was run when that day began: a touch races
\* with a launcher that resolves and writes the hint, and may undo that, but no more.
FreshEnough ==
  \A p \in Procs :
    pc[p] = "exec" /\ run[p].url[1] = "github" /\ Source(p).kind = "github" /\ Source(p).tag = None
      => run[p].url[2] >= Newest(IF renewed THEN began ELSE yesterday)

\* The files of the tool cache, what is run from them, and how old it may be
\* (main.rs:97, 582; cache.rs).
LaunchSound == ProvisionTypeOK /\ ExecWhole /\ FreshEnough

\* An archive that is kept is what its integrity says, whoever downloaded it, and all of
\* it, but for a last chunk that is still to be written by the one who gave it its name,
\* or was lost with him or by the disk: the name is given before that (disk_store.rs:151-171).
CasMatches ==
  \A v \in Versions : cas[v].of # NoVersion =>
    cas[v].of = v /\ (cas[v].whole \/ v \in short \/ \E p \in Commands : v \in Pending(p))

\* A command that goes on finds each module whole and as its project pins it, unless
\* two commands expanded the store at the same time, or an expansion was cut off
\* beside the marker of an older one.
WholeFor(p) ==
  \A i \in DOMAIN st[p].list :
    LET d == st[p].list[i] IN
    /\ used[p][d.name].of = d.version /\ used[p][d.name].entries = Entries
    /\ used[p][d.name].kind = IF d.kind = "local" THEN "link" ELSE "dir"
ExpandedWhole == ~crowded /\ ~turned => \A p \in Procs : sp[p] = "loaded" => WholeFor(p)

\* A command has all the tasks of its version from when it looked for them to its end, and
\* never some of them.  Where two found the same partial tree the second to rename it takes
\* the first one's away (builtins/mod.rs:77 to 80 says it cannot): then there is none until
\* he publishes his own, which only a kill keeps him from.
BuiltinsWhole ==
  extractFault # "off" =>
    \A p \in Extractors : pc[p] = "running" /\ ep[p] = "there" =>
      final = Whole \/ (both /\ final = NoTree /\ (cut \/ \E q \in Extractors : ep[q] \in {"sweep", "publish"}))
\* No race and no crash stops a command or leaves more than one tree to those who come
\* after; only what was killed leaves its own behind.  (Of two who found the same
\* partial tree the second can take away what a third is about to adopt.)
ExtractedOnce ==
  /\ \A p \in Extractors :
       ep[p] = "failed" =>
         extractFault = "disk" \/ (both /\ \E q, r \in Extractors \ {p} : q # r)
  /\ (\A p \in Extractors : Extracted(p) \/ GivenUp(p)) /\ ~cut =>
       /\ \A p \in Extractors : temp[p] = NoTree /\ trash[p] = NoTree
       /\ extractFault \in {"none", "crash"} => final = Whole

\* The tree of tasks, the content store and the trees expanded from it (disk_store.rs).
StoreSound == CasMatches /\ ExpandedWhole /\ BuiltinsWhole /\ ExtractedOnce

\* The marker speaks for what is beside it, also after an expansion that did not end
\* (the comment above it: "write the marker once the expansion is succesful").
MarkerSpeaksTrue == ~crowded => \A p \in Procs : sp[p] = "loaded" => WholeFor(p)

\* Commands of one run of CI on a machine that are named after its job have names of
\* their own, however they race, unless a claim fails or there are MaxProbe of
\* them; and such a name carries a number only when the run has a command with the
\* plain one, whatever ran there before (ci.rs:30-34, 178).
RunOf(c) == <<TempDir(c.env), [v \in DOMAIN c.env \cap {"GITHUB_RUN_ID", "GITHUB_RUN_ATTEMPT",
                 "BUILDKITE_BUILD_ID", "CIRCLE_WORKFLOW_ID", "CI_PIPELINE_ID"} |-> c.env[v]]>>
\* A run's claims are in a directory of its own: the variables of its host name it, and
\* still do once sanitized.
RunsAreTold ==
  \A w \in NameWorlds : \A c, d \in w.commands :
    RunOf(c) = RunOf(d) <=> DedupDir(c.env) = DedupDir(d.env)
OwnNames ==
  \A i, j \in DOMAIN given :
    i # j /\ given[i].sure /\ given[j].sure /\ RunOf(given[i].by) = RunOf(given[j].by)
      => given[i].name # given[j].name
PlainFirst ==
  \A i \in DOMAIN given :
    given[i].name # given[i].base =>
      \E j \in 1..i - 1 :
        /\ RunOf(given[j].by) = RunOf(given[i].by)
        /\ given[j].sure /\ given[j].name = given[i].base
NamesSound == OwnNames /\ PlainFirst

\* Every command ends, and its task has a name: each attempt, source and URL is tried a bounded number of times.
ProvisionEnds == \A p \in Procs : ~Ended(p) ~> Ended(p)
=============================================================================
