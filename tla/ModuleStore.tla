---------------------------- MODULE ModuleStore -----------------------------
(***************************************************************************)
(* The store of AXL modules (axl-runtime module/disk_store.rs): each       *)
(* command of the CLI brings the modules its MODULE.aspect names into the  *)
(* project's deps directory, a link to a local module or an expanded       *)
(* archive, with a marker beside it that says what was expanded.  Archives *)
(* are kept by their integrity, shared by all projects.                    *)
(*                                                                         *)
(* A module file is a sequence of deps; an archive has two entries.        *)
(***************************************************************************)
EXTENDS Naturals, Sequences, FiniteSets

CONSTANTS
  Commands,     \* processes of the CLI
  Deps,         \* names
  Versions,     \* what a dep can be of: the archive and strip_prefix, or the path
  Broken,       \* archives one of whose entries cannot be unpacked
  StoreWorlds   \* what a behaviour starts from

NoVersion == "nothing"
Entries == {1, 2}

Dependency == [name : Deps, kind : {"local", "remote"}, version : Versions, integrity : BOOLEAN,
               urls : Nat \ {0}]
\* axl_local_dep() and axl_archive_dep() refuse a second dep of a name (eval.rs:111, :150).
Modules(list) ==
  /\ list \in Seq(Dependency)
  /\ \A i, j \in DOMAIN list : list[i].name = list[j].name => i = j

\* A marker tells a path from an archive, and a path is always marked.
ASSUME StoreAssumption ==
  /\ IsFiniteSet(Commands) /\ Versions \cap {NoVersion, "mixed", "damaged"} = {}
  /\ \A w \in StoreWorlds :
       /\ w.fault \in {"none", "crash", "fetch", "disk"}
       /\ w.wanted \in Seq(Seq(Dependency)) /\ \A k \in DOMAIN w.wanted : Modules(w.wanted[k])
  /\ \E kinds \in [Versions -> {"local", "remote"}] :
       \A w \in StoreWorlds : \A k \in DOMAIN w.wanted : \A i \in DOMAIN w.wanted[k] :
         LET d == w.wanted[k][i]
         IN d.kind = kinds[d.version] /\ (d.kind = "local" => d.integrity)

VARIABLES
  storeFault, \* "none", "crash", "fetch", "disk"
  wanted,     \* the module files the project has in turn, the current one first
  cas,        \* per archive: [of |-> , whole |-> , by |-> ]: what was downloaded for it
  dir,        \* per dep: [kind |-> , of |-> , entries |-> ]: what is at its path
  marker,     \* per dep: what the marker beside it says
  sp,         \* per process: where it is in expand_store()
  st,         \* per process: what it holds
  used,       \* per process and dep: what the last command that went on found there
  short,      \* history: archives whose last chunk was lost, with its writer or by the disk
  crowded,    \* history: two processes expanded at the same time
  turned      \* history: an expansion was cut off or failed over an older marker

storeVars == <<storeFault, wanted, cas, short, dir, marker, sp, st, used, crowded, turned>>

Nothing == [kind |-> "none", of |-> NoVersion, entries |-> {}]
Link(v) == [kind |-> "link", of |-> v, entries |-> Entries]
Dir(v, es) == [kind |-> "dir", of |-> v, entries |-> es]
NoArchive == [of |-> NoVersion, whole |-> FALSE, by |-> {}]
NoStore == [i |-> 1, url |-> 1, unpacked |-> 0, list |-> <<>>, late |-> {}]

StoreInit ==
  /\ \E w \in StoreWorlds : storeFault = w.fault /\ wanted = w.wanted
  /\ cas = [v \in Versions |-> NoArchive] /\ short = {}
  /\ dir = [d \in Deps |-> Nothing] /\ marker = [d \in Deps |-> NoVersion]
  /\ sp = [p \in Commands |-> "idle"] /\ st = [p \in Commands |-> NoStore]
  /\ used = [p \in Commands |-> [d \in Deps |-> Nothing]]
  /\ crowded = FALSE /\ turned = FALSE

-----------------------------------------------------------------------------
Dep(p) == st[p].list[st[p].i]
Goes(p, label) == sp' = [sp EXCEPT ![p] = label]
Expanding(where) == {p \in Commands : where[p] \notin {"idle", "loaded", "stopped", "gone"}}
Others == UNCHANGED <<storeFault, wanted, used, short>>
\* The archives whose last chunk is still to be written by p.
Pending(p) == {v \in st[p].late : cas[v].by = {p}}
Crowd == crowded' = (crowded \/ Cardinality(Expanding(sp')) > 1)

\* A command begins: it has read MODULE.aspect.
Enter(p) ==
  /\ sp[p] = "idle" /\ wanted # <<>>
  /\ st' = [st EXCEPT ![p] = [NoStore EXCEPT !.list = Head(wanted)]]
  /\ Goes(p, "dep") /\ Crowd /\ UNCHANGED <<cas, dir, marker, turned>> /\ Others

\* The marker of the dep at hand, which speaks for no dep without integrity.  What it
\* does not vouch for is deleted, entry by entry.
VouchesAny(p) == marker[Dep(p).name] # NoVersion  \* mutant: any marker will do
Vouches(p) ==
  Dep(p).integrity /\ marker[Dep(p).name] # NoVersion /\ marker[Dep(p).name] = Dep(p).version
LookAtMarker(p) ==
  /\ sp[p] = "dep" /\ st[p].i <= Len(st[p].list)
  /\ Goes(p, IF Vouches(p) \/ dir[Dep(p).name].kind = "none" THEN "present" ELSE "delete")
  /\ UNCHANGED <<cas, dir, marker, st, crowded, turned>> /\ Others
Delete(p) ==
  /\ sp[p] = "delete"
  /\ LET n == Dep(p).name IN
     \E es \in SUBSET dir[n].entries :
       IF dir[n].kind = "dir" /\ es # {} /\ es # dir[n].entries
       THEN dir' = [dir EXCEPT ![n].entries = es] /\ UNCHANGED sp
       ELSE es = {} /\ dir' = [dir EXCEPT ![n] = Nothing] /\ Goes(p, "present")
  /\ UNCHANGED <<cas, marker, st, crowded, turned>> /\ Others

\* What is at the path stays; else a link is made, or the archive is needed.
Present(p) ==
  /\ sp[p] = "present"
  /\ LET d == Dep(p) IN
     \/ dir[d.name].kind # "none" /\ Goes(p, "mark") /\ UNCHANGED dir
     \/ /\ dir[d.name].kind = "none" /\ d.kind = "local"
        /\ dir' = [dir EXCEPT ![d.name] = Link(d.version)] /\ Goes(p, "mark")
     \/ /\ dir[d.name].kind = "none" /\ d.kind = "remote" /\ UNCHANGED dir
        /\ Goes(p, IF d.integrity /\ cas[d.version].of # NoVersion THEN "expand" ELSE "fetch")
  /\ UNCHANGED <<cas, marker, st, crowded, turned>> /\ Others

Fails(p) ==
  /\ Goes(p, "stopped")
  /\ turned' = (turned \/ (sp[p] = "expand" /\ marker[Dep(p).name] # NoVersion))

\* fetch_dep() of one URL after the other: what arrives is checked against the
\* integrity, or only hashed to tell the user what to write down.
Arrived(v) == {v} \cup IF storeFault = "fetch" THEN {"damaged"} ELSE {}
MatchesAny(v, got) == TRUE  \* mutant: the checksum is not looked at
Matches(v, got) == got = v
Fetch(p) ==
  /\ sp[p] = "fetch"
  /\ LET d == Dep(p)
         next == IF st[p].url = d.urls THEN Fails(p) /\ UNCHANGED st
                 ELSE st' = [st EXCEPT ![p].url = @ + 1] /\ UNCHANGED <<sp, turned>>
     IN \/ storeFault = "fetch" /\ next /\ UNCHANGED <<cas, short>>
        \/ \E got \in Arrived(d.version) :
             IF ~d.integrity THEN Fails(p) /\ UNCHANGED <<st, cas, short>>
             ELSE IF ~Matches(d.version, got) THEN next /\ UNCHANGED <<cas, short>>
             ELSE /\ cas' = [cas EXCEPT ![d.version] = [of |-> got, whole |-> FALSE, by |-> {p}]]
                  /\ short' = short \ {d.version}
                  /\ st' = [st EXCEPT ![p].late = @ \cup {d.version}]
                  /\ Goes(p, "expand") /\ UNCHANGED turned
  /\ UNCHANGED <<storeFault, wanted, used, dir, marker, crowded>>

\* The last chunk was handed to a background write and nobody waits for it: it lands
\* in the file that was opened, or is lost.
LandDropped(p) ==  \* mutant: the write goes with the file that is dropped
  /\ st[p].late # {} /\ st' = [st EXCEPT ![p].late = {}]
  /\ UNCHANGED <<cas, dir, marker, sp, crowded, turned>> /\ Others
Land(p) ==
  /\ st[p].late # {} /\ st' = [st EXCEPT ![p].late = {}]
  /\ cas' = [v \in Versions |-> IF v \in Pending(p) THEN [cas[v] EXCEPT !.whole = TRUE] ELSE cas[v]]
  /\ UNCHANGED <<dir, marker, sp, crowded, turned>> /\ Others
Lose(p) ==
  /\ storeFault = "disk" /\ st[p].late # {} /\ st' = [st EXCEPT ![p].late = {}]
  /\ short' = short \cup Pending(p)
  /\ UNCHANGED <<storeFault, wanted, used, cas, dir, marker, sp, crowded, turned>>

\* expand_dep(): the directory is made, then each entry unpacked into it; one that
\* cannot be stops the command.
Expand(p) ==
  /\ sp[p] = "expand"
  /\ dir' = [dir EXCEPT ![Dep(p).name] = IF @.kind = "none" THEN Dir(Dep(p).version, {}) ELSE @]
  /\ Goes(p, "unpack") /\ UNCHANGED <<cas, marker, st, crowded, turned>> /\ Others
Unpack(p) ==
  /\ sp[p] = "unpack"
  /\ LET d == Dep(p)  k == st[p].unpacked + 1 IN
     IF k > Cardinality(Entries) THEN Goes(p, "mark") /\ UNCHANGED <<dir, st, turned>>
     ELSE IF dir[d.name].kind # "dir" \/ (k = 2 /\ (d.version \in Broken \/ ~cas[d.version].whole))
     THEN /\ Goes(p, "stopped") /\ UNCHANGED <<dir, st>>
          /\ turned' = (turned \/ marker[d.name] # NoVersion)
     ELSE /\ dir' = [dir EXCEPT ![d.name] =
                       IF @.of = d.version THEN Dir(@.of, @.entries \cup {k}) ELSE Dir("mixed", @.entries)]
          /\ st' = [st EXCEPT ![p].unpacked = k] /\ UNCHANGED <<sp, turned>>
  /\ UNCHANGED <<cas, marker, crowded>> /\ Others

\* The marker, once the dep is in place.
Mark(p) ==
  /\ sp[p] = "mark"
  /\ marker' = [marker EXCEPT ![Dep(p).name] = IF Dep(p).integrity THEN Dep(p).version ELSE @]
  /\ st' = [st EXCEPT ![p].i = @ + 1, ![p].url = 1, ![p].unpacked = 0] /\ Goes(p, "dep")
  /\ UNCHANGED <<cas, dir, crowded, turned>> /\ Others
\* expand_store() returns and the CLI loads the modules.
Load(p) ==
  /\ sp[p] = "dep" /\ st[p].i > Len(st[p].list)
  /\ used' = [used EXCEPT ![p] = dir] /\ Goes(p, "loaded")
  /\ UNCHANGED <<storeFault, wanted, cas, short, dir, marker, st, crowded, turned>>

StoreStep(p) ==
  \/ Enter(p) \/ LookAtMarker(p) \/ Delete(p) \/ Present(p) \/ Fetch(p) \/ Expand(p)
  \/ Unpack(p) \/ Mark(p) \/ Load(p) \/ Land(p) \/ Lose(p)

\* The command is killed, one in a behaviour.
StoreKill(p) ==
  /\ storeFault = "crash" /\ p \in Expanding(sp)
  /\ Goes(p, "gone") /\ st' = [st EXCEPT ![p] = NoStore]
  /\ turned' = (turned \/ (sp[p] \in {"delete", "present", "fetch", "expand", "unpack", "mark"}
                           /\ marker[Dep(p).name] # NoVersion))
  /\ short' = short \cup Pending(p)
  /\ storeFault' = "none" /\ UNCHANGED <<wanted, cas, dir, marker, used, crowded>>
\* Somebody changes MODULE.aspect: the next version of the project.
Checkout ==
  /\ Len(wanted) > 1 /\ wanted' = Tail(wanted)
  /\ UNCHANGED <<storeFault, cas, short, dir, marker, sp, st, used, crowded, turned>>
\* The next command.
Rerun(p) ==
  /\ sp[p] \in {"loaded", "stopped", "gone"} /\ st[p].late = {} /\ Goes(p, "idle")
  /\ st' = [st EXCEPT ![p] = NoStore] /\ UNCHANGED <<cas, dir, marker, crowded, turned>> /\ Others
----------------------------------------------------------------------------
(***************************************************************************)
(* The task tree that is embedded in the CLI (aspect-cli builtins/mod.rs): *)
(* a process that finds no complete tree at the place named by the hash of *)
(* its contents writes one beside it, under a name of its own, and renames *)
(* it there; a partial one, which a crash or an older version left, is     *)
(* renamed out of the way first.                                           *)
(***************************************************************************)
CONSTANTS
  Extractors,     \* processes of one version of the CLI
  ExtractWorlds   \* what a behaviour starts from: [tree, fault]

TreeFiles == {1, 2}
NoTree == [files |-> {}, complete |-> FALSE, there |-> FALSE]
Tree(files, complete) == [files |-> files, complete |-> complete, there |-> TRUE]
Whole == Tree(TreeFiles, TRUE)

ASSUME BuiltinsAssumption ==
  /\ Extractors # {}
  /\ \A w \in ExtractWorlds :
       /\ w.fault \in {"off", "none", "crash", "disk"}
       /\ w.tree \in {NoTree, Whole} \cup {Tree(files, FALSE) : files \in SUBSET TreeFiles}

VARIABLES
  extractFault,  \* "off": nothing is embedded (a debug build); "none", "crash", "disk"
  final,         \* what is at {content_hash}
  temp, trash,   \* per process: what is at its {content_hash}.tmp and .trash
  ep,            \* per process: where it is in extract_aspect_builtins
  both,          \* history: two processes had seen the same partial tree
  cut            \* history: a process was killed

treeVars == <<extractFault, final, temp, trash, ep, both, cut>>

ExtractInit ==
  /\ \E w \in ExtractWorlds : extractFault = w.fault /\ final = w.tree
  /\ temp = [p \in Extractors |-> NoTree] /\ trash = [p \in Extractors |-> NoTree]
  /\ ep = [p \in Extractors |-> "cold"] /\ both = FALSE /\ cut = FALSE

GoesTo(p, label) == ep' = [ep EXCEPT ![p] = label]
History == UNCHANGED <<extractFault, both, cut>>

\* Is it there?  The first form takes whatever is.
ReusableAny(t) == t.there
Reusable(t) == t.complete
LookAtTree(p) ==
  /\ ep[p] = "cold"
  /\ GoesTo(p, IF Reusable(final) THEN "there" ELSE "write")
  /\ UNCHANGED <<final, temp, trash>> /\ History

\* write_and_publish: the files in turn, then the marker; a write may fail.
WriteFile(p) ==
  /\ ep[p] = "write"
  /\ \/ \E f \in TreeFiles \ temp[p].files :
          /\ \A g \in TreeFiles \ temp[p].files : f <= g
          /\ temp' = [temp EXCEPT ![p] = Tree(@.files \cup {f}, FALSE)] /\ UNCHANGED ep
     \/ temp[p].files = TreeFiles /\ temp' = [temp EXCEPT ![p] = Whole] /\ GoesTo(p, "evict")
     \/ extractFault = "disk" /\ GoesTo(p, "fail") /\ UNCHANGED temp
  /\ UNCHANGED <<final, trash>> /\ History

\* evict_stale_dir: look, rename whatever is there by then, remove it.
LookForStale(p) ==
  /\ ep[p] = "evict"
  /\ IF final.there /\ ~final.complete
     THEN /\ GoesTo(p, "trash")
          /\ both' = (both \/ \E q \in Extractors \ {p} : ep[q] = "trash")
     ELSE GoesTo(p, "publish") /\ UNCHANGED both
  /\ UNCHANGED <<extractFault, final, temp, trash, cut>>
Trash(p) ==
  /\ ep[p] = "trash" /\ GoesTo(p, "sweep")
  /\ trash' = [trash EXCEPT ![p] = final] /\ final' = NoTree
  /\ UNCHANGED temp /\ History
Sweep(p) ==
  /\ ep[p] = "sweep" /\ GoesTo(p, "publish")
  /\ trash' = [trash EXCEPT ![p] = NoTree]
  /\ UNCHANGED <<final, temp>> /\ History

\* rename(2) replaces nothing or an empty directory.
Replaceable(t) == ~t.complete /\ t.files = {}
PublishTree(p) ==
  /\ ep[p] = "publish"
  /\ IF Replaceable(final)
     THEN final' = temp[p] /\ temp' = [temp EXCEPT ![p] = NoTree] /\ GoesTo(p, "done")
     ELSE UNCHANGED <<final, temp>> /\ GoesTo(p, "adopt")
  /\ UNCHANGED trash /\ History
Adopt(p) ==
  /\ ep[p] = "adopt" /\ GoesTo(p, IF final.complete THEN "done" ELSE "fail")
  /\ UNCHANGED <<final, temp, trash>> /\ History

\* The process's own directory goes, if it is still there.  The first form forgets that a
\* winner's tree leaves it behind.
CleanedNot(t) == t
Cleaned(t) == NoTree
CleanUp(p) ==
  /\ ep[p] \in {"done", "fail"} /\ temp' = [temp EXCEPT ![p] = Cleaned(@)]
  /\ GoesTo(p, IF ep[p] = "done" THEN "there" ELSE "failed")
  /\ UNCHANGED <<final, trash>> /\ History

ExtractStep(p) ==
  /\ extractFault # "off"
  /\ \/ LookAtTree(p) \/ WriteFile(p) \/ LookForStale(p) \/ Trash(p) \/ Sweep(p)
     \/ PublishTree(p) \/ Adopt(p) \/ CleanUp(p)

Extracted(p) == extractFault = "off" \/ ep[p] = "there"
GivenUp(p) == ep[p] \in {"failed", "gone"}

\* One process is killed.
ExtractKill(p) ==
  /\ extractFault = "crash" /\ ~Extracted(p) /\ ~GivenUp(p)
  /\ GoesTo(p, "gone") /\ extractFault' = "none" /\ cut' = TRUE
  /\ UNCHANGED <<final, temp, trash, both>>

\* The next command of the process, whose directories have new names.
ExtractAgain(p) ==
  /\ GoesTo(p, "cold")
  /\ temp' = [temp EXCEPT ![p] = NoTree] /\ trash' = [trash EXCEPT ![p] = NoTree]
  /\ UNCHANGED final /\ History
=============================================================================
