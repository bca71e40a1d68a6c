------------------------------ MODULE Launcher ------------------------------
(***************************************************************************)
(* aspect-launcher: each run finds its project's configuration, waits for  *)
(* the runner's cache to be restored, gets the CLI from the first source   *)
(* that has it and execs it.  The cache is a directory that the launchers  *)
(* of one user share: per URL the tool, and the one temporary file its     *)
(* downloads are written to; per unpinned source a hint that names the     *)
(* release it resolved to last.                                            *)
(*                                                                         *)
(* A file is its own object, as on a file system: a download writes to the *)
(* file it opened, whatever names were given to it or taken from it since. *)
(* It has two chunks, the parts that are there are its content.            *)
(***************************************************************************)
EXTENDS Naturals, Sequences, FiniteSets

CONSTANTS
  Procs,
  Tags,        \* releases: 1..n, in the order they are published
  NoDebug,     \* releases without a -debug- asset
  LaunchWorlds \* what a behaviour starts from

Chunks == {1, 2}
None == 0
Attempts == 3
\* What release_asset_url() and tool_path() tell apart.
Url(t, debug) == <<"github", t, debug>>
HttpUrl == <<"http", None, FALSE>>
LocalPath == <<"local", None, FALSE>>
Urls == {Url(t, b) : t \in Tags, b \in BOOLEAN} \cup {HttpUrl, LocalPath}
\* One more than have a name or a writer.
Files == 1..(2 * Cardinality(Urls) + Cardinality(Procs) + 1)

VARIABLES
  world,     \* [fault, dirs, home, debug, warming, alone]: what stays
  published, \* the newest release
  yesterday, \* the newest release when the last day ended
  began,     \* history: what the hint named then
  outage,    \* the releases API is down / the asset host is down
  tool,      \* per URL: the cached file or None
  tmp,       \* per URL: the temporary file or None
  content,   \* per file: its chunks
  cutoff,    \* history: files taken for whole that broke off and whose length was not announced
  hint,      \* per artifact: [tag |-> , fresh |-> ]
  renewed,   \* history: since then an old hint was made fresh again
  restored,  \* "no", "partly", "yes": the warming stage's restore
  pc,        \* per process: where the launch is
  run,       \* per process: what it holds
  launched,  \* per process: [url |-> , chunks |-> , cutoff |-> ] it exec'd last
  runs,      \* launches left, a bound
  shared     \* history: two processes wrote one file at the same time

fileVars == <<tool, tmp, content, cutoff>>
hintVars == <<hint, began, renewed>>
diskVars == <<fileVars, hintVars>>
worldVars == <<world, published, yesterday, outage, restored>>
launchVars == <<worldVars, diskVars, pc, run, launched, runs, shared>>

NoRun == [source |-> 1, tag |-> None, url |-> HttpUrl, file |-> None, got |-> {}, attempt |-> 0,
          sized |-> 2, announced |-> TRUE]
NotLaunched == [url |-> <<"">>, chunks |-> {}, cutoff |-> FALSE]

-----------------------------------------------------------------------------
(* What a behaviour starts from.  A directory has markers of a project, and *)
(* a version.axl there may declare sources.                                *)
Configured ==
  [kind : {"github"}, tag : Tags \cup {None}] \cup [kind : {"http"}]
  \cup [kind : {"local"}, exists : BOOLEAN]
Directory == [marks : SUBSET {"version.axl", "MODULE.aspect", "MODULE.bazel"}, sources : Seq(Configured)]
LaunchFaults == {"none", "crash", "api", "cdn", "body"}
Warmings == {"off", "marked", "unmarked"}

ASSUME LauncherAssumption ==
  /\ IsFiniteSet(Procs) /\ IsFiniteSet(Tags) /\ Tags = 1..Cardinality(Tags) /\ Tags # {}
  /\ \A w \in LaunchWorlds :
       /\ w.fault \in LaunchFaults /\ w.debug \in BOOLEAN /\ w.warming \in Warmings /\ w.alone \in BOOLEAN
       /\ w.dirs \in Seq(Directory) /\ w.dirs # <<>> /\ w.home \in DOMAIN w.dirs \cup {None}
       /\ \A u, v \in w.cached : u = v
       /\ w.published \in Tags /\ w.hinted \in Tags \cup {None} /\ w.hinted <= w.published
       /\ w.fresh \in BOOLEAN /\ w.launches \in Nat

-----------------------------------------------------------------------------
(* Configuration.  world.dirs is the sequence of the working directory and *)
(* its ancestors, the deepest first: the markers in each and the sources a *)
(* version.axl there declares; world.home is the home directory's place.   *)
Marked(kinds, except) == {i \in DOMAIN world.dirs : i # except /\ world.dirs[i].marks \cap kinds # {}}
Deepest(places) == CHOOSE i \in places : \A j \in places : i <= j

\* autoconf()
RootDir ==
  LET aspect == Marked({"version.axl", "MODULE.aspect"}, world.home)
      bazel == Marked({"MODULE.bazel"}, None)
  IN IF aspect # {} THEN Deepest(aspect) ELSE IF bazel # {} THEN Deepest(bazel) ELSE 1

\* A pinned tag is None for the newest; "local" may not exist.
DefaultSources == <<[kind |-> "github", tag |-> None]>>
\* resolve_config()
Sources ==
  LET declares(i) == i # None /\ "version.axl" \in world.dirs[i].marks
  IN IF declares(RootDir) THEN world.dirs[RootDir].sources
     ELSE IF declares(world.home) THEN world.dirs[world.home].sources
     ELSE DefaultSources

LaunchInit ==
  /\ \E w \in LaunchWorlds :
       /\ world = [fault |-> w.fault, dirs |-> w.dirs, home |-> w.home, debug |-> w.debug,
                   warming |-> w.warming, alone |-> w.alone]
       /\ tool = [u \in Urls |-> IF u \in w.cached THEN 1 ELSE None]
       /\ hint = [b \in BOOLEAN |-> [tag |-> w.hinted, fresh |-> w.fresh]]
       /\ published = w.published /\ yesterday = w.hinted /\ began = w.hinted
       /\ runs = w.launches
  /\ outage = {} /\ restored = "no"
  /\ tmp = [u \in Urls |-> None]
  /\ content = [f \in Files |-> IF f = 1 THEN Chunks ELSE {}] /\ cutoff = {} /\ renewed = FALSE
  /\ pc = [p \in Procs |-> "rest"] /\ run = [p \in Procs |-> NoRun]
  /\ launched = [p \in Procs |-> NotLaunched]
  /\ shared = FALSE

-----------------------------------------------------------------------------
Source(p) == Sources[run[p].source]
At(p, label) == pc' = [pc EXCEPT ![p] = label]
Keep(p, r) == run' = [run EXCEPT ![p] = r]
DiskSame == UNCHANGED diskVars
Same == UNCHANGED <<worldVars, launched, runs, shared>>

\* The next source, once this one has failed.
NextSource(p) ==
  /\ At(p, "source")
  /\ Keep(p, [NoRun EXCEPT !.source = run[p].source + 1])

\* wait_for_warming(): only with a marker that can appear.
Gate(p) ==
  /\ pc[p] = "start" /\ (world.warming = "marked" => restored = "yes")
  /\ At(p, "source") /\ UNCHANGED run /\ DiskSame /\ Same

Found(p, url) == tool[url] # None /\ At(p, "exec") /\ Keep(p, [run[p] EXCEPT !.url = url])
Missing(p, url) ==
  tool[url] = None /\ At(p, "create") /\ Keep(p, [run[p] EXCEPT !.url = url, !.attempt = 1])

\* A fresh hint serves when its tool is there.
Held(h) == h.tag # None /\ tool[Url(h.tag, world.debug)] # None
UsableEver(h) == Held(h)  \* mutant: a hint never grows stale
Usable(h) == h.fresh /\ Held(h)

\* configure_tool_task(): one turn of its loop over the sources, up to what needs
\* the network.
Begin(p) ==
  /\ pc[p] = "source"
  /\ IF run[p].source > Len(Sources) THEN At(p, "failed") /\ UNCHANGED run
     ELSE LET s == Source(p) IN
       CASE s.kind = "http" -> Found(p, HttpUrl) \/ Missing(p, HttpUrl)
         [] s.kind = "local" /\ s.exists -> At(p, "copy") /\ Keep(p, [run[p] EXCEPT !.url = LocalPath])
         [] s.kind = "local" /\ ~s.exists -> NextSource(p)
         [] s.kind = "github" /\ s.tag # None -> 
              \/ Found(p, Url(s.tag, world.debug))
              \/ Missing(p, Url(s.tag, world.debug))
         [] s.kind = "github" /\ s.tag = None ->
              LET h == hint[world.debug] IN
              IF Usable(h) THEN Found(p, Url(h.tag, world.debug))
              ELSE At(p, "api") /\ UNCHANGED run
  /\ DiskSame /\ Same

\* The releases API: the newest release with the asset.  The hint is written before
\* the release is downloaded.  When the API is down, a stale hint whose tool is
\* there serves, and is made fresh again.
OfferedOf(n) == {t \in 1..n : world.debug => t \notin NoDebug}
Newest(n) == IF OfferedOf(n) = {} THEN None
             ELSE CHOOSE x \in OfferedOf(n) : \A y \in OfferedOf(n) : x >= y
Resolve(p) ==
  /\ pc[p] = "api" /\ "api" \notin outage
  /\ IF Newest(published) = None THEN NextSource(p)
     ELSE At(p, "hint") /\ Keep(p, [run[p] EXCEPT !.tag = Newest(published)])
  /\ DiskSame /\ Same
WriteHint(p) ==
  /\ pc[p] = "hint"
  /\ hint' = [hint EXCEPT ![world.debug] = [tag |-> run[p].tag, fresh |-> TRUE]]
  /\ LET u == Url(run[p].tag, world.debug) IN Found(p, u) \/ Missing(p, u)
  /\ UNCHANGED <<fileVars, began, renewed>> /\ Same
ApiFails(p) ==
  /\ pc[p] = "api" /\ "api" \in outage
  /\ LET h == hint[world.debug] IN
     IF Held(h)
     THEN At(p, "touch") /\ Keep(p, [run[p] EXCEPT !.url = Url(h.tag, world.debug), !.tag = h.tag])
     ELSE NextSource(p)
  /\ DiskSame /\ Same
\* touch_latest_tag(): it reads the hint and writes it back.
TouchReadOther(p) ==  \* mutant: the hint of the other variant
  /\ pc[p] = "touch" /\ At(p, "touched") /\ Keep(p, [run[p] EXCEPT !.tag = hint[~world.debug].tag])
  /\ DiskSame /\ Same
TouchRead(p) ==
  /\ pc[p] = "touch" /\ At(p, "touched") /\ Keep(p, [run[p] EXCEPT !.tag = hint[world.debug].tag])
  /\ DiskSame /\ Same
TouchWrite(p) ==
  /\ pc[p] = "touched" /\ At(p, "exec") /\ UNCHANGED run
  /\ hint' = [hint EXCEPT ![world.debug] = [tag |-> run[p].tag, fresh |-> TRUE]] /\ renewed' = TRUE
  /\ UNCHANGED <<fileVars, began>> /\ Same

-----------------------------------------------------------------------------
(* A download, _download_into_cache().                                     *)
Writing(u) == {p \in Procs : pc[p] \in {"get", "stream", "check", "rename"} /\ run[p].url = u}
Used == {tool[u] : u \in Urls} \cup {tmp[u] : u \in Urls} \cup {run[p].file : p \in Procs}
Unused == CHOOSE f \in Files : f \notin Used

\* File::create() truncates what is there.
Create(p) ==
  /\ pc[p] = "create"
  /\ LET u == run[p].url
         f == IF tmp[u] # None THEN tmp[u] ELSE Unused
     IN /\ tmp' = [tmp EXCEPT ![u] = f] /\ content' = [content EXCEPT ![f] = {}]
        /\ cutoff' = cutoff \ {f}
        /\ Keep(p, [run[p] EXCEPT !.file = f, !.got = {}])
        /\ shared' = (shared \/ Writing(u) # {})
  /\ At(p, "get")
  /\ UNCHANGED <<worldVars, tool, hintVars, launched, runs>>

\* An attempt that failed: three attempts of a GitHub asset, then the primary
\* variant for a debug one we chose, then the next source.
RetriedForEver(r) == r  \* mutant: the attempts are not counted
Retried(r) == [r EXCEPT !.attempt = @ + 1]
Fallback(u) == Url(u[2], FALSE)
AttemptFails(p) ==
  LET r == run[p] IN
  IF r.url[1] = "github" /\ r.attempt < Attempts
  THEN At(p, "create") /\ Keep(p, [Retried(r) EXCEPT !.file = None])
  ELSE IF r.url[1] = "github" /\ r.url[3]
  THEN At(p, "fallback") /\ Keep(p, [r EXCEPT !.url = Fallback(r.url), !.file = None])
  ELSE NextSource(p)
FallBack(p) ==
  /\ pc[p] = "fallback" /\ (Found(p, run[p].url) \/ Missing(p, run[p].url))
  /\ DiskSame /\ Same

Absent(u) == u[1] = "github" /\ (u[2] > published \/ (u[3] /\ u[2] \in NoDebug))
Strike == world' = [world EXCEPT !.fault = "none"]  \* one bad body in a behaviour
\* The response: an error status, or a body of the announced size, or one that breaks off
\* and whose length was announced or, as for one that is chunked or compressed, was not.
Respond(p) ==
  /\ pc[p] = "get"
  /\ LET fails == "cdn" \in outage \/ Absent(run[p].url) IN
     \/ fails /\ AttemptFails(p) /\ UNCHANGED world
     \/ /\ ~fails /\ At(p, "stream") /\ UNCHANGED world
        /\ Keep(p, [run[p] EXCEPT !.sized = 2, !.announced = TRUE])
     \/ /\ ~fails /\ world.fault = "body" /\ Strike /\ At(p, "stream")
        /\ \E n \in {0, 1}, b \in BOOLEAN : Keep(p, [run[p] EXCEPT !.sized = n, !.announced = b])
  /\ DiskSame /\ UNCHANGED <<published, yesterday, outage, restored, launched, runs, shared>>
Chunk(p) ==
  /\ pc[p] = "stream"
  /\ LET r == run[p]  n == Cardinality(r.got) + 1 IN
     IF n <= r.sized
     THEN /\ content' = [content EXCEPT ![r.file] = @ \cup {n}]
          /\ Keep(p, [r EXCEPT !.got = @ \cup {n}]) /\ UNCHANGED pc
     ELSE At(p, "check") /\ UNCHANGED <<run, content>>
  /\ UNCHANGED <<tool, tmp, cutoff, hintVars>> /\ Same
\* The connection is lost: the temporary file stays.
Reset(p) ==
  /\ pc[p] = "stream" /\ world.fault = "body" /\ Strike /\ AttemptFails(p)
  /\ DiskSame /\ UNCHANGED <<published, yesterday, outage, restored, launched, runs, shared>>

\* A body that is empty, or not as long as announced if it was, is thrown away.
AcceptsAny(r) == TRUE  \* mutant: the size of the body is not looked at
AcceptsShort(r) == r.got # {}  \* mutant: nor compared with the announced one
Accepts(r) == r.got # {} /\ (r.announced => r.got = Chunks)
Check(p) ==
  /\ pc[p] = "check"
  /\ LET r == run[p] IN
     IF Accepts(r)
     THEN /\ At(p, "rename") /\ UNCHANGED <<run, tmp>>
          /\ cutoff' = IF ~r.announced /\ r.got # Chunks THEN cutoff \cup {r.file} ELSE cutoff
     ELSE AttemptFails(p) /\ tmp' = [tmp EXCEPT ![r.url] = None] /\ UNCHANGED cutoff
  /\ UNCHANGED <<tool, content, hintVars>> /\ Same
RenameKeepingTmp(p) ==  \* mutant: the file is copied into place, not moved
  /\ pc[p] = "rename"
  /\ LET u == run[p].url IN
     IF tmp[u] = None THEN AttemptFails(p) /\ UNCHANGED <<tool, tmp>>
     ELSE /\ tool' = [tool EXCEPT ![u] = tmp[u]] /\ UNCHANGED tmp
          /\ At(p, "exec") /\ Keep(p, [run[p] EXCEPT !.file = None])
  /\ UNCHANGED <<content, cutoff, hintVars>> /\ Same
Rename(p) ==
  /\ pc[p] = "rename"
  /\ LET u == run[p].url IN
     IF tmp[u] = None THEN AttemptFails(p) /\ UNCHANGED <<tool, tmp>>
     ELSE /\ tool' = [tool EXCEPT ![u] = tmp[u]] /\ tmp' = [tmp EXCEPT ![u] = None]
          /\ At(p, "exec") /\ Keep(p, [run[p] EXCEPT !.file = None])
  /\ UNCHANGED <<content, cutoff, hintVars>> /\ Same

\* A local source is copied over the cached one each time, in place.
Copy(p) ==
  /\ pc[p] = "copy"
  /\ LET f == Unused IN
     /\ tool' = [tool EXCEPT ![LocalPath] = f] /\ content' = [content EXCEPT ![f] = {1}]
     /\ cutoff' = cutoff \ {f}
     /\ Keep(p, [run[p] EXCEPT !.file = f])
  /\ At(p, "copying") /\ shared' = (shared \/ \E q \in Procs \ {p} : run[q].url = LocalPath /\ pc[q] \in {"copying", "exec"})
  /\ UNCHANGED <<worldVars, tmp, hintVars, launched, runs>>
Copied(p) ==
  /\ pc[p] = "copying" /\ content' = [content EXCEPT ![run[p].file] = Chunks]
  /\ At(p, "exec") /\ Keep(p, [run[p] EXCEPT !.file = None])
  /\ UNCHANGED <<tool, tmp, cutoff, hintVars>> /\ Same

\* main() punts to the tool.
Exec(p) ==
  /\ pc[p] = "exec"
  /\ LET u == run[p].url
         c == IF tool[u] = None THEN {} ELSE content[tool[u]]
     IN launched' = [launched EXCEPT ![p] = [url |-> u, chunks |-> c, cutoff |-> tool[u] \in cutoff]]
  /\ At(p, "running") /\ UNCHANGED <<run, worldVars, runs, shared>> /\ DiskSame

-----------------------------------------------------------------------------
LaunchStep(p) ==
  \/ Gate(p) \/ Begin(p) \/ Resolve(p) \/ WriteHint(p) \/ ApiFails(p) \/ TouchRead(p) \/ TouchWrite(p)
  \/ Create(p) \/ FallBack(p) \/ Respond(p) \/ Chunk(p) \/ Reset(p) \/ Check(p) \/ Rename(p)
  \/ Copy(p) \/ Copied(p) \/ Exec(p)

Resting(p) == pc[p] \in {"rest", "running", "failed", "killed"}
\* The process is killed, one in a behaviour.
Kill(p) ==
  /\ world.fault = "crash" /\ ~Resting(p)
  /\ world' = [world EXCEPT !.fault = "none"]
  /\ At(p, "killed") /\ Keep(p, NoRun) /\ DiskSame
  /\ UNCHANGED <<published, yesterday, outage, restored, launched, runs, shared>>
\* The user runs it.
Again(p) ==
  /\ Resting(p) /\ runs > 0 /\ runs' = runs - 1 /\ At(p, "start") /\ Keep(p, NoRun)
  /\ UNCHANGED <<worldVars, launched, shared>> /\ DiskSame

\* The world: a release, an outage, a day that passes between launches (one takes
\* less than a day), the restore of the cache.
Publish ==
  /\ published + 1 \in Tags /\ published' = published + 1
  /\ UNCHANGED <<world, yesterday, outage, restored, diskVars, pc, run, launched, runs, shared>>
Outage ==
  /\ world.fault \in {"api", "cdn"}
  /\ outage' = IF outage = {} THEN {world.fault} ELSE {}
  /\ UNCHANGED <<world, published, yesterday, restored, diskVars, pc, run, launched, runs, shared>>
DayPasses ==
  /\ \A p \in Procs : Resting(p)
  /\ hint' = [b \in BOOLEAN |-> [hint[b] EXCEPT !.fresh = FALSE]] /\ yesterday' = published
  /\ hint' # hint \/ yesterday' # yesterday
  /\ began' = hint[world.debug].tag /\ renewed' = FALSE
  /\ UNCHANGED <<fileVars, world, published, outage, restored, pc, run, launched, runs, shared>>
Restore ==
  /\ world.warming # "off" /\ restored # "yes"
  /\ LET u == Url(1, FALSE)
         f == IF restored = "no" THEN Unused ELSE tool[u]
     IN /\ tool' = [tool EXCEPT ![u] = f]
        /\ content' = [content EXCEPT ![f] = IF restored = "no" THEN {1} ELSE Chunks]
        /\ cutoff' = cutoff \ {f}
  /\ restored' = IF restored = "no" THEN "partly" ELSE "yes"
  /\ UNCHANGED <<world, published, yesterday, outage, tmp, hintVars, pc, run, launched, runs, shared>>
LaunchWorld == Publish \/ Outage \/ DayPasses \/ Restore
=============================================================================
