---------------------------- MODULE MCProvision -----------------------------
(* Two processes, two launches or three; launcher worlds without modules, and
   modules under a CLI that is cached; of three launches one at a time.      *)
EXTENDS Provision
Place(ms, ss) == [marks |-> ms, sources |-> ss]
Gh(t) == [kind |-> "github", tag |-> t]
Http == [kind |-> "http"]
Local(b) == [kind |-> "local", exists |-> b]
Aspect == {"version.axl"}
W(dirs, home, cached, hinted, newest, debugs, warmings, faults, launches) ==
  [dirs : {dirs}, home : {home}, cached : {cached}, hinted : {hinted}, fresh : {hinted # None},
   published : {newest}, debug : debugs, warming : warmings, fault : faults,
   launches : {launches}, alone : {launches > 2}]
Steady == {"crash", "api"}
Failing == {"cdn", "body"}
MCLaunchWorlds == UNION {
  \* nothing configured: the newest release, hinted or not
  W(<<Place({}, <<>>)>>, None, {}, None, 1, {FALSE}, {"off"}, Steady, 2),
  W(<<Place({}, <<>>)>>, None, {Url(1, FALSE)}, 1, 1, {FALSE}, {"off"}, Steady, 2),
  W(<<Place({}, <<>>)>>, None, {Url(1, FALSE)}, 1, 1, {FALSE}, {"off"}, Steady, 3),
  W(<<Place({}, <<>>)>>, None, {Url(1, FALSE)}, 1, 1, BOOLEAN, {"off"}, Failing, 2),
  \* a project pins a release, with a debug CLI asked for
  W(<<Place({}, <<>>), Place(Aspect, <<Gh(2), Local(TRUE)>>)>>, None, {}, None, 2, {TRUE}, {"off"}, {"crash"} \cup Failing, 2),
  \* sources that fail, in turn, in the home directory's file
  W(<<Place({"MODULE.bazel"}, <<>>), Place(Aspect, <<Local(FALSE), Http, Gh(1)>>)>>, 2, {}, None, 1,
    {FALSE}, {"off"}, Failing, 2),
  \* a runner whose cache is being restored
  W(<<Place(Aspect, <<Gh(1)>>)>>, None, {}, None, 1, {FALSE}, {"off", "marked", "unmarked"}, {"crash"}, 3)}

Remote(n, v, i, u) == [name |-> n, kind |-> "remote", version |-> v, integrity |-> i, urls |-> u]
Linked(n, v) == [name |-> n, kind |-> "local", version |-> v, integrity |-> TRUE, urls |-> 1]
Cached(n) == W(<<Place(Aspect, <<Http>>)>>, None, {HttpUrl}, None, 1, {FALSE}, {"off"}, {"none"}, n)
S(wanted_, faults) == [wanted : {wanted_}, fault : faults]
MCStoreWorlds == UNION {
  S(<<>>, {"none"}),
  S(<<<<Remote("n", "v1", TRUE, 2)>>, <<Linked("n", "src"), Remote("m", "v2", TRUE, 1)>>>>,
    {"crash", "fetch", "disk"}),
  S(<<<<Remote("m", "v1", TRUE, 1)>>, <<Remote("m", "bad", TRUE, 1)>>, <<Remote("m", "v1", TRUE, 1)>>>>,
    {"crash"}),
  S(<<<<Remote("m", "v1", FALSE, 2)>>, <<Linked("m", "src")>>>>, {"fetch"}),
  S(<<<<Remote("m", "v1", TRUE, 1)>>, <<Remote("m", "v1", FALSE, 1)>>>>, {"none"})}

\* Commands of two attempts of a run, of jobs whose names meet, on hosts that number
\* their shards or do not, named by hand, or off CI.
Task(env) == [kind |-> "test", name |-> <<>>, key |-> <<>>, env |-> env]
Github(job, attempt) ==
  "GITHUB_ACTIONS" :> <<"true">> @@ "GITHUB_JOB" :> job @@ "GITHUB_RUN_ID" :> <<"7">>
  @@ "GITHUB_RUN_ATTEMPT" :> attempt @@ "RUNNER_TEMP" :> <<"temp">>
Buildkite(key, label) ==
  "BUILDKITE" :> <<"true">> @@ "BUILDKITE_STEP_KEY" :> key @@ "BUILDKITE_LABEL" :> label
  @@ "BUILDKITE_PARALLEL_JOB" :> <<"2">>
N(commands, fault) == [commands |-> commands, fault |-> fault]
MCNameWorlds ==
  {N({}, FALSE),
   N({Task(Github(<<"x">>, <<"1">>)), Task(Github(<<"x">>, <<"2">>)), Task(Github(<<"x", "2">>, <<"1">>))}, FALSE),
   N({Task(Github(<<"x">>, <<"1">>)), Task(Github(<<"-">>, <<"1">>)),
      [Task(Github(<<"x">>, <<"1">>)) EXCEPT !.name = <<"mine">>],
      [Task(Github(<<"x">>, <<"1">>)) EXCEPT !.key = <<"old">>]}, TRUE),
   N({Task(Buildkite(<<>>, <<"x">>)), Task(Buildkite(<<"-">>, <<"x">>)), Task(Buildkite(<<"x">>, <<>>)),
      Task("CIRCLECI" :> <<>> @@ "CIRCLE_JOB" :> <<"x", "2">> @@ Buildkite(<<"x">>, <<>>)),
      Task("GITLAB_CI" :> <<"true">> @@ "CI_JOB_NAME" :> <<"x">>), Task(<<>>)}, FALSE)}
\* A tree that is not there, that a crash left at any point, or that is whole.
MCExtractWorlds ==
  {[tree |-> NoTree, fault |-> "off"]}
  \cup [tree : {NoTree, Tree({1}, FALSE)}, fault : {"crash", "disk"}]
  \cup [tree : {Tree({}, FALSE), Whole}, fault : {"none"}]
MCWorlds == MCLaunchWorlds \cup Cached(2) \cup Cached(3)
\* One command per version of the module file; names, and a tree of tasks, under a CLI that is cached.
MCInit ==
  /\ Init /\ (tool[HttpUrl] = None <=> wanted = <<>> /\ ci.commands = {} /\ extractFault = "off")
  /\ wanted # <<>> => runs = Len(wanted) /\ ci.commands = {} /\ extractFault = "off"
  /\ ci.commands # {} => runs = 3 /\ extractFault = "off"
  /\ extractFault # "off" => runs = 2
MCSpec == MCInit /\ [][Next]_vars /\ Fairness
=============================================================================
