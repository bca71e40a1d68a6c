----------------------------- MODULE MCRuntime -----------------------------
(***************************************************************************)
(* Programs for Runtime.                                                   *)
(*                                                                         *)
(* Graphs: every way a script s, a library l beside it, two files d and e  *)
(* of a module and an embedded file b can load one another with at most    *)
(* two loads in the script and one elsewhere, one of them possibly broken  *)
(* or not there at all.                                                    *)
(*                                                                         *)
(* Bodies: one fixed set of files and three families of functions in them. *)
(***************************************************************************)
EXTENDS Session

MCStd == "std"
F(m, n) == [mod |-> m, name |-> <<n>>]
In(f, dir) == [f EXCEPT !.name = <<dir>> \o @]
S == F("root", "s")
L == In(F("root", "l"), "d")
D == In(F("m", "l"), "d")
E == F("m", "e")
B == F(MCStd, "b")
C == F("root", "config")
U == F("user", "config")

Label(m, segs) == [mod |-> m, segs |-> segs]
Rel(n) == Label(<< >>, <<".", n>>)
Up(n) == Label(<< >>, <<"..", n>>)
Sub(n) == Label(<< >>, <<n>>)
RelD(n) == Label(<< >>, <<".", "d", n>>)
SubD(n) == Label(<< >>, <<"d", n>>)
Spec2(m, n) == Label(<<m>>, <<n>>)
SpecD(m, n) == Label(<<m>>, <<"d", n>>)
Emb(n) == Label(<<MCStd>>, <<n>>)

UpTo1(X) == {<< >>} \cup {<<x>> : x \in X}
UpTo2(X) == UpTo1(X) \cup {<<x, y>> : x \in X, y \in X}

NoOps == [config |-> 0, feature |-> 0, task |-> 0]
Unaided == {[kind |-> "none"]}
NoLine == [key |-> <<"s">>, words |-> << >>, says |-> << >>, wrong |-> FALSE]
N == <<"out", "dir">>
Num(t) == Scalar("int", t)
PlainTask(key, ts) ==
    [key |-> key, traits |-> ts, args |-> N :> [Arg("int") EXCEPT !.default = << <<"9">> >>],
     defaults |-> << >>]
NoFeatures == << >>
NoArgs(name) == [name |-> name, args |-> << >>, enabled |-> TRUE]

Graph(ls, ll, ld, le, lb, bad, there) ==
    [loads |-> [f \in {S, L, D, E, B} \ (IF there THEN {} ELSE bad) |->
                   CASE f = S -> ls [] f = L -> ll [] f = D -> ld [] f = E -> le [] f = B -> lb],
     broken |-> bad,
     tasks |-> S :> << PlainTask(<<"s">>, {}) >>, features |-> NoFeatures,
     scripts |-> << S, L >>,
     modules |-> << [name |-> "m", tasks |-> {}, features |-> << >>],
                    [name |-> "root", tasks |-> {}, features |-> << >>] >>,
     configs |-> << >>, ops |-> {}, budget |-> NoOps, lines |-> {NoLine},
     uses |-> Unaided]

Graphs ==
    {Graph(ls, ll, ld, le, lb, bad[1], bad[2]) :
        ls \in UpTo2({RelD("l"), SubD("l"), SpecD("m", "l"), Emb("b")}),
        ll \in UpTo1({Up("s"), SpecD("m", "l"), Rel("l")}),
        ld \in UpTo1({Up("e"), Emb("b")}),
        le \in UpTo1({SubD("l")}),
        lb \in UpTo1({Spec2("m", "e"), Emb("b")}),
        bad \in {<<{}, TRUE>>, <<{E}, TRUE>>, <<{E}, FALSE>>, <<{B}, FALSE>>}}

\* Labels: one load of s, or of l in its directory, written in every way that is allowed
\* and in ways that are not.
Written1 ==
    {Sub("s"), Sub("txt"), SubD("l"), SubD("f."), Up("l"), Rel("s"), RelD("l"), SpecD("m", "l"),
     Spec2("M", "e"), Spec2("n", "e"), Spec2("root", "s"), Emb("e"), Emb("b")}
    \cup {Label(<< >>, segs) :
             segs \in {<<"", "s">>, <<"d", "", "l">>, <<".", ".", "s">>, <<"d", "..", "s">>,
                       <<"con", "l">>, <<".", "..", "s">>, <<"..", "..", "s">>, <<"..", "d", "l">>}}
    \cup {Label(<<m>>, segs) : m \in {"m", MCStd},
             segs \in {<<".", "e">>, <<"..", "e">>, <<".", "b">>, <<"", "e">>}}
Labels ==
    {Graph(<<l>>, << >>, << >>, << >>, << >>, {}, TRUE) : l \in Written1}
    \cup {Graph(<<RelD("l")>>, <<l>>, << >>, << >>, << >>, {}, TRUE) : l \in Written1}

----------------------------------------------------------------------------
\* l defines a trait and task s of script s declares it; module m has a task
\* under a group (d), two features (d and e, the first with the trait of e); the
\* project's config imports what it configures and can add the task of x, and
\* the user's config follows.
X == F("root", "x")
Y == F("m", "y")

Files(ops, budget, lines) ==
    [loads |-> S :> <<RelD("l"), Spec2("m", "y")>> @@ L :> << >> @@ Y :> << >>
            @@ X :> <<RelD("l")>>
            @@ D :> <<Up("y")>> @@ E :> <<Sub("y")>>
            @@ C :> <<SpecD("m", "l"), Spec2("m", "e"), Spec2("m", "y"), RelD("l"), Rel("x")>>
            @@ U :> <<SpecD("m", "l"), Spec2("m", "y")>>,
     broken |-> {},
     tasks |-> S :> << PlainTask(<<"s">>, {L, Y}) >>
            @@ D :> << PlainTask(<<"g", "d">>, {Y}) >>
            @@ X :> << PlainTask(<<"x">>, {L}) >>,
     features |-> D :> NoArgs("d") @@ E :> NoArgs("e"),
     scripts |-> << S >>,
     modules |-> << [name |-> "m", tasks |-> {[file |-> D, keys |-> << <<"g", "d">> >>]},
                     features |-> <<D, E>>],
                    [name |-> "root", tasks |-> {}, features |-> << >>] >>,
     configs |-> << [file |-> C, scope |-> "root"], [file |-> U, scope |-> "user"] >>,
     ops |-> ops, budget |-> budget, lines |-> lines, uses |-> Unaided]

NFlag == Written(<< >>, N, "-")
EnabledFlag(f) == Written(<<f>>, Enabled, "-")
Bool(b) == Scalar("bool", IF b THEN "true" ELSE "false")
Typing ==
    {[key |-> k,
      words |-> IF n THEN <<FlagEq(NFlag, "8")>> \o e.words ELSE e.words,
      says |-> IF n THEN <<Whom(k), N>> :> Num("8") @@ e.says ELSE e.says, wrong |-> FALSE] :
        k \in {<<"s">>, <<"g", "d">>, <<"x">>}, n \in BOOLEAN,
        e \in {[words |-> << >>, says |-> << >>],
               [words |-> <<Flag(EnabledFlag("d"))>>, says |-> <<D, Enabled>> :> Bool(TRUE)],
               [words |-> <<FlagEq(EnabledFlag("d"), "false")>>,
                says |-> <<D, Enabled>> :> Bool(FALSE)]}}

Set(k, v) == [op |-> "set", key |-> k, arg |-> N, value |-> v]
Enable(f, v) == [op |-> "enable", file |-> f, arg |-> Enabled, value |-> v]
Settings ==
    {Set(<<"s">>, Num("1")), Set(<<"s">>, Num("2")), Set(<<"g", "d">>, Num("1")),
     Enable(D, Bool(TRUE)), Enable(D, Bool(FALSE)), Enable(E, Bool(FALSE)),
     [op |-> "add", file |-> X], [op |-> "fail"]}
Traits ==
    {[op |-> "touch", file |-> L], [op |-> "touch", file |-> Y], [op |-> "put", file |-> L],
     [op |-> "put", file |-> Y], [op |-> "read", file |-> L], [op |-> "read", file |-> Y],
     [op |-> "hook"], [op |-> "add", file |-> X]}
Running ==
    {[op |-> "defer", does |-> w] : w \in {"nothing", "fail", "defer", "phase"}}
    \cup {[op |-> "phase", name |-> n] : n \in {"build", "init"}}
    \cup {[op |-> "return", code |-> c] : c \in {1, 256}}
    \cup {[op |-> "fail"]}

\* Arguments: task s with an argument N of every kind and make (required, with a
\* default, with allowed values, a bare form, a flag of its own), a positional and
\* a trailing one; the same argument on feature d; every kind of value a config
\* can write, and command lines right and wrong.
P == <<"targets">>
R == <<"rest">>
Str(t) == Scalar("string", t)

Mode == [Arg("string") EXCEPT !.values = << {"debug", "opt"} >>]
Made ==
    {Mode, [Mode EXCEPT !.default = << <<"debug">> >>], [Mode EXCEPT !.required = TRUE],
     [Mode EXCEPT !.bare = <<"opt">>, !.default = << <<"debug">> >>],
     [Mode EXCEPT !.bare = <<"fast">>],
     [Arg("string") EXCEPT !.bare = <<"debug">>],
     [Arg("string") EXCEPT !.long = << Written(<< >>, <<"mode">>, "") >>],
     [Arg("string") EXCEPT !.long = << Written(<<"x">>, <<"mode">>, "") >>],
     [Arg("boolean") EXCEPT !.default = << <<"true">> >>],
     [Arg("int") EXCEPT !.default = << <<"-1">> >>],
     [Arg("uint") EXCEPT !.required = TRUE],
     [Arg("string_list") EXCEPT !.default = << <<"debug", "opt">> >>],
     [Arg("string_list") EXCEPT !.required = TRUE],
     [Arg("custom") EXCEPT !.default = << List(<< Num("7") >>) >>],
     [Arg("custom") EXCEPT !.default = << Num("7") >>, !.type = "int"],
     [Arg("custom") EXCEPT !.default = << Str("7") >>, !.type = "int"]}
    \cup {[Arg("int") EXCEPT !.required = TRUE, !.default = << <<"1">> >>]}
    \cup {Arg(k) : k \in {"boolean", "int", "uint", "boolean_list", "int_list", "uint_list"}}

\* Texts of each kind and what they mean, and a text that means nothing.
Right(arg) ==
    CASE arg.kind \in {"boolean", "boolean_list"} -> [text |-> "false", value |-> Bool(FALSE)]
      [] arg.kind \in {"int", "int_list"} -> [text |-> "-1", value |-> Num("-1")]
      [] arg.kind \in {"uint", "uint_list"} -> [text |-> "4000000000", value |-> Num("4000000000")]
      [] OTHER -> [text |-> "opt", value |-> Str("opt")]
WrongText(arg) ==
    CASE arg.kind \in {"int", "int_list"} -> "4000000000"
      [] arg.kind \in {"uint", "uint_list"} -> "-1"
      [] OTHER -> "maybe"
Alone(arg) ==           \* the flag without a value
    IF arg.kind = "boolean" THEN << Bool(TRUE) >>
    ELSE IF arg.kind = "boolean_list" THEN << List(<< Bool(TRUE) >>) >>
    ELSE IF arg.bare # << >> THEN << Str(arg.bare[1]) >> ELSE << >>

Line(words, says) == [key |-> <<"s">>, words |-> words, says |-> says, wrong |-> FALSE]
Bad(words) == [Line(words, << >>) EXCEPT !.wrong = TRUE]
Goal == Word("//a")
OnTask(n, v) == <<Whom(<<"s">>), n>> :> v

Flagged(arg, prefix, who) ==
    LET flag == IF arg.long = << >> THEN Written(prefix, N, "-") ELSE arg.long[1]
        good == Right(arg)
        many == arg.kind \in Lists
        one == IF many THEN List(<< good.value >>) ELSE good.value
        takes == arg.kind # "string" \/ arg.bare = << >>
    IN  IF arg.kind = "custom" THEN {Bad(<< FlagEq(flag, "7") >>)}
        ELSE {Line(<< FlagEq(flag, good.text) >>, <<who, N>> :> one)}
             \cup (IF many
                   THEN {Line(<< FlagEq(flag, good.text), Goal, FlagEq(flag, good.text) >>,
                              <<who, N>> :> List(<< good.value, good.value >>)
                              @@ OnTask(P, List(<< Str("//a") >>)))}
                   ELSE {Bad(<< FlagEq(flag, good.text), FlagEq(flag, good.text) >>)})
             \cup (IF Parser(arg) = "string" /\ arg.values = << >> THEN {}
                   ELSE {Bad(<< FlagEq(flag, WrongText(arg)) >>)})
             \cup (IF arg.kind \in {"string", "string_list"} /\ takes
                   THEN {Line(<< Flag(flag), Word("opt"), Goal >>,
                              <<who, N>> :> one @@ OnTask(P, List(<< Str("//a") >>)))}
                   ELSE {})
             \cup (IF Alone(arg) = << >> THEN {Bad(<< Goal, Flag(flag) >>)}
                   ELSE {Line(<< Flag(flag), Dashes, Goal >>,
                              <<who, N>> :> Alone(arg)[1] @@ OnTask(R, List(<< Str("//a") >>)))})
             \cup (IF Alone(arg) = << >> \/ many THEN {}
                   ELSE {Line(<< Flag(flag), Goal >>,
                              <<who, N>> :> Alone(arg)[1] @@ OnTask(P, List(<< Str("//a") >>)))})

Unflagged ==
    {NoLine, Bad(<< Flag(Written(<< >>, <<"nope">>, "")) >>), Bad(<< Goal, Goal, Goal >>),
     Line(<< Goal, Goal, Dashes, Goal >>,
          OnTask(P, List(<< Str("//a"), Str("//a") >>)) @@ OnTask(R, List(<< Str("//a") >>)))}

Values == {Str("opt"), Str("fast"), Num("-1"), Bool(TRUE), List(<< >>), List(<< Str("debug"), Str("opt") >>),
           List(<< Num("7") >>)}
Writes(op0) == {[op0 EXCEPT !.value = v] : v \in Values}
TaskOps ==
    Writes(Set(<<"s">>, Num("1")))
    \cup {[Set(<<"s">>, List(<< Str("//b"), Str("//c") >>)) EXCEPT !.arg = n] :
              n \in {P, R, <<"nope">>}}
FeatureOps ==
    Writes([op |-> "setf", file |-> D, arg |-> N, value |-> Num("1")])
    \cup {[op |-> "setf", file |-> D, arg |-> <<"nope">>, value |-> Num("1")],
          [op |-> "setf", file |-> D, arg |-> Enabled, value |-> Str("false")],
          Enable(D, Bool(FALSE)), Enable(D, Str("false"))}

Declared(own, defaults, theirs, ops, lines) ==
    [loads |-> S :> << >> @@ D :> << >> @@ C :> << SpecD("m", "l") >>, broken |-> {},
     tasks |-> S :> << [key |-> <<"s">>, traits |-> {}, defaults |-> defaults,
                        args |-> P :> [Arg("positional") EXCEPT !.range = <<1, 2>>]
                              @@ R :> Arg("trailing_var_args") @@ own] >>,
     features |-> D :> [name |-> "d", args |-> theirs, enabled |-> TRUE],
     scripts |-> << S >>,
     modules |-> << [name |-> "m", tasks |-> {}, features |-> << D >>],
                    [name |-> "root", tasks |-> {}, features |-> << >>] >>,
     configs |-> << [file |-> C, scope |-> "root"] >>,
     ops |-> ops, budget |-> [NoOps EXCEPT !.config = 1], lines |-> lines \cup Unflagged,
     uses |-> Unaided]

TaskWith(arg, defaults) ==
    Declared(N :> arg, defaults, << >>, TaskOps, Flagged(arg, << >>, Whom(<<"s">>)))
Declarations ==
    {TaskWith(a, << >>) : a \in Made}
    \cup {Declared(<< >>, << >>, N :> a, FeatureOps, Flagged(a, <<"d">>, D)) : a \in Made}
    \* task.alias(defaults = ...)
    \cup {TaskWith(a, N :> v) : v \in Values,
              a \in {Mode, Arg("uint"), [Arg("string_list") EXCEPT !.required = TRUE],
                     [Arg("custom") EXCEPT !.type = "bool"]}}
    \cup {TaskWith(Arg("int"), n :> List(<< Str("//b") >>)) : n \in {P, R, <<"nope">>}}

\* Telemetry: records before, while and after exporters of every kind are added and
\* installed, three before an exporter at most, one more than the buffers hold.
Call == [url |-> << >>, file |-> << >>, protocol |-> << >>, format |-> << >>,
         headers |-> {}, signals |-> {}]
Otlp == [Call EXCEPT !.url = <<"url">>]
OtlpLogs == [Otlp EXCEPT !.protocol = <<"http">>, !.headers = {"bad name"}, !.signals = {"logs"}]
OtlpMetrics == [Otlp EXCEPT !.url = <<"no url">>, !.signals = {"metrics"}]
ToFile == [Call EXCEPT !.file = <<"stderr">>]
FileLogs == [ToFile EXCEPT !.format = <<"jsonl">>, !.signals = {"logs"}]
Calls ==
    {{Otlp}, {OtlpLogs, FileLogs}, {ToFile}, {Otlp, OtlpMetrics},
     {ToFile, [ToFile EXCEPT !.file = <<"no/such/dir">>]},
     {FileLogs, [Otlp EXCEPT !.headers = {"bad name"}]}}
Unaddable ==
    {Call, [ToFile EXCEPT !.url = <<"url">>], [Otlp EXCEPT !.url = <<"">>],
     [Otlp EXCEPT !.signals = {"profiles"}], [Otlp EXCEPT !.protocol = <<"tcp">>],
     [FileLogs EXCEPT !.headers = {"name"}], [FileLogs EXCEPT !.protocol = <<"grpc">>],
     [FileLogs EXCEPT !.format = <<"text">>], [Otlp EXCEPT !.format = <<"json">>]}

Traced(calls, budget) ==
    [TaskWith(Arg("int"), << >>) EXCEPT
        !.ops = {[op |-> "export", call |-> c] : c \in calls}
                \cup {[op |-> "log"], [op |-> "event"]},
        !.budget = budget, !.lines = {NoLine}]
Telemetry0 ==
    {Traced(c, [config |-> 3, feature |-> 1, task |-> 1]) : c \in Calls}
    \cup {Traced(Unaddable, [config |-> 1, feature |-> 0, task |-> 1])}

\* Names that collide, and entries that name nothing.
Named(k1, k2, keys) ==
    [Files({}, NoOps, {NoLine}) EXCEPT
        !.tasks = S :> << PlainTask(k1, {}) >> @@ D :> << PlainTask(k2, {}) >>,
        !.modules[1].tasks = {[file |-> D, keys |-> keys], [file |-> Y, keys |-> << >>]}]

Keys == {<<"s">>, <<"s", "d">>, <<"g", "d">>, <<"get">>, <<"version">>, <<"g">>,
         <<"g", "get">>, <<"help", "d">>}

\* Helpers: one short program whose task makes each use of them.
Serves(path, adds, calls, budget) ==
    [kind |-> "server", path |-> path, adds |-> adds, calls |-> calls, budget |-> budget]
Servers ==
    {Serves(path, {Get}, << >>, 0) : path \in {"none", "stale", "rival"}}
    \cup {Serves("stale", {Get}, << Tree >>, 0), Serves("tcp", {Get}, << Get, Get >>, 1)}
    \cup {Serves("tcp", {m}, << m >>, 3) : m \in {Get, Tree, Write}}

Spawns(stdin, stdout, stderr, script, exit, budget) ==
    [kind |-> "process", stdin |-> stdin, stdout |-> stdout, stderr |-> stderr,
     script |-> script, code |-> exit, budget |-> budget]
Children ==
    {Spawns("inherit", "piped", "piped", <<"stderr", "stderr", "stdout">>, 0, 6),
     Spawns("piped", "piped", "inherit", <<"stdin", "stdout">>, 1, 6),
     Spawns("null", "piped", "null", <<"fork", "stdout">>, 0, 5),
     Spawns("null", "file", "file", <<"stdout", "stderr">>, 0, 6),
     Spawns("file", "console", "piped", << >>, 0, 2)}

Requests(requests, maps, old, budget) ==
    [kind |-> "http", requests |-> requests, maps |-> maps, old |-> old, budget |-> budget]
Maps == [on : {"ok", "error", "both"}, fails : BOOLEAN]
Webs ==
    {Requests(<<Simple("net")>>, Maps, 0, 4),
     Requests(<<Simple("unix"), Simple("net")>>, {[on |-> "error", fails |-> FALSE]}, 0, 5),
     Requests(<<Carrying("net"), Carrying("unix")>>, {}, 0, 4),
     Requests(<<Download(TRUE)>>, {}, 1, 2), Requests(<<Download(FALSE)>>, {}, 3, 2),
     Requests(<<Download(TRUE), Download(FALSE)>>, {}, 0, 3)}

CallOf(handles) ==
    [handles |-> handles, events |-> TRUE, given |-> << >>, streams |-> {}]
Builds0(stream, handles, calls, budget) ==
    [kind |-> "build", handles |-> handles, calls |-> calls, stream |-> stream,
     exits |-> {0, Killed}, most |-> 2, budget |-> budget]
Grpc == GrpcSpec(4, << >>)
All == IteratorSpec(<< >>, << >>)
Short == <<"started">>
Long == <<"started", "none", "finished">>
Builds1 ==
    {Builds0(Short, <<Grpc>>, {CallOf(<<1>>)}, 5), Builds0(<< >>, <<FileSpec>>, {CallOf(<<1>>)}, 5),
     Builds0(Short, <<All, FileSpec>>, {CallOf(<<1, 2>>), CallOf(<<2, 2>>)}, 5),
     [Builds0(Long, <<IteratorSpec(<<{"started", "finished"}>>, <<1>>)>>, {CallOf(<<1>>)}, 5)
      EXCEPT !.most = 1, !.exits = {0, 1, Killed}],
     Builds0(Short, <<IteratorSpec(<<{"started"}>>, << >>), Grpc>>, {CallOf(<<1, 2>>), CallOf(<<2, 1>>)}, 5),
     Builds0(Short, <<GrpcSpec(0, <<1>>), GrpcSpec(-1, << >>)>>, {[CallOf(<< >>) EXCEPT !.given = [stdout |-> "closed", stderr |-> "none"]]}, 2),
     Builds0(Short, <<FileSpec, IteratorSpec(<<{}>>, << >>)>>,
             {[CallOf(<< >>) EXCEPT !.given = [stdio |-> "open", stdout |-> "open"]],
              [CallOf(<< >>) EXCEPT !.events = FALSE, !.streams = {"execlog", "workspace"},
                                    !.given = [stdio |-> "open"]]}, 4)}

Calls0(o, path) == [op |-> o, path |-> path]
FD == <<"d">>
FE == <<"d", "e">>
FA == <<"d", "a">>
FB == <<"d", "b">>
Polls0(want) == Calls0("poll_read_to_string", FA) @@ [want |-> want]
Gate(want) == Calls0("read_to_string_if_complete", FA) @@ [want |-> want]
Puts(path) == Calls0("write", path) @@ [text |-> <<"t">>]
OwnRecord == Calls0("try_append", FA) @@ [text |-> <<"m">>, end |-> 0]
Files0(ops, coming, slow, budget) ==
    [kind |-> "files", ops |-> ops, coming |-> coming, slow |-> slow, fresh |-> {"t"},
     dirs |-> {FD}, budget |-> budget]
Trees ==
    {Calls0(o, p) : o \in {"create_dir", "create_dir_all", "remove_dir", "remove_dir_all"}, p \in {FD, FE}}
    \cup {Calls0("mkdtemp", FE), Puts(FA), Calls0("create", FB), Calls0("remove_file", FA),
          Calls0("set_permissions", FA) @@ [executable |-> TRUE],
          Calls0("hard_link", FA) @@ [to |-> FB]}
    \cup {Calls0("rename", p[1]) @@ [to |-> p[2]] : p \in {<<FD, <<"x">> >>, <<FA, FB>>, <<FE, FA>>, <<FD, FE>>}}
    \cup {Calls0("copy", p[1]) @@ [from |-> p[2]] : p \in {<<FA, FB>>, <<FB, FA>>, <<FE, FA>>}}
Questions ==
    {Calls0(o, p) : o \in {"exists", "try_read_to_string", "try_read_to_string_capped", "is_dir", "is_file",
                       "metadata", "symlink_metadata", "open", "read_dir", "read_to_string",
                       "read_link"}, p \in {FD, FA}}
Halves == FA :> << <<"x">>, <<"y">> >>
Files1 ==
    {Files0(Trees, << >>, {}, 5),
     Files0({OwnRecord, Puts(FA)}, FA :> << <<"r">>, <<"r">> >>, {}, 4),
     Files0({Polls0(2), Gate(2), Puts(FA)}, Halves, {}, 5),
     Files0({Polls0(-1), Puts(FA)}, Halves, {FA}, 5),
     Files0(Questions, FA :> << <<"x">>, <<"bad">> >>, {}, 2)}

Field1(name, typ, default) == [name |-> name, typ |-> typ, default |-> default]
IntT == [is |-> "int"]
ListT(t) == [is |-> "list", of |-> t]
DictT == [is |-> "dict", of |-> [is |-> "any"]]
On1(o, on) == [op |-> o, on |-> on]
OnTo(o, on, to) == On1(o, on) @@ [to |-> to]
OnFrom(o, on, from) == On1(o, on) @@ [from |-> from]
Show1(o, of, to) == [op |-> o, of |-> of, to |-> to]
Trait1(to, fields) == [op |-> "trait", fields |-> fields, to |-> to]
Make1(on, given, to) == OnTo("make", on, to) @@ [given |-> given]
Get1(on, field, to) == OnTo("read", on, to) @@ [field |-> field]
Set1(on, field, from) == OnFrom("assign", on, from) @@ [field |-> field]
Uses1(module, ops, own, budget) ==
    [kind |-> "traits", module |-> module, ops |-> ops, traits |-> own, budget |-> budget]
Nothing == << >>
\* A trait with a list, one with an equal shape, and an instance the module made.
Listed1 == <<Show1("list", <<"one">>, "d"), Trait1("T", <<Field1("f", ListT(IntT), "d")>>),
             Make1("T", Nothing, "m")>>
Twins1 == Listed1 \o <<Trait1("U", <<Field1("f", ListT(IntT), "d")>>)>>
\* Fields for an instance of T and for anything in a dict, neither list nor dict empty.
Nested1 == Listed1 \o <<Show1("list", <<"d">>, "n"), Show1("dict", <<"n">>, "e"),
                        Trait1("V", <<Field1("f", DictT, "e"), Field1("g", [trait |-> "T"], "m")>>)>>
Traits1 ==
    {Uses1(Listed1, {Make1("T", Nothing, "a"), Make1("T", [f |-> "l"], "b"), Get1("a", "f", "l"),
                     OnFrom("push", "l", "one"), OnFrom("push", "l", "word"),
                     Set1("a", "f", "l"), Set1("m", "f", "l"), OnFrom("compare", "a", "b"),
                     OnFrom("compare", "m", "a")}, {}, 7),
     Uses1(Twins1, {Make1("T", Nothing, "a"), Make1("U", Nothing, "b"), OnFrom("compare", "a", "b"),
                    OnFrom("compare", "T", "U"), Get1("m", "f", "l"), Set1("a", "f", "one"),
                    Set1("b", "f", "l"), Get1("b", "g", "l"), Make1("T", [f |-> "one"], "a"),
                    Make1("T", [g |-> "one"], "a")}, {}, 6),
     Uses1(Nested1, {OnTo("at", "V", "a"), OnTo("at", "V", "b"), OnTo("at", "T", "t"), Get1("a", "f", "l"),
                     OnTo("first", "l", "n"), OnFrom("push", "l", "one"), OnFrom("push", "n", "one"),
                     Set1("a", "g", "t"), Set1("a", "g", "a"), OnTo("in", "T", "i"),
                     OnFrom("put", "V", "t"), OnFrom("put", "T", "m"), Make1("T", Nothing, "t"), OnTo("at", "one", "a")}, {"V"}, 6),
     Uses1(Nothing, {Show1("list", <<"one">>, "d"), OnFrom("push", "d", "word"),
                     Trait1("T", <<Field1("f", ListT(IntT), "d"), Field1("g", IntT, "")>>),
                     Make1("T", Nothing, "a"), Make1("T", [g |-> "one"], "a"),
                     Make1("T", [g |-> "one"], "b"), Get1("a", "f", "l"),
                     OnFrom("push", "l", "one"), OnFrom("compare", "a", "b")}, {}, 8)}

Helped ==
    [Graph(<< >>, << >>, << >>, << >>, << >>, {}, TRUE) EXCEPT
        !.ops = {[op |-> "fail"]}, !.uses = Servers \cup Children \cup Webs \cup Builds1 \cup Files1
                       \cup Traits1]

\* Discovery: a project p with files of every kind on the way to p/a/b, started in its
\* directories, with and without markers, the user's config elsewhere or on the way;
\* MODULE.aspect files that are right, and each kind of wrong statement.
Dot == AspectFolder
Project ==
    {<<"p", Dot, f>> : f \in {"version", "config", "s", "t"}}
    \cup {<<"p", "a", Dot, f>> : f \in {"config", "u", "txt"}}
    \cup {<<"p", "a", "b", Dot, "config">>, <<"p", Dot, "q", Dot, "config">>, <<"h", Dot, "config">>}
World(cwd, home, files, says, wrong) ==
    [kind |-> "discovery", cwd |-> cwd, home |-> home, files |-> files,
     dirs |-> {<<"p">>, <<"p", "dep">>}, says |-> says, names |-> <<"aspect", "k", "m">>, wrong |-> wrong]

UseTask1(label, symbols, means) == [s |-> "task", label |-> label, symbols |-> symbols, means |-> means]
UseFeature1(label, means) == [s |-> "feature", label |-> label, means |-> means]
Local(name, of, auto) == [s |-> "local", name |-> name, of |-> of, auto |-> auto, sound |-> TRUE]
Archive(name, auto) == [Local(name, <<"archive">>, auto) EXCEPT !.s = "archive"]
Text1(n) ==
    <<UseTask1(<<"l">>, << <<n, "x">> >>, <<"l">>), UseFeature1(<<".", "e">>, <<"e">>),
      UseTask1(<<"d", "..", "l">>, << <<n, "y">> >>, <<"l">>), UseTask1(<<"n">>, << >>, <<"n">>)>>
Says(own, theirs) ==
    <<"p">> :> own @@ <<"p", "dep">> :> theirs @@ <<"archive">> :> Text1("k")
    @@ <<BuiltinModule>> :> Text1("aspect")

Wheres ==
    {World(cwd, home, files, << >>, FALSE) :
        cwd \in {<<"p">>, <<"p", "a", "b">>, <<"p", Dot, "q">>, <<"p", Dot, "q", "a">>},
        home \in {<<"h">>, <<"p">>, <<"p", "a">>},
        files \in {Project, Project \cup {<<"p", "a", "MODULE.bazel">>},
                   Project \cup {<<"p", "a", "MODULE.aspect">>},
                   (Project \ {<<"p", Dot, "version">>}) \cup {<<"p", "WORKSPACE">>},
                   Project \ {<<"p", Dot, "version">>}}}
Manifests ==
    {World(<<"p">>, <<"h">>, Project, Says(t[1], t[2]), FALSE) : t \in
        {<<Text1("root"), << >>>>,
         <<<<Local("m", <<"dep">>, TRUE), Archive("k", TRUE)>> \o Text1("root"), Text1("m")>>,
         <<<<Archive("k", FALSE), Local("m", <<"dep">>, TRUE)>>, Text1("m")>>,
         <<<<Local("aspect", <<"dep">>, FALSE)>>, Text1("aspect")>>,
         <<<<Local("aspect", <<"dep">>, TRUE), UseFeature1(<<"e">>, <<"e">>)>>, << >>>>,
         <<<<Local("m", <<"dep">>, TRUE)>>, <<Local("k", <<"dep">>, TRUE)>>>>,
         <<<<UseTask1(<<"l">>, << <<"root", "x">>, <<"root", "x">> >>, <<"l">>)>>, << >>>>}}
    \cup {World(<<"p">>, <<"h">>, Project, Says(<<Local("m", <<"dep">>, TRUE)>> \o t, << >>), TRUE) : t \in
        {<<Archive("m", FALSE)>>, <<Local("m", <<"dep">>, TRUE)>>, <<Local("root", <<"dep">>, TRUE)>>,
         <<Archive("root", TRUE)>>, <<Local("M", <<"dep">>, TRUE)>>, <<Local("k", <<"no">>, TRUE)>>,
         <<Local("k", <<Dot, "s">>, TRUE)>>, <<[Archive("k", TRUE) EXCEPT !.sound = FALSE]>>,
         <<[s |-> "renamed"]>>, <<UseTask1(<<"d", "..", "..", "l">>, << >>, << >>)>>,
         <<UseFeature1(<<"..", "e">>, << >>)>>}}
    \cup {World(<<"p">>, <<"h">>, Project, Says(<<Local("m", <<"dep">>, TRUE)>>,
                                               <<UseTask1(<<"..", "l">>, << >>, << >>)>>), TRUE)}

Scripted(w) == {RootFile(w, f) : f \in {f \in w.files : IsPrefix(AspectRoot(w), f) /\ Last(f) # "txt"}}
OfModules == {F(m, n) : m \in {"aspect", "k", "m", "root"}, n \in {"l", "e", "n"}}
Discovered(w) ==
    [Helped EXCEPT
        !.loads = [f \in Scripted(w) \cup OfModules \cup {UserFile} |-> << >>],
        !.tasks = [f \in {F(m, "l") : m \in {"aspect", "k", "m", "root"}} |->
                      << PlainTask(<<f.mod, "x">>, {}), PlainTask(<<f.mod, "y">>, {}) >>],
        !.features = [f \in {F(m, "e") : m \in {"aspect", "k", "m", "root"}} |-> NoArgs(f.mod)],
        !.scripts = << >>, !.modules = << >>, !.configs = << >>,
        !.lines = {[NoLine EXCEPT !.key = <<m, "y">>] : m \in {"aspect", "m"}},
        !.uses = {w}]

MCPrograms ==
    {Helped}
    \cup Graphs
    \cup Labels
    \cup {Discovered(w) : w \in Wheres \cup Manifests}
    \cup Declarations
    \cup Telemetry0
    \cup {Files(Settings, [config |-> 2, feature |-> 1, task |-> 0], Typing)}
    \cup {Files(Traits, [config |-> 1, feature |-> 1, task |-> 2],
                {NoLine, [NoLine EXCEPT !.key = <<"x">>]})}
    \cup {Files(Running, [config |-> 0, feature |-> 0, task |-> 4], {NoLine})}
    \cup {Named(k1, k2, keys) : k1 \in Keys, k2 \in Keys, keys \in {<< <<"g", "d">> >>, << >>}}
    \cup {Named(k1, k2, <<k2>>) : k1 \in Keys, k2 \in Keys}
=============================================================================
