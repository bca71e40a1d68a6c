----------------------------- MODULE MCBazelrc -----------------------------
(***************************************************************************)
(* The worlds TLC enumerates, in three families: files that import one     *)
(* another, configs and typed flags over one file, versions and gates.     *)
(***************************************************************************)
EXTENDS Bazelrc

Import1(f) == [is |-> "import", file |-> f]
Try(f) == [is |-> "try", file |-> f]
Gate(g, f) == [is |-> "gate", gate |-> g, file |-> f]
Option(key, values) == [is |-> "option", key |-> key, values |-> values]
Bad == [is |-> "malformed"]

Ge8 == [op |-> "ge", v |-> 8]
Lt8 == [op |-> "lt", v |-> 8]
BadGate == [op |-> "malformed", v |-> 0]
V(n) == [v |-> n, pre |-> FALSE]
Rc8 == [v |-> 8, pre |-> TRUE]

Jobs(n) == Eq("jobs", n)
Config(c) == Eq("config", c)
Flag(value) == [value |-> value, gate |-> Ungated]

Plainest ==
    [files |-> << >>, at |-> [system |-> "none", workspace |-> "a", home |-> "none"],
     no |-> {}, env |-> << >>, explicit |-> << >>, ignore |-> FALSE,
     flags |-> << >>, startup |-> << >>, skip |-> {}, requested |-> Unset,
     running |-> V(8), overlay |-> << >>, overlayVersion |-> Unset, extras |-> << >>]

SeqsUpTo(S, n) == UNION {[1..k -> S] : k \in 0..n}

\* Imports: at most three files, each option marked with its file.
OptOf(f) == Option(Plain("build"), <<Jobs(f)>>)
LinesA == {OptOf("a"), Import1("b"), Import1("c"), Gate(Ge8, "b")}
LinesB == {OptOf("b"), Import1("c"), Try("c"), Gate(Lt8, "c"), Import1("a"), Bad}
FilesC == {<<OptOf("c")>>, <<OptOf("c"), Import1("a")>>, <<Try("b"), OptOf("c")>>}

Graphs ==
    {("a" :> a) @@ ("b" :> b) : a \in SeqsUpTo(LinesA, 2), b \in SeqsUpTo(LinesB, 2)}
    \cup {("a" :> a) @@ ("b" :> b) @@ ("c" :> c) :
            a \in SeqsUpTo(LinesA, 2), b \in SeqsUpTo(LinesB, 2), c \in FilesC}

Discoveries ==
    {Plainest,
     [Plainest EXCEPT !.at.home = "b", !.env = <<"a">>, !.explicit = <<"b">>],
     [Plainest EXCEPT !.at.system = "b", !.no = {"workspace"}, !.explicit = <<"a">>]}

ImportWorlds ==
    {[Plainest EXCEPT !.files = files] : files \in Graphs}
    \cup {[d EXCEPT !.files = ("a" :> <<Import1("b"), OptOf("a")>>) @@ ("b" :> b)] :
            d \in Discoveries \cup {[d EXCEPT !.ignore = TRUE] : d \in Discoveries}
                    \cup {[Plainest EXCEPT !.env = <<"missing">>]},
            b \in SeqsUpTo(LinesB, 2)}

\* Configs: one file; a section is there or not.
Maybe(key, choices) == {IF c = << >> THEN << >> ELSE <<Option(key, c)>> : c \in choices}
Pair == <<Bare("local_jobs"), Word("3")>>

Sections ==
    {FlattenSeq(<<common, build, test, buildA, commonA, testB>>) :
        common \in Maybe(Plain("common"), {<< >>, <<Jobs("1")>> \o Pair}),
        build \in Maybe(Plain("build"),
            {<< >>, <<Jobs("2"), Bare("keep")>>, <<Config("a"), Eq("local_jobs", "5")>>,
             <<PlatformSpecific, Config("b")>>}),
        test \in Maybe(Plain("test"), {<< >>, Pair \o <<Jobs("3")>>}),
        buildA \in Maybe(Sec("build", "a"), {<< >>, <<Jobs("4"), Config("b")>>}),
        commonA \in Maybe(Sec("common", "a"), {<< >>, <<Jobs("5")>> \o Pair}),
        testB \in Maybe(Sec("test", "b"), {<< >>, <<Config("a")>>, <<Jobs("6"), No("keep")>>})}

TypedFlags ==
    {<< >>, <<Flag(Jobs("7"))>>, <<Flag(Config("a"))>>,
     <<Flag(Jobs("7")), Flag(Config("a"))>>, <<Flag(Config("b")), Flag(Jobs("7"))>>}

Overlays == {<< >>, <<Flag(Jobs("8"))>>, <<Flag(No("keep")), Flag(Config("a"))>>}

ConfigWorlds ==
    {[Plainest EXCEPT !.files = "a" :> lines, !.flags = flags, !.overlay = overlay] :
        lines \in Sections, flags \in TypedFlags, overlay \in Overlays}
    \cup {[Plainest EXCEPT !.files = "a" :> lines, !.skip = {"b"},
                           !.extras = <<Flag(Jobs("9"))>>] : lines \in Sections}

\* Versions: gated imports, gated flags of every kind.
GatedFiles ==
    {("a" :> <<Gate(g, "b"), Option(Plain("build"), <<Config("a")>>)>>) @@ ("b" :> b) :
        g \in {Ge8, Lt8, BadGate},
        b \in {<<Option(Plain("startup"), <<Bare("batch")>>)>>,
               <<Option(Sec("build", "a"), <<Jobs("1")>>)>>,
               <<Option(Plain("test"), <<Jobs("2")>>), Option(Sec("common", "a"), Pair)>>}}

VersionWorlds ==
    {[Plainest EXCEPT !.files = files, !.flags = flags, !.requested = requested,
                      !.running = running, !.overlay = overlay,
                      !.overlayVersion = version, !.extras = extras, !.skip = {"a"}] :
        files \in GatedFiles \cup {"a" :> <<OptOf("a")>>},
        flags \in {<< >>, <<[value |-> Jobs("7"), gate |-> Lt8]>>,
                   <<[value |-> Config("a"), gate |-> Ge8]>>},
        requested \in {Unset, V(7)}, running \in {ProbeFails, Unset, V(7), V(9), Rc8},
        overlay \in {<< >>, <<[value |-> Jobs("8"), gate |-> Lt8]>>},
        version \in {Unset, V(9)},
        extras \in {<< >>, <<[value |-> Jobs("9"), gate |-> Ge8]>>,
                    <<[value |-> Jobs("9"), gate |-> BadGate]>>}}

MCWorlds == ImportWorlds \cup ConfigWorlds \cup VersionWorlds
MCCommands == {"build", "test", "query"}
=============================================================================
