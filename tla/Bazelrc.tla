------------------------------ MODULE Bazelrc ------------------------------
(***************************************************************************)
(* The life of a run command as a task drives it:                          *)
(* ctx.bazel.parse_rc() reads the rc files (RcFiles) and makes the value,  *)
(* ctx.bazel.new_rc() makes another of flags alone, merge() lays it over   *)
(* the first, and every invocation of Bazel is resolved from the result    *)
(* (RunCommand).                                                           *)
(***************************************************************************)
EXTENDS RcFiles

CONSTANTS Worlds,      \* the choices of the environment
          Commands     \* the commands invoked

VARIABLES
    phase,     \* "called", "reading", "made", "merged", "failed"
    rc,        \* the run command
    outcome    \* what the last invocation was resolved to

vars == <<world, fileVars, phase, rc, outcome>>

Nothing == [command |-> "", error |-> "", opts |-> << >>, argv |-> << >>,
            startup |-> << >>, shown |-> << >>]
NoRc == [options |-> << >>, sources |-> << >>, skip |-> {}, startup |-> << >>,
         version |-> Unset]
ProbeFails == [v |-> -1, pre |-> FALSE]

Init ==
    /\ world \in Worlds
    /\ FilesInit
    /\ phase = "called" /\ rc = NoRc /\ outcome = Nothing

----------------------------------------------------------------------------
ParseRc ==
    /\ phase = "called"
    /\ Discover
    /\ phase' = IF error' = "" THEN "reading" ELSE "failed"
    /\ UNCHANGED <<world, rc, outcome>>

ReadFiles ==
    /\ phase = "reading"
    /\ Read
    /\ phase' = IF error' = "" THEN "reading" ELSE "failed"
    /\ UNCHANGED <<world, rc, outcome>>

\* resolve_rc_version: the running Bazel is asked only when a gate may need
\* its version; has_version_gated_options looks at every section, or only at
\* those without a config.
GatedOutright(opts) ==
    \E sec \in DOMAIN opts : sec.config = "" /\ \E i \in 1..Len(opts[sec]) :
        opts[sec][i].gate # Ungated

Gated(opts) ==
    \E sec \in DOMAIN opts : \E i \in 1..Len(opts[sec]) : opts[sec][i].gate # Ungated

VersionFor(opts) ==
    IF world.requested # Unset THEN world.requested
    ELSE IF Gated(opts) /\ world.running # ProbeFails THEN world.running
    ELSE Unset

Make ==
    /\ phase = "reading" /\ AllRead
    /\ LET made == WithFlags(options, sources, world.flags)
       IN  rc' = [options |-> made.options, sources |-> made.sources,
                  skip |-> world.skip, startup |-> world.startup,
                  version |-> VersionFor(made.options)]
    /\ phase' = "made"
    /\ UNCHANGED <<world, fileVars, outcome>>

MergeOverlay ==
    /\ phase = "made" /\ world.overlay # << >>
    /\ rc' = Merge(rc, Blank(world.overlay, << >>, world.overlayVersion))
    /\ phase' = "merged" /\ outcome' = Nothing
    /\ UNCHANGED <<world, fileVars>>

\* resolve_flags_for_running_bazel: a call's own flags; here the suffix of a
\* release candidate does not count, and a failed probe is an error.
ConstraintMatches(gate) == Meets(gate, [Probe(world.running) EXCEPT !.pre = FALSE])

Extras ==
    LET gated == \E i \in 1..Len(world.extras) : world.extras[i].gate # Ungated
        kept == SelectSeq(world.extras, LAMBDA e :
                    IF e.gate = Ungated THEN TRUE ELSE ConstraintMatches(e.gate))
    IN  IF gated /\ world.running = ProbeFails
        THEN [error |-> "no version", out |-> << >>]
        ELSE IF \E i \in 1..Len(world.extras) : Malformed(world.extras[i].gate)
        THEN [error |-> "version constraint", out |-> << >>]
        ELSE [error |-> "",
              out |-> [i \in 1..Len(kept) |->
                          [override |-> FALSE, value |-> kept[i].value]]]

\* resolve_invocation_flags, and announce_rc before it.
Invoke(command) ==
    /\ phase \in {"made", "merged"}
    /\ LET opts == Applicable(rc, command)
           failed == IF Extras.error # "" THEN Extras.error ELSE opts.error
       IN  outcome' = [Nothing EXCEPT
             !.command = command,
             !.error = failed,
             !.shown = Announced(rc, command),
             !.opts = opts.out,
             !.argv = IF failed = "" THEN Partition(opts.out) \o Extras.out ELSE << >>,
             !.startup = IF failed = "" THEN StartupFlags(rc) ELSE << >>]
    /\ UNCHANGED <<world, fileVars, phase, rc>>

Next ==
    \/ ParseRc
    \/ ReadFiles
    \/ Make
    \/ MergeOverlay
    \/ \E command \in Commands : Invoke(command)

Spec == Init /\ [][Next]_vars

----------------------------------------------------------------------------
Made == phase \in {"made", "merged"}
Answered == outcome.command # ""

\* What a text says is read off by walking it: a walk is a sequence of nodes,
\* each with the positions that lead to it and what stands at each of them; a
\* node comes before everything inside it.
Before(m, n) ==
    LET p == m.path
        q == n.path
    IN  \/ Len(p) < Len(q) /\ \A i \in 1..Len(p) : p[i] = q[i]
        \/ \E i \in 1..IF Len(p) < Len(q) THEN Len(p) ELSE Len(q) :
              p[i] < q[i] /\ \A j \in 1..i - 1 : p[j] = q[j]

At(node) == Last(node.trail)
Around(node) == Front(node.trail)

Inside(node, here) ==
    [i \in 1..Len(here) |-> [path |-> Append(node.path, i),
                             trail |-> Append(node.trail, here[i])]]

Walk(top, Children(_), depth) ==
    LET first == Inside([path |-> << >>, trail |-> << >>], top)
        Deeper(walked, d) ==
            LET last == SelectSeq(walked, LAMBDA n : Len(n.path) = d)
            IN  walked \o FlattenSeq([i \in 1..Len(last) |->
                                        Inside(last[i], Children(last[i]))])
    IN  SortSeq(FoldLeft(Deeper, first, [d \in 1..depth |-> d]), Before)

\* The last gate along a trail that is one.
Innermost(gates) ==
    LET some == SelectSeq(gates, LAMBDA g : g # Ungated)
    IN  IF some = << >> THEN Ungated ELSE Last(some)

\* Every option, source and gate refers to something: a type invariant.
TypeOK ==
    /\ phase \in {"called", "reading", "made", "merged", "failed"}
    /\ error # "" <=> phase = "failed"
    /\ \A i \in 1..Len(stack) :
          /\ stack[i].source \in 1..Len(sources)
          /\ sources[stack[i].source] = stack[i].file
          /\ stack[i].next \in 1..Len(Lines(stack[i].file)) + 1
    /\ \A sec \in DOMAIN rc.options : \A i \in 1..Len(rc.options[sec]) :
          /\ rc.options[sec][i].source \in 1..Len(rc.sources)
          /\ rc.options[sec][i].key = sec

----------------------------------------------------------------------------
\* What the files say: a walk goes from the files that Bazel reads into the
\* files they import.
Roots ==
    IF world.ignore THEN << >>
    ELSE FoldLeft(LAMBDA roots, f : IF Contains(roots, f) THEN roots ELSE Append(roots, f),
                  << >>, AtPlaces \o Named)

Depth == 2 * (Cardinality(DOMAIN world.files) + 1)

Enters(node) == /\ At(node).is \in {"root", "import", "try", "gate"}
                /\ Exists(At(node).file)

\* The file entered is one that it is in.
Turns(node) ==
    \E i \in 1..Len(Around(node)) : Around(node)[i].file = At(node).file

Text ==
    Walk([i \in 1..Len(Roots) |-> [is |-> "root", file |-> Roots[i]]],
         LAMBDA n : IF Enters(n) /\ ~Turns(n) THEN Lines(At(n).file) ELSE << >>,
         Depth)

Faulty(node) ==
    CASE At(node).is = "malformed" -> TRUE
      [] At(node).is = "import" -> ~Exists(At(node).file) \/ Turns(node)
      [] OTHER -> Enters(node) /\ Turns(node)

FaultAt(node) ==
    CASE At(node).is = "malformed" -> "import arguments"
      [] ~Exists(At(node).file) -> "import not found"
      [] OTHER -> "import cycle"

\* parse_rc fails with what is wrong first on the way through the files, a file
\* imported inside itself, and not one imported twice; and succeeds otherwise.
ImportFaultsAreReal ==
    phase \in {"made", "failed"} /\ ~Answered /\ error # "no rc file" =>
        LET faults == SelectSeq(Text, Faulty)
        IN  error = IF faults = << >> THEN "" ELSE FaultAt(faults[1])

\* An import stands for the lines of its file: each section holds its options
\* in the order of the text, each with the innermost gate around it and filed
\* under the file that it is written in.
Written(node) ==
    LET gates == [i \in 1..Len(node.trail) |->
                    IF node.trail[i].is = "gate" THEN node.trail[i].gate ELSE Ungated]
    IN  [i \in 1..Len(At(node).values) |->
            [value |-> At(node).values[i], gate |-> Innermost(gates),
             file |-> Last(Around(node)).file]]

ImportsInPlace ==
    phase = "made" /\ ~Answered =>
        LET lines == SelectSeq(Text, LAMBDA n : At(n).is = "option")
            Of(key) == SelectSeq(lines, LAMBDA n : At(n).key = key)
            Filed(key) == [i \in 1..Len(Section(options, key)) |->
                LET o == options[key][i]
                IN  [value |-> o.value, gate |-> o.gate, file |-> sources[o.source]]]
        IN  \A key \in DOMAIN options \cup {At(lines[i]).key : i \in 1..Len(lines)} :
                Filed(key) = FlattenSeq([i \in 1..Len(Of(key)) |-> Written(Of(key)[i])])

----------------------------------------------------------------------------
\* What the configs come to: a walk from the options in effect, through each
\* --config, into the sections of that config for the command's levels.
OfConfig(config) ==
    LET levels == Levels(outcome.command)
    IN  FlattenSeq([i \in 1..Len(levels) |-> RawOptions(rc, Sec(levels[i], config))])

Circles(node) ==
    \E i \in 1..Len(Around(node)) : Around(node)[i].value = At(node).value

Meaning ==
    Walk(BaseOf(rc, outcome.command),
         LAMBDA n : IF IsConfig(At(n)) /\ ~Circles(n) THEN OfConfig(At(n).value.val)
                    ELSE << >>,
         4)

Undefined(node) ==
    /\ OfConfig(At(node).value.val) = << >>
    /\ At(node).value.val \notin rc.skip
    /\ ~ /\ At(node).value.val = PlatformName
         /\ Len(node.path) = 1 /\ HasPlatform(rc, outcome.command)

\* An invocation fails for the first --config, as they are expanded, that is
\* inside its own expansion or defined for none of the command's levels; else
\* a --config stands for the options of its sections, in place and from the
\* general level to the special, each under its innermost gate.
ExpansionInPlace ==
    Answered /\ Extras.error = "" =>
        LET walk == Meaning
            lost == SelectSeq(walk, LAMBDA n : IsConfig(At(n)) /\ (Circles(n) \/ Undefined(n)))
            leaves == SelectSeq(walk, LAMBDA n : ~IsConfig(At(n)))
            all == [i \in 1..Len(leaves) |->
                      [At(leaves[i]) EXCEPT !.gate =
                          Innermost([j \in 1..Len(leaves[i].trail) |->
                                        leaves[i].trail[j].gate])]]
        IN  IF lost # << >>
            THEN outcome.error = IF Circles(lost[1]) THEN "config cycle"
                                 ELSE "undefined config"
            ELSE IF \E i \in 1..Len(all) : Malformed(all[i].gate)
            THEN outcome.error = "version constraint"
            ELSE /\ outcome.error = ""
                 /\ outcome.opts =
                      SelectSeq(all, LAMBDA o : Meets(o.gate, Probe(rc.version)))

\* A run command that parse_rc made judges every gate, those of its startup
\* flags included, by the version it was told, else by the running Bazel's,
\* though that is asked for only if the run command may need it.
VersionMeant ==
    IF world.requested # Unset THEN world.requested
    ELSE IF world.running \in {Unset, ProbeFails} THEN Latest ELSE world.running

GatesMeanThisBazel ==
    Answered /\ outcome.error = "" /\ phase = "made" =>
        /\ outcome.opts = SelectSeq(ExpandConfigs(rc, outcome.command).out,
                                    LAMBDA o : Meets(o.gate, VersionMeant))
        /\ \A i \in 1..Len(RawOptions(rc, Plain("startup"))) :
             LET o == RawOptions(rc, Plain("startup"))[i]
             IN  Contains(outcome.startup, o.value) =
                 IF Malformed(o.gate) THEN TRUE ELSE Meets(o.gate, VersionMeant)

----------------------------------------------------------------------------
\* What Bazel makes of its arguments: the last one that gives a flag counts,
\* and a flag without a value takes the argument after it.
Gives(argv, i, name) ==
    /\ argv[i].value.name = name
    /\ argv[i].value.f = "bare" => i < Len(argv) /\ argv[i + 1].value.f = "word"

Effective(argv, name) ==
    LET giving == {i \in 1..Len(argv) : Gives(argv, i, name)}
        last == CHOOSE i \in giving : \A j \in giving : j <= i
    IN  CASE giving = {} -> "none"
          [] giving # {} /\ argv[last].value.f = "eq" -> argv[last].value.val
          [] giving # {} /\ argv[last].value.f = "bare" -> argv[last + 1].value.val

EffectiveBool(argv, name) ==
    LET of == {i \in 1..Len(argv) : argv[i].value.name = name}
    IN  IF of = {} THEN "unset"
        ELSE IF argv[CHOOSE i \in of : \A j \in of : j <= i].value.f = "no" THEN "false"
        ELSE "true"

\* A flag typed by the user, after every --config that is typed, has the value
\* typed last whatever the rc files say: in an overlay over the run command's
\* own, in a call over both.
Kept(flags, Admits(_)) ==
    SelectSeq(flags, LAMBDA o : IF o.gate = Ungated THEN TRUE ELSE Admits(o.gate))

Typed ==
    Kept(world.flags \o (IF phase = "merged" THEN world.overlay ELSE << >>),
         LAMBDA g : Meets(g, Probe(rc.version)))
    \o Kept(world.extras, ConstraintMatches)

TypedWins ==
    Answered /\ outcome.error = "" =>
        \A i \in 1..Len(Typed) :
            /\ Typed[i].value.f = "eq"
            /\ \A j \in i..Len(Typed) : ~IsConfig(Typed[j])
            /\ \A j \in i + 1..Len(Typed) : Typed[j].value.name # Typed[i].value.name
            => Effective(outcome.argv, Typed[i].value.name) = Typed[i].value.val

\* A flag and the value written after it reach Bazel together: as neighbours,
\* or as one override of a default, which Bazel does not split.
PairsStay ==
    \A i \in 1..Len(outcome.argv) :
        LET arg == outcome.argv[i]
        IN  /\ arg.value.f = "word" =>
                 /\ ~arg.override
                 /\ i > 1 /\ ~outcome.argv[i - 1].override
                 /\ outcome.argv[i - 1].value.f = "bare"
            /\ arg.override /\ arg.value.f = "bare" =>
                 ~ \E file \in DOMAIN world.files : \E n \in 1..Len(Lines(file)) :
                     /\ Lines(file)[n].is = "option"
                     /\ \E k \in 1..Len(Lines(file)[n].values) - 1 :
                          /\ Lines(file)[n].values[k] = arg.value
                          /\ Lines(file)[n].values[k + 1].f = "word"

\* What flag_value and bool_flag tell a task is what Bazel will take, unless
\* the last word is a `common` section's: that becomes a default, and any other
\* section's option wins over it.
ReportedIsEffective ==
    Answered /\ outcome.error = "" =>
        LET own == SubSeq(outcome.argv, 1, Len(outcome.argv) - Len(Extras.out))
            Names == {outcome.opts[i].value.name : i \in 1..Len(outcome.opts)} \ {""}
            Defaulted(name) ==
                LET of == {i \in 1..Len(outcome.opts) : outcome.opts[i].value.name = name}
                IN  /\ IsCommon(outcome.opts[CHOOSE i \in of : \A j \in of : j <= i])
                    /\ \E i \in of : ~IsCommon(outcome.opts[i])
        IN  \A name \in Names : ~Defaulted(name) =>
                LET values == FlagValues(outcome.opts, name)
                IN  IF values # << >> THEN Last(values) = Effective(own, name)
                    ELSE BoolFlag(outcome.opts, name) = EffectiveBool(own, name)

\* What Bazel and the task see of the options in effect (partition_expand_all,
\* flag_value_list and last_bool_flag of lib.rs).
ArgumentsArrive == TypedWins /\ PairsStay /\ ReportedIsEffective

----------------------------------------------------------------------------
\* --announce-bazel-rc lists, for every file read and for the command line, the
\* options written there and no other's; and nothing applies that it does not
\* list.
WrittenIn(source, key) ==
    LET file == rc.sources[source]
        Is(line) == line.is = "option" /\ line.key = key
        typed == IF phase = "merged" /\ source = Len(rc.sources) THEN world.overlay
                 ELSE world.flags
    IN  IF file = CommandLineSource
        THEN IF key = Plain("always") THEN [i \in 1..Len(typed) |-> typed[i].value] ELSE << >>
        ELSE LET lines == SelectSeq(Lines(file), LAMBDA l : IF l.is = "option" THEN Is(l) ELSE FALSE)
             IN  FlattenSeq([i \in 1..Len(lines) |-> lines[i].values])

AnnounceIsTrue ==
    Answered =>
        /\ \A source \in 1..Len(rc.sources) : \A key \in DOMAIN outcome.shown[source] :
              [i \in 1..Len(outcome.shown[source][key]) |->
                  outcome.shown[source][key][i].value] = WrittenIn(source, key)
        /\ \A i \in 1..Len(outcome.opts) :
              LET o == outcome.opts[i]
              IN  /\ o.key \in DOMAIN outcome.shown[o.source]
                  /\ Contains(WrittenIn(o.source, o.key), o.value)

\* What parse_rc made is what the files say (discover.rs, parse.rs); what is in
\* effect, and announced to be, is what the sections of the run command say
\* (options_for, expand_configs, applicable_options, announce).
ReadAsWritten ==
    /\ TypeOK /\ ImportFaultsAreReal /\ ImportsInPlace
    /\ ExpansionInPlace /\ GatesMeanThisBazel /\ AnnounceIsTrue
=============================================================================
