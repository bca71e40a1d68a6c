----------------------------- MODULE RunCommand -----------------------------
(***************************************************************************)
(* The value bazel.RunCommand (crates/bazelrc, lib.rs and expand.rs): the  *)
(* options of a run command and what an invocation of Bazel makes of them. *)
(* A run command `rc` is a record                                          *)
(*    [options, sources, skip, startup, version]                           *)
(* and an option's value one of                                            *)
(*    --name=val   [f |-> "eq", name |-> n, val |-> v]                     *)
(*    --name       [f |-> "bare", name |-> n, val |-> ""]                  *)
(*    --noname     [f |-> "no", name |-> n, val |-> ""]                    *)
(*    val          [f |-> "word", name |-> "", val |-> v]                  *)
(* A gate is a bound on the version of Bazel, a version a number and       *)
(* whether it is a release candidate.                                      *)
(***************************************************************************)
EXTENDS Integers, Sequences, SequencesExt, FiniteSets, TLC

CommandLineSource == "<command line>"
Ungated == [op |-> "any", v |-> 0]
Unset == [v |-> 0, pre |-> FALSE]
Latest == [v |-> 99, pre |-> FALSE]

Eq(n, v) == [f |-> "eq", name |-> n, val |-> v]
Bare(n) == [f |-> "bare", name |-> n, val |-> ""]
No(n) == [f |-> "no", name |-> n, val |-> ""]
Word(v) == [f |-> "word", name |-> "", val |-> v]

\* What a section is of: its command, and its config if it has one.
Sec(command, config) == [of |-> command, config |-> config]
Plain(command) == Sec(command, "")

Ancestors(command) ==
    CASE command \in {"test", "run", "info", "cquery"} -> <<"build">>
      [] command \in {"coverage", "fetch"} -> <<"build", "test">>
      [] OTHER -> << >>

RawOptions(rc, sec) == IF sec \in DOMAIN rc.options THEN rc.options[sec] ELSE << >>

----------------------------------------------------------------------------
\* Flags given to parse_rc or new_rc: `always` options of their own source.
AsOptions(flags, source) ==
    [i \in 1..Len(flags) |->
        [value |-> flags[i].value, key |-> Plain("always"), source |-> source,
         gate |-> flags[i].gate]]

WithFlags(options, sources, flags) ==
    IF flags = << >> THEN [options |-> options, sources |-> sources]
    ELSE LET always == Plain("always")
             before == IF always \in DOMAIN options THEN options[always] ELSE << >>
         IN  [sources |-> Append(sources, CommandLineSource),
              options |-> (always :> before \o AsOptions(flags, Len(sources) + 1))
                          @@ options]

Blank(flags, startup, version) ==
    WithFlags(<< >>, << >>, flags)
    @@ [skip |-> {}, startup |-> startup, version |-> version]

\* merge: section by section the other's options last, its sources rebased;
\* RebasedNever leaves the indices of the other's own list.
RebasedNever(opts, offset) == opts

Rebased(opts, offset) ==
    [i \in 1..Len(opts) |-> [opts[i] EXCEPT !.source = @ + offset]]

Merge(rc, other) ==
    [options |-> [s \in DOMAIN rc.options \cup DOMAIN other.options |->
                    RawOptions(rc, s) \o
                    Rebased(RawOptions(other, s), Len(rc.sources))],
     sources |-> rc.sources \o other.sources,
     startup |-> rc.startup \o other.startup,
     skip    |-> rc.skip \cup other.skip,
     version |-> IF other.version = Unset THEN rc.version ELSE other.version]

----------------------------------------------------------------------------
\* options_for.  OptionsAsFiled takes the `always` section as one piece.
IsCli(rc, o) == rc.sources[o.source] = CommandLineSource

Levels(command) == <<"always", "common">> \o Ancestors(command) \o <<command>>

OptionsAsFiled(rc, command) ==
    FlattenSeq([i \in 1..Len(Levels(command)) |->
                   RawOptions(rc, Plain(Levels(command)[i]))])

OptionsFor(rc, command) ==
    LET always == RawOptions(rc, Plain("always"))
    IN  SelectSeq(always, LAMBDA o : ~IsCli(rc, o))
        \o FlattenSeq([i \in 1..Len(Levels(command)) - 1 |->
                          RawOptions(rc, Plain(Levels(command)[i + 1]))])
        \o SelectSeq(always, LAMBDA o : IsCli(rc, o))

----------------------------------------------------------------------------
\* expand_configs.
IsConfig(o) == o.value.f = "eq" /\ o.value.name = "config"
PlatformName == "linux"
PlatformSpecific == Bare("enable_platform_specific_config")

\* Every section of a config that applies, or the most general one there is.
FirstSectionOnly(rc, command, config) ==
    LET has == SelectSeq(Levels(command),
                         LAMBDA l : RawOptions(rc, Sec(l, config)) # << >>)
    IN  IF has = << >> THEN << >> ELSE RawOptions(rc, Sec(Head(has), config))

ConfigOptions(rc, command, config) ==
    FlattenSeq([i \in 1..Len(Levels(command)) |->
                   RawOptions(rc, Sec(Levels(command)[i], config))])

Inherit(opts, gate) ==
    [i \in 1..Len(opts) |->
        IF opts[i].gate = Ungated THEN [opts[i] EXCEPT !.gate = gate] ELSE opts[i]]

HasPlatform(rc, command) ==
    LET opts == OptionsFor(rc, command)
    IN  \E i \in 1..Len(opts) : opts[i].value = PlatformSpecific

BaseOf(rc, command) ==
    IF HasPlatform(rc, command)
    THEN << [value |-> Eq("config", PlatformName), key |-> Plain("always"),
             source |-> 1, gate |-> Ungated] >> \o OptionsFor(rc, command)
    ELSE OptionsFor(rc, command)

\* A config nobody defined, and nobody is told of.
Excused(rc, command, config, chain) ==
    \/ HasPlatform(rc, command) /\ chain = << >> /\ config = PlatformName
    \/ config \in rc.skip

\* The chain after a config was expanded: shorter by one again, or not.
ChainKept(chain, config) == Append(chain, config)

ChainAfter(chain, config) == chain

RECURSIVE ExpandArgs(_, _, _, _)
ExpandArgs(rc, command, args, chain) ==
    LET Step(acc, o) ==
          LET config == o.value.val
              opts == ConfigOptions(rc, command, config)
          IN  CASE acc.error # "" -> acc
                [] acc.error = "" /\ ~IsConfig(o) -> [acc EXCEPT !.out = Append(@, o)]
                [] acc.error = "" /\ IsConfig(o) ->
                     IF Contains(acc.chain, config)
                     THEN [acc EXCEPT !.error = "config cycle"]
                     ELSE IF opts = << >>
                     THEN IF Excused(rc, command, config, acc.chain) THEN acc
                          ELSE [acc EXCEPT !.error = "undefined config"]
                     ELSE LET inner == ExpandArgs(rc, command, Inherit(opts, o.gate),
                                                  Append(acc.chain, config))
                          IN  [error |-> inner.error, out |-> acc.out \o inner.out,
                               chain |-> ChainAfter(acc.chain, config)]
    IN  FoldLeft(Step, [error |-> "", out |-> << >>, chain |-> chain], args)

ExpandConfigs(rc, command) == ExpandArgs(rc, command, BaseOf(rc, command), << >>)

----------------------------------------------------------------------------
\* semver: a release candidate satisfies no bound that names none.
Meets(gate, version) ==
    CASE gate.op = "any" -> TRUE
      [] gate.op = "ge" -> version.v >= gate.v /\ ~version.pre
      [] gate.op = "lt" -> version.v < gate.v /\ ~version.pre

Malformed(gate) == gate.op = "malformed"
Probe(version) == IF version = Unset THEN Latest ELSE version
Holds(gate, version) == IF Malformed(gate) THEN TRUE ELSE Meets(gate, Probe(version))

\* applicable_options.
Applicable(rc, command) ==
    LET all == ExpandConfigs(rc, command)
    IN  IF all.error # "" THEN [error |-> all.error, out |-> << >>]
        ELSE IF \E i \in 1..Len(all.out) : Malformed(all.out[i].gate)
        THEN [error |-> "version constraint", out |-> << >>]
        ELSE [error |-> "",
              out |-> SelectSeq(all.out, LAMBDA o : Meets(o.gate, Probe(rc.version)))]

\* invocation_startup_flags, less the --ignore_all_rc_files at the end.
StartupFlags(rc) ==
    rc.startup \o
    LET section == SelectSeq(RawOptions(rc, Plain("startup")),
                             LAMBDA o : Holds(o.gate, rc.version))
    IN  [i \in 1..Len(section) |-> section[i].value]

\* partition_expand_all: the options of `common` sections become overrides of
\* the defaults, a flag and the value after it one override.
TwoTokens(o, next) ==
    /\ o.value.f \in {"bare", "no"} /\ next.value.f = "word"
    /\ o.key = next.key /\ o.gate = next.gate

JoinsNothing(opts, i) == FALSE

Joins(opts, i) == i < Len(opts) /\ TwoTokens(opts[i], opts[i + 1])

IsCommon(o) == o.key.of = "common"
Joined(opts, i) ==
    IF Joins(opts, i) THEN Eq(opts[i].value.name, opts[i + 1].value.val)
    ELSE opts[i].value

Partition(opts) ==
    LET Kept(i) == ~ /\ i > 1 /\ IsCommon(opts[i - 1])
                     /\ Joins(opts, i - 1)
        is == SelectSeq([i \in 1..Len(opts) |-> i], Kept)
        commons == SelectSeq(is, LAMBDA i : IsCommon(opts[i]))
        others == SelectSeq(is, LAMBDA i : ~IsCommon(opts[i]))
    IN  [k \in 1..Len(commons) |->
            [override |-> TRUE, value |-> Joined(opts, commons[k])]]
        \o [k \in 1..Len(others) |->
            [override |-> FALSE, value |-> opts[others[k]].value]]

\* flag_value_list and last_bool_flag; EqualsOnly misses the two-token form.
EqualsOnly(opts, name) ==
    LET given == SelectSeq(opts, LAMBDA o : o.value.f = "eq" /\ o.value.name = name)
    IN  [k \in 1..Len(given) |-> given[k].value.val]

FlagValues(opts, name) ==
    LET Gives(i) ==
            IF opts[i].value.f = "eq" THEN opts[i].value.name = name
            ELSE /\ opts[i].value = Bare(name)
                 /\ i < Len(opts) /\ opts[i + 1].value.f = "word"
        is == SelectSeq([i \in 1..Len(opts) |-> i], Gives)
    IN  [k \in 1..Len(is) |->
            IF opts[is[k]].value.f = "eq" THEN opts[is[k]].value.val
            ELSE opts[is[k] + 1].value.val]

BoolFlag(opts, name) ==
    LET said == SelectSeq(opts, LAMBDA o :
                    /\ o.value.name = name
                    /\ o.value.f = "eq" => o.value.val \in {"true", "false"})
        last == Last(said).value
    IN  IF said = << >> THEN "unset"
        ELSE IF last.f = "no" \/ last.val = "false" THEN "false" ELSE "true"

----------------------------------------------------------------------------
\* announce: for every source, the sections shown with its options.  ShownTo
\* leaves out what the command inherits.
ShownToItself(command) == {"startup", "always", "common", command}

ShownTo(command) == {"startup"} \cup Range(Levels(command))

Announced(rc, command) ==
    [s \in 1..Len(rc.sources) |->
        [sec \in {k \in DOMAIN rc.options :
                    /\ k.of \in ShownTo(command)
                    /\ k.of = "startup" => k.config = ""
                    /\ rc.sources[s] = CommandLineSource => k.config = ""} |->
            SelectSeq(rc.options[sec], LAMBDA o : o.source = s)]]
=============================================================================
