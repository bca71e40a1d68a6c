---------------------------- MODULE CommandLine ----------------------------
(***************************************************************************)
(* The command surface (aspect-cli/src/cmd.rs): the tree of task commands, *)
(* the flags of a task's command and of the features', what a command line *)
(* says of them, and its merge with config.axl and the declared defaults.  *)
(* A task's command is the sequence of its groups and its kind.            *)
(*                                                                         *)
(* A scope is << >> for a task, the prefix << f >> for feature f; an       *)
(* override store is a function from names to values.                      *)
(***************************************************************************)
EXTENDS Arguments, FiniteSets

\* RESERVED_TOP_LEVEL_COMMANDS
Reserved == {"feature", "describe", "get"}
\* The subcommands `build` gives the root before the tasks.
Builtin == {"feature", "describe", "version", "help"}

ProperPrefixes(key) == {SubSeq(key, 1, n) : n \in 1..Len(key) - 1}
GroupsOf(keys) == UNION {ProperPrefixes(k) : k \in keys}

\* Tree::insert: the place is free, and no group on the way is a task.
Vacant(keys, key) == key \notin keys \cup GroupsOf(keys)
ThroughGroups(keys, key) == ProperPrefixes(key) \cap keys = {}
NameableAnywhere(key) == Len(key) <= MaxTaskGroups + 1

Nameable(key) ==
    /\ Len(key) <= MaxTaskGroups + 1
    /\ Len(key) = 1 => key[1] \notin Reserved
Insertable(keys, key) ==
    Nameable(key) /\ Vacant(keys, key) /\ ThroughGroups(keys, key)

\* Tree::attach: a level holds a name once, and the top level also holds the
\* built-in subcommands.
Attachable(keys, key) == key[1] \notin Builtin /\ key \notin GroupsOf(keys)

\* Cmd::build accepts the tasks in the order they were found.
Accepts(keys) ==
    \A i \in 1..Len(keys) :
        /\ Insertable({keys[j] : j \in 1..i - 1}, keys[i])
        /\ Attachable({keys[j] : j \in 1..Len(keys)}, keys[i])

----------------------------------------------------------------------------
\* The flag of an argument, and the id clap knows it by.  Words are joined by
\* "_" in a name and by "-" in a flag: a name of one word is written alike.
Written(prefix, words, joint) ==
    [prefix |-> prefix, words |-> words, joint |-> IF Len(words) = 1 THEN "" ELSE joint]

LongFlag(scope, name, arg) ==
    IF LongOverride(arg) # << >> THEN LongOverride(arg)[1] ELSE Written(scope, name, "-")

ClapId(scope, name, arg) ==
    IF scope = << >> THEN Written(scope, name, "_") ELSE LongFlag(scope, name, arg)

\* arg_to_clap; `range` is num_args, `missing` the value of a flag without one,
\* which require_equals makes stand for itself whatever follows.
AtMost == 9        \* `num_args(0..)`
MayBeBare(arg) == arg.kind = "boolean" \/ (arg.kind = "string" /\ arg.bare # << >>)
RequiresEqualsNever(arg) == FALSE
RequiresEquals(arg) == MayBeBare(arg)
ArgToClap(scope, name, arg) ==
    [id |-> ClapId(scope, name, arg), long |-> LongFlag(scope, name, arg),
     place |-> CASE arg.kind = "positional" -> "index"
                 [] arg.kind = "trailing_var_args" -> "last" [] OTHER -> "flag",
     required |-> IsRequired(arg), defaults |-> DefaultTexts(arg),
     parser |-> Parser(arg), values |-> arg.values,
     range |-> CASE arg.kind = "positional" -> arg.range
                 [] arg.kind = "trailing_var_args" -> <<0, AtMost>>
                 [] MayBeBare(arg) \/ arg.kind = "boolean_list" -> <<0, 1>> [] OTHER -> <<1, 1>>,
     equals |-> RequiresEquals(arg),
     missing |-> IF Parser(arg) = "bool" THEN << "true" >> ELSE arg.bare,
     append |-> arg.kind \in Lists]

\* with_override: what config.axl set is the default, and nothing is required;
\* the first form forgets the latter.
WithOverrideRequired(clap, arg, texts) ==
    IF arg.kind \in Lists \cup {"trailing_var_args"} THEN [clap EXCEPT !.defaults = texts]
    ELSE IF texts = << >> THEN clap ELSE [clap EXCEPT !.defaults = << texts[1] >>]

WithOverride(clap, arg, texts) ==
    [IF arg.kind \in Lists \cup {"trailing_var_args"} THEN [clap EXCEPT !.defaults = texts]
     ELSE IF texts = << >> THEN clap ELSE [clap EXCEPT !.defaults = << texts[1] >>]
     EXCEPT !.required = FALSE]

\* feature_block: scalars only, and numbers only when they are numbers.
Baked(arg, over) ==
    IF over = << >> \/ arg.kind \notin {"boolean", "string", "int", "uint"} THEN arg
    ELSE IF arg.kind = "boolean"
         THEN [arg EXCEPT !.default = << << IF over[1] = "true" THEN "true" ELSE "false" >> >>]
    ELSE IF Parses(Parser(arg), over[1]) THEN [arg EXCEPT !.default = << << over[1] >> >>] ELSE arg

FeatureBlock(args, overrides) ==
    [n \in Exposed(args) |->
        IF n \in DOMAIN overrides THEN Baked(args[n], Texts(overrides[n])) ELSE args[n]]

TaskFlags(args, overrides) ==
    {IF n \in DOMAIN overrides
     THEN WithOverride(ArgToClap(<< >>, n, args[n]), args[n], Texts(overrides[n]))
     ELSE ArgToClap(<< >>, n, args[n]) : n \in Exposed(args)}

\* task_command: the task's own flags and those of every feature.
TaskCommand(task, features) ==
    TaskFlags(task.args, task.overrides)
    \cup UNION {LET f == features[i]
                    block == FeatureBlock(f.args, f.overrides)
                IN  {ArgToClap(<< f.name >>, n, block[n]) : n \in DOMAIN block} :
                i \in 1..Len(features)}

----------------------------------------------------------------------------
\* clap: a command line is a sequence of words [is, flag, text]: a flag, a flag
\* with its value, a plain word, or the dashes before the trailing arguments.
Flag(f) == [is |-> "flag", flag |-> f, text |-> ""]
FlagEq(f, t) == [is |-> "eq", flag |-> f, text |-> t]
Word(t) == [is |-> "word", flag |-> << >>, text |-> t]
Dashes == [is |-> "dashes", flag |-> << >>, text |-> ""]

\* While it is read: the values seen by id, the flag that waits for a value.
Pushed(s, a, t) ==
    LET before == IF a.id \in DOMAIN s.seen THEN s.seen[a.id] ELSE << >>
    IN  [s EXCEPT !.seen = [id \in DOMAIN s.seen \cup {a.id} |->
                                IF id = a.id THEN Append(before, t) ELSE s.seen[id]],
                  !.waits = << >>,
                  !.bad = @ \/ (a.place = "flag" /\ before # << >> /\ ~a.append)]
Closed1(s) ==
    IF s.waits = << >> THEN s
    ELSE IF s.waits[1].range[1] = 0 THEN Pushed(s, s.waits[1], s.waits[1].missing[1])
    ELSE [s EXCEPT !.bad = TRUE, !.waits = << >>]

ReadWord(flags, s, w) ==
    LET in(place) == {a \in flags : a.place = place}
        place == IF s.trailing /\ in("last") # {} THEN "last" ELSE "index"
        open == Closed1(s)
    IN  CASE w.is = "word" ->
               IF s.waits # << >> THEN Pushed(s, s.waits[1], w.text)
               ELSE IF in(place) = {} THEN [s EXCEPT !.bad = TRUE]
               ELSE Pushed(s, CHOOSE a \in in(place) : TRUE, w.text)
          [] w.is = "dashes" -> [open EXCEPT !.trailing = TRUE]
          [] OTHER ->
               LET named == {a \in in("flag") : a.long = w.flag}
                   a == CHOOSE x \in named : TRUE
               IN  IF named = {} THEN [open EXCEPT !.bad = TRUE]
                   ELSE IF w.is = "eq" THEN Pushed(open, a, w.text)
                   ELSE IF a.equals THEN Pushed(open, a, a.missing[1])
                   ELSE [open EXCEPT !.waits = << a >>]

Read(flags, words) ==
    Closed1(FoldLeft(LAMBDA s, w : ReadWord(flags, s, w),
                     [seen |-> << >>, waits |-> << >>, trailing |-> FALSE, bad |-> FALSE],
                     words))

Takes(a, text) == Parses(a.parser, text) /\ (a.values # << >> => text \in a.values[1])

\* get_matches: refused, or the texts of each id and where they are from.
Usable(flags, words) ==
    LET s == Read(flags, words)
    IN  /\ ~s.bad
        /\ \A a \in flags :
              IF a.id \in DOMAIN s.seen
              THEN /\ \A i \in 1..Len(s.seen[a.id]) : Takes(a, s.seen[a.id][i])
                   /\ a.place # "flag" => Len(s.seen[a.id]) \in a.range[1]..a.range[2]
              ELSE ~a.required /\ \A i \in 1..Len(a.defaults) : Takes(a, a.defaults[i])

MatchesOf(flags, words) ==
    LET s == Read(flags, words)
    IN  [id \in {a.id : a \in flags} |->
            IF id \in DOMAIN s.seen THEN [texts |-> s.seen[id], typed |-> TRUE]
            ELSE [texts |-> (CHOOSE a \in flags : a.id = id).defaults, typed |-> FALSE]]

----------------------------------------------------------------------------
\* clap_to_value
ClapToValue(arg, texts) ==
    IF arg.kind \in Lists \cup Positionals
    THEN List([i \in 1..Len(texts) |-> Parsed(Parser(arg), texts[i])])
    ELSE Parsed(Parser(arg), IF texts = << >> THEN Zero(arg.kind)[1] ELSE texts[1])

\* merge_args: what was typed, else what config.axl set, else the default; the
\* first form lets config.axl win.
MergeArgsConfigFirst(args, overrides, matches, scope) ==
    [values |->
        [n \in DOMAIN args |->
            IF n \in DOMAIN overrides THEN overrides[n]
            ELSE IF IsCliExposed(args[n])
                 THEN ClapToValue(args[n], matches[ClapId(scope, n, args[n])].texts)
            ELSE CustomDefault(args[n])],
     explicit |-> {n \in Exposed(args) : matches[ClapId(scope, n, args[n])].typed}]

MergeArgs(args, overrides, matches, scope) ==
    LET typed(n) == IsCliExposed(args[n]) /\ matches[ClapId(scope, n, args[n])].typed
    IN  [values |->
            [n \in DOMAIN args |->
                IF n \in DOMAIN overrides /\ ~typed(n) THEN overrides[n]
                ELSE IF IsCliExposed(args[n])
                     THEN ClapToValue(args[n], matches[ClapId(scope, n, args[n])].texts)
                ELSE CustomDefault(args[n])],
         explicit |-> {n \in DOMAIN args : typed(n)}]

----------------------------------------------------------------------------
\* `aspect describe`: the default of an argument, with its type restored.
OverrideAsDefault(arg, texts) ==
    LET typed(t) == IF Parser(arg) = "bool" THEN Scalar("bool", IF t = "true" THEN t ELSE "false")
                    ELSE IF Parser(arg) = "string" THEN Scalar("string", t)
                    ELSE IF t \in Numerals.int \cup Numerals.uint THEN Scalar("int", t)
                    ELSE Scalar("string", t)
    IN  IF arg.kind \in Lists \cup {"positional"}
        THEN List([i \in 1..Len(texts) |-> typed(texts[i])])
        ELSE IF texts = << >> THEN NoneValue ELSE typed(texts[1])

\* The first form leaves list-valued overrides to the schema.
DescribedSchemaDefault(arg, overrides, name) ==
    IF name \in DOMAIN overrides /\ arg.kind \notin Lists
    THEN OverrideAsDefault(arg, Texts(overrides[name]))
    ELSE ClapToValue(arg, DefaultTexts(arg))

DescribedDefault(arg, overrides, name) ==
    IF name \in DOMAIN overrides THEN OverrideAsDefault(arg, Texts(overrides[name]))
    ELSE IF arg.kind = "positional" /\ arg.default = << >> THEN NoneValue
    ELSE IF arg.kind = "trailing_var_args" THEN NoneValue
    ELSE ClapToValue(arg, DefaultTexts(arg))
=============================================================================
