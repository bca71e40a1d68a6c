----------------------------- MODULE Arguments ------------------------------
(***************************************************************************)
(* The arguments of tasks and features: how args.string(...), task(...),   *)
(* task.alias(...) and feature(...) declare them (engine/arg.rs, task.rs,  *)
(* feature.rs) and the store config.axl writes them to (arguments.rs).     *)
(*                                                                         *)
(* A name is the sequence of its words, a scalar [type, text] with its     *)
(* text as a command line would have it, a list [type, items].             *)
(***************************************************************************)
EXTENDS Naturals, Sequences, SequencesExt

Scalar(type, text) == [type |-> type, text |-> text]
List(items) == [type |-> "list", items |-> items]
NoneValue == Scalar("none", "None")
IsList(v) == v.type = "list"

\* Which texts a number can be read from: i32 and u32 differ on both sides.
Small == {"0", "1", "2", "7", "8", "9"}
Numerals == [int |-> Small \cup {"-1"}, uint |-> Small \cup {"4000000000"}]

Parses(parser, text) ==
    CASE parser = "bool" -> text \in {"true", "false"}
      [] parser \in DOMAIN Numerals -> text \in Numerals[parser]
      [] OTHER -> TRUE
TypeOf(parser) == IF parser = "uint" THEN "int" ELSE parser
Parsed(parser, text) == Scalar(TypeOf(parser), text)

\* UnpackValue: a Starlark value of the wanted type, an integer in its range.
Unpacks(parser, v) == v.type = TypeOf(parser) /\ Parses(parser, v.text)

----------------------------------------------------------------------------
\* Arg.  `default`, `values`, `bare` and `long` hold at most one: the texts of
\* the default, the allowed texts, what a flag without a value stands for, and
\* the flag to use in place of the name.  `type` is of a custom argument only.
Lists == {"string_list", "boolean_list", "int_list", "uint_list"}
Positionals == {"positional", "trailing_var_args"}

Arg(kind) ==
    [kind |-> kind, required |-> FALSE, default |-> << >>, values |-> << >>,
     bare |-> << >>, long |-> << >>, range |-> <<0, 1>>, type |-> "any"]

Parser(arg) ==
    CASE arg.kind \in {"boolean", "boolean_list"} -> "bool"
      [] arg.kind \in {"int", "int_list"} -> "int"
      [] arg.kind \in {"uint", "uint_list"} -> "uint"
      [] OTHER -> "string"

\* An argument without a default has the default of its type.
Zero(kind) ==
    CASE kind = "string" -> << "" >> [] kind = "boolean" -> << "false" >>
      [] kind \in {"int", "uint"} -> << "0" >> [] OTHER -> << >>
DefaultTexts(arg) == IF arg.default = << >> THEN Zero(arg.kind) ELSE arg.default[1]

IsRequired(arg) == arg.kind \notin Positionals \cup {"custom"} /\ arg.required
IsCliExposed(arg) == arg.kind # "custom"
Exposed(args) == {n \in DOMAIN args : IsCliExposed(args[n])}
LongOverride(arg) == IF arg.kind \in Positionals \cup {"custom"} THEN << >> ELSE arg.long
Namespaced(flag) == flag.prefix # << >>

\* args.custom(type): TypeCompiled::matches, and unpack_frozen, which loses a
\* default that is a live container.
TypeMatches(arg, v) == arg.type = "any" \/ v.type = arg.type
CustomDefault(arg) ==
    IF arg.default = << >> \/ IsList(arg.default[1]) THEN NoneValue ELSE arg.default[1]

\* args.string(...) to args.custom(...): what a declaration is refused for.
Declares(arg) ==
    /\ ~(arg.required /\ arg.default # << >>)
    /\ arg.bare # << >> /\ arg.values # << >> => arg.bare[1] \in arg.values[1]
    /\ arg.kind = "custom" /\ arg.default # << >> => TypeMatches(arg, arg.default[1])

\* Arg::with_default
Overlays(arg, v) ==
    CASE arg.kind = "trailing_var_args" -> FALSE
      [] arg.kind = "custom" -> TypeMatches(arg, v)
      [] arg.kind \in Lists \cup {"positional"} ->
            IsList(v) /\ \A i \in 1..Len(v.items) : Unpacks(Parser(arg), v.items[i])
      [] OTHER ->
            /\ Unpacks(Parser(arg), v)
            /\ arg.values # << >> => v.text \in arg.values[1]

Texts(v) == IF IsList(v) THEN [i \in 1..Len(v.items) |-> v.items[i].text] ELSE << v.text >>

WithDefault(arg, v) ==
    [arg EXCEPT !.default = << IF arg.kind = "custom" THEN v ELSE Texts(v) >>]

----------------------------------------------------------------------------
\* What task() and task.alias(defaults = ...) accept.
MaxTaskGroups == 5

TaskDeclares(t) ==
    /\ Len(t.key) <= MaxTaskGroups + 1
    /\ \A n \in DOMAIN t.args :
          /\ Declares(t.args[n])
          /\ LongOverride(t.args[n]) # << >> => ~Namespaced(LongOverride(t.args[n])[1])
    /\ \A n \in DOMAIN t.defaults : n \in DOMAIN t.args /\ Overlays(t.args[n], t.defaults[n])

TaskArgs(t) ==
    [n \in DOMAIN t.args |->
        IF n \in DOMAIN t.defaults THEN WithDefault(t.args[n], t.defaults[n]) ELSE t.args[n]]

\* feature() adds `enabled` and refuses what would break every task.
Enabled == << "enabled" >>

FeatureDeclares(f) ==
    \A n \in DOMAIN f.args :
        /\ Declares(f.args[n]) /\ n # Enabled
        /\ f.args[n].kind \notin Positionals /\ ~IsRequired(f.args[n])

FeatureArgs(f) ==
    [n \in DOMAIN f.args \cup {Enabled} |->
        IF n = Enabled
        THEN [Arg("boolean") EXCEPT !.default = << << IF f.enabled THEN "true" ELSE "false" >> >>]
        ELSE f.args[n]]

\* Arguments::with_schema: a store takes the declared names only.
StoreAcceptsAny(args, name) == TRUE
StoreAccepts(args, name) == name \in DOMAIN args
=============================================================================
