----------------------------- MODULE TraitTypes -----------------------------
(***************************************************************************)
(* trait(), attr() and the instances they make (engine/trait.rs), as a     *)
(* script uses them, with ctx.traits (trait_map.rs).                       *)
(*                                                                         *)
(* A value is [is, at]: a number or a text, or what is at a place of the   *)
(* heap, or a trait.  `trt` is all of it:                                  *)
(*   plan         [module, ops, traits, budget]: the text of the module,   *)
(*                what the task may do and how often, the task's traits    *)
(*   heap         lists, dicts and instances: [items, typ, frozen]         *)
(*   types        each call of trait(): its fields, [name, typ, default]   *)
(*   names        what the variables hold                                  *)
(*   map          ctx.traits: << >> until somebody reads or writes         *)
(*   thread, ops  whether the script has failed, and how far it is         *)
(* and lent, grown, puts, got, compared and sealed are history: containers *)
(* the script put into an instance itself, those it changed, what it       *)
(* stored in ctx.traits and read from it, what == said, and the heap as    *)
(* the module left it.                                                     *)
(***************************************************************************)
EXTENDS Integers, Sequences, FiniteSets, SequencesExt, TLC

VARIABLE trt

Ref(is, at) == [is |-> is, at |-> at]
IsContainer(v) == v.is \in {"list", "dict"}
Literals == [one |-> Ref("int", 1), word |-> Ref("str", 1)]

Bound(s, x, v) == [s EXCEPT !.names = x :> v @@ @]
Errs(s) == [s EXCEPT !.thread = "failed"]
Allocated(s, is, typ, items) ==
    [heap |-> Append(s.heap, [items |-> items, typ |-> typ, frozen |-> FALSE]),
     value |-> Ref(is, Len(s.heap) + 1)]

\* TypeCompiled::matches: containers by all they hold, an instance by the id of its trait.
RECURSIVE Matches(_, _, _)
Matches(heap, v, t) ==
    \/ t.is = "any"
    \/ v.is = t.is /\ ~IsContainer(v) /\ (v.is = "instance" => heap[v.at].typ = t.at)
    \/ v.is = t.is /\ IsContainer(v) /\ \A i \in DOMAIN heap[v.at].items :
                                           Matches(heap, heap[v.at].items[i], t.of)

\* A type that is written as a trait means its instances.
FieldType(s, t) == IF "trait" \in DOMAIN t THEN Ref("instance", s.names[t.trait].at) ELSE t

\* attr(): its default is kept as it is, and has to fit.
AttrOf(s, f) ==
    [name |-> f.name, typ |-> FieldType(s, f.typ),
     default |-> IF f.default = "" THEN << >> ELSE << s.names[f.default] >>]
AttrFits(s, f) == \A d \in Range(f.default) : Matches(s.heap, d, f.typ)

\* trait(): a new id for every call.
TraitDeclared(s, o) ==
    LET fields == [i \in DOMAIN o.fields |-> AttrOf(s, o.fields[i])]
    IN  IF \A f \in Range(fields) : AttrFits(s, f)
        THEN Bound([s EXCEPT !.types = Append(@, fields)], o.to, Ref("trait", Len(s.types) + 1))
        ELSE Errs(s)

\* copy_default_value: the container, and not what is in it.  The first form forgets one
\* kind of container.
CopiesLists(v) == v.is = "list"
Copies(v) == IsContainer(v)
CopyOf(s, v) ==
    IF Copies(v) THEN Allocated(s, v.is, 0, s.heap[v.at].items) ELSE [heap |-> s.heap, value |-> v]

\* The fields in their order, each from what is given or from its default.
Filled(s, id, given) ==
    FoldLeft(LAMBDA r, f :
                LET c == IF f.name \in DOMAIN given
                         THEN [heap |-> r.heap, value |-> given[f.name]]
                         ELSE CopyOf(r, Head(f.default))
                IN  [heap |-> c.heap, values |-> Append(r.values, c.value)],
             [heap |-> s.heap, values |-> << >>], s.types[id])

FieldNames(fields) == {fields[i].name : i \in DOMAIN fields}
AllGiven(fields, given) ==
    /\ DOMAIN given \subseteq FieldNames(fields)
    /\ \A i \in DOMAIN fields : fields[i].default # << >> \/ fields[i].name \in DOMAIN given

\* invoke: the heap with the instance, and whether there is one.
Instantiated(s, id, given) ==
    LET fields == s.types[id]
        r == Filled(s, id, given)
        fits == \A i \in DOMAIN fields : Matches(r.heap, r.values[i], fields[i].typ)
    IN  IF AllGiven(fields, given) /\ fits
        THEN [ok |-> TRUE] @@ Allocated(r, "instance", id, r.values)
        ELSE [ok |-> FALSE]

\* construct_default_instance
WithDefaults(s, id) == Instantiated(s, id, << >>)

\* What the script gives it gives away.
LentTo(s, vs) == [s EXCEPT !.lent = @ \cup {v \in vs : IsContainer(v)}]

TraitMade(s, o) ==
    LET given == [f \in DOMAIN o.given |-> s.names[o.given[f]]]
        r == Instantiated(s, s.names[o.on].at, given)
    IN  IF r.ok THEN Bound([LentTo(s, Range(given)) EXCEPT !.heap = r.heap], o.to, r.value)
        ELSE Errs(s)

----------------------------------------------------------------------------
FieldAt(s, v, name) ==
    LET fields == s.types[s.heap[v.at].typ]
    IN  {i \in DOMAIN fields : fields[i].name = name}
HasField(s, v, name) == v.is = "instance" /\ FieldAt(s, v, name) # {}
Index(s, v, name) == CHOOSE i \in FieldAt(s, v, name) : TRUE

\* get_attr.  An instance and its type may be frozen, together or the type alone.
ReadOf(s, o) ==
    LET v == s.names[o.on]
    IN  IF HasField(s, v, o.field)
        THEN Bound(s, o.to, s.heap[v.at].items[Index(s, v, o.field)])
        ELSE Errs(s)

\* set_attr, which a frozen instance has not.  The first forms trust the script, and give
\* both kinds of instances the one set_attr.
FitsAny(heap, v, t) == TRUE
Fits(heap, v, t) == Matches(heap, v, t)
UnlockedAll(object) == TRUE
Unlocked(object) == ~object.frozen

Assigned(s, o) ==
    LET v == s.names[o.on]
        new == s.names[o.from]
        i == Index(s, v, o.field)
    IN  IF /\ HasField(s, v, o.field) /\ Unlocked(s.heap[v.at])
           /\ Fits(s.heap, new, s.types[s.heap[v.at].typ][i].typ)
        THEN [LentTo(s, {new}) EXCEPT !.heap[v.at].items[i] = new]
        ELSE Errs(s)

\* ==: of one trait, and equal in every field.  The first form looks at the fields only.
AnyKin(a, b) == TRUE
SameTrait(a, b) == a.typ = b.typ

RECURSIVE Equals(_, _, _)
Equals(heap, a, b) ==
    \/ a = b
    \/ /\ a.is = b.is /\ (IsContainer(a) \/ a.is = "instance")
       /\ a.is = "instance" => SameTrait(heap[a.at], heap[b.at])
       /\ Len(heap[a.at].items) = Len(heap[b.at].items)
       /\ \A i \in DOMAIN heap[a.at].items : Equals(heap, heap[a.at].items[i], heap[b.at].items[i])

\* What a value is made of, wherever it lies.
RECURSIVE Content(_, _)
Content(heap, v) ==
    IF IsContainer(v) \/ v.is = "instance"
    THEN [is |-> v.is, typ |-> heap[v.at].typ,
          items |-> [i \in DOMAIN heap[v.at].items |-> Content(heap, heap[v.at].items[i])]]
    ELSE v

Compared(s, o) ==
    LET a == s.names[o.on]
        b == s.names[o.from]
    IN  [s EXCEPT !.compared = @ \cup {[says |-> Equals(s.heap, a, b),
                                        is |-> Content(s.heap, a) = Content(s.heap, b)]}]

\* Lists and dicts of the language: a display, append, the first item.
Displayed(s, o) ==
    LET r == Allocated(s, o.op, 0, [i \in DOMAIN o.of |-> s.names[o.of[i]]])
    IN  Bound([s EXCEPT !.heap = r.heap], o.to, r.value)
Appended(s, o) ==
    LET v == s.names[o.on]
    IN  IF IsContainer(v) /\ ~s.heap[v.at].frozen
        THEN [LentTo(s, {s.names[o.from]}) EXCEPT
                !.heap[v.at].items = Append(@, s.names[o.from]), !.grown = @ \cup {v.at}]
        ELSE Errs(s)
First(s, o) ==
    LET v == s.names[o.on]
    IN  IF IsContainer(v) /\ s.heap[v.at].items # << >>
        THEN Bound(s, o.to, Head(s.heap[v.at].items)) ELSE Errs(s)

----------------------------------------------------------------------------
\* ctx.traits[T]: the instance, made by whoever reads it first.  The first form makes one
\* for every read.
Forgotten(map, id, v) == map
Remembered(map, id, v) == [map EXCEPT ![id] = <<v>>]

TraitAt(s, o) ==
    LET id == s.names[o.on].at
        r == WithDefaults(s, id)
        Gotten(v) == [Bound(s, o.to, v) EXCEPT !.got = @ \cup {<<id, v>>}]
    IN  IF s.names[o.on].is # "trait" \/ id \notin DOMAIN s.map THEN Errs(s)
        ELSE IF s.map[id] # << >> THEN Gotten(Head(s.map[id]))
        ELSE IF ~r.ok THEN Errs(s)
        ELSE [Gotten(r.value) EXCEPT !.heap = r.heap, !.map = Remembered(@, id, r.value)]

\* ctx.traits[T] = v, whatever v is.
StoredTrait(s, o) ==
    LET id == s.names[o.on].at
    IN  IF s.names[o.on].is # "trait" THEN Errs(s)
        ELSE [s EXCEPT !.map = id :> << s.names[o.from] >> @@ @,
                       !.puts = id :> s.names[o.from] @@ @,
                       !.got = {g \in @ : g[1] # id}]

\* T in ctx.traits, which makes nothing.
AskedTrait(s, o) ==
    LET v == s.names[o.on]
    IN  Bound(s, o.to, Ref("bool", IF v.is = "trait" /\ v.at \in DOMAIN s.map THEN 1 ELSE 0))

Statement(s, o) ==
    CASE o.op = "trait" -> TraitDeclared(s, o)
      [] o.op = "make" -> TraitMade(s, o)
      [] o.op = "read" -> ReadOf(s, o)
      [] o.op = "assign" -> Assigned(s, o)
      [] o.op = "compare" -> Compared(s, o)
      [] o.op \in {"list", "dict"} -> Displayed(s, o)
      [] o.op = "push" -> Appended(s, o)
      [] o.op = "first" -> First(s, o)
      [] o.op = "at" -> TraitAt(s, o)
      [] o.op = "put" -> StoredTrait(s, o)
      [] o.op = "in" -> AskedTrait(s, o)

Sealed(object) == [object EXCEPT !.frozen = TRUE]

\* The types freeze with the defaults of their fields, and with all that a module holds.
Frozen(heap) == [i \in DOMAIN heap |-> Sealed(heap[i])]

\* The module is evaluated and frozen before the task runs; of each of the task's traits
\* the map has an entry, and no instance.
NewTrt(plan) ==
    LET s == FoldLeft(LAMBDA r, o : IF r.thread = "failed" THEN r ELSE Statement(r, o),
                      [plan |-> plan, heap |-> << >>, types |-> << >>, names |-> Literals,
                       map |-> << >>, thread |-> "free", ops |-> 0, lent |-> {}, grown |-> {},
                       puts |-> << >>, got |-> {}, compared |-> {}, sealed |-> << >>],
                      plan.module)
    IN  [s EXCEPT !.heap = Frozen(@), !.sealed = Frozen(s.heap),
                  !.map = [id \in {s.names[x].at : x \in plan.traits} |-> << >>]]

Operands(o) ==
    {o[k] : k \in DOMAIN o \cap {"on", "from"}}
    \cup (IF "given" \in DOMAIN o THEN Range(o.given) ELSE {})
    \cup (IF "of" \in DOMAIN o THEN Range(o.of) ELSE {})
    \cup (IF "fields" \in DOMAIN o THEN {f.default : f \in Range(o.fields)} \ {""} ELSE {})

TraitStep ==
    /\ trt.thread = "free" /\ trt.ops < trt.plan.budget
    /\ \E o \in trt.plan.ops :
          /\ Operands(o) \subseteq DOMAIN trt.names
          /\ trt' = [Statement(trt, o) EXCEPT !.ops = @ + 1]

----------------------------------------------------------------------------
TraitInstances == {i \in DOMAIN trt.heap : trt.heap[i].typ # 0}

\* The containers one comes to from a value, but not through other instances, and those of
\* them that can still change.
RECURSIVE Reached(_)
Reached(v) ==
    IF IsContainer(v) THEN {v.at} \cup UNION {Reached(w) : w \in Range(trt.heap[v.at].items)}
    ELSE {}
Within(i) == UNION {Reached(v) : v \in Range(trt.heap[i].items)}
Changeable(ids) == {i \in ids : ~trt.heap[i].frozen}

Defaults == UNION {UNION {Range(f.default) : f \in Range(fields)} : fields \in Range(trt.types)}
Lent == UNION {Reached(v) : v \in trt.lent}
NestedInDefaults == UNION {Within(d.at) : d \in {d \in Defaults : IsContainer(d)}}

\* What is changed in one instance does not change in another, nor in the default of those
\* to come (trait.rs:1037), unless the script gave both the same container or the trait was
\* declared in the function that uses it, with containers inside its default.
OwnContainers ==
    \A i \in TraitInstances :
       LET own == Changeable(Within(i) \ (Lent \cup NestedInDefaults))
       IN  /\ \A j \in TraitInstances \ {i} : own \cap Within(j) = {}
           /\ \A d \in Defaults : own \cap Reached(d) = {}

\* A container that comes from a default can be changed, though the default itself was
\* frozen with its module.
DefaultsAreUsable ==
    \A i \in Changeable(TraitInstances) :
       \A v \in Range(trt.heap[i].items) : IsContainer(v) /\ trt.heap[v.at].frozen => v.at \in Lent

\* A field has the type it was declared with, whatever was assigned in which order; what
\* is in a container may have been changed after it was checked.
FieldsKeepTypes ==
    \A i \in TraitInstances :
       \A f \in DOMAIN trt.heap[i].items :
          LET v == trt.heap[i].items[f]
              t == trt.types[trt.heap[i].typ][f].typ
          IN  /\ t.is \in {"any", v.is}
              /\ Matches(trt.heap, v, t) \/ Reached(v) \cap trt.grown # {}

\* Two instances are equal, frozen or not, if they are of the same trait and have the same
\* in them (trait.rs:610 to 900 has four ways to ask).
EqualMeansAlike == \A c \in trt.compared : c.says = c.is

\* What a module leaves is what everybody who loads it finds.
SealedStays == \A i \in DOMAIN trt.sealed : trt.heap[i] = trt.sealed[i]

\* ctx.traits[T] is one instance for all who read it, of T, or what was last stored.
OneInstanceATrait ==
    /\ \A g, h \in trt.got : g[1] = h[1] => g = h
    /\ \A id \in DOMAIN trt.map :
          trt.map[id] # << >> =>
             IF id \in DOMAIN trt.puts THEN trt.map[id] = << trt.puts[id] >>
             ELSE trt.heap[Head(trt.map[id]).at].typ = id

TraitsSound ==
    /\ OwnContainers /\ DefaultsAreUsable /\ FieldsKeepTypes
    /\ EqualMeansAlike /\ SealedStays /\ OneInstanceATrait
=============================================================================
