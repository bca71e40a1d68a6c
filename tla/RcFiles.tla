------------------------------ MODULE RcFiles ------------------------------
(***************************************************************************)
(* Reading the `.bazelrc` files of a run command (crates/bazelrc,          *)
(* discover.rs and parse.rs): which files are read, and how imports are    *)
(* followed.  `world` is the environment's choice: what is on disk, and    *)
(* what ctx.bazel.parse_rc() was called with (see MCBazelrc).  A file is a *)
(* sequence of tokenized lines:                                            *)
(*    [is |-> "import", file |-> f]                                        *)
(*    [is |-> "try", file |-> f]                                           *)
(*    [is |-> "gate", gate |-> g, file |-> f]  try-import-if-bazel-version *)
(*    [is |-> "malformed"]         an import with a wrong argument count   *)
(*    [is |-> "option", key |-> k, values |-> <<v, ...>>]                  *)
(* A path stands for the file it leads to, symbolic links followed.        *)
(***************************************************************************)
EXTENDS RunCommand

VARIABLES
    world,
    found,       \* the rc files still to read
    stack,       \* import_stack: [file, next line, source index, gate]
    sources,     \* the files read, in the order of reading
    options,     \* section -> its options, [value, key, source, gate]
    error        \* "" or the error that parse_rc returned

fileVars == <<found, stack, sources, options, error>>

Exists(f) == f \in DOMAIN world.files
Lines(f) == world.files[f]

----------------------------------------------------------------------------
\* discover_rc_files: the places Bazel looks at, then $BAZELRC, then --bazelrc.
Places == <<"system", "workspace", "home">>
AtPlaces ==
    SelectSeq([i \in 1..3 |-> world.at[Places[i]]],
              LAMBDA f : Exists(f) /\ f \notin {world.at[p] : p \in world.no})

Named == world.env \o world.explicit

\* A file that several places lead to is read once, at the first.
Once(files) ==
    LET First(i) == \A j \in 1..i - 1 : files[j] # files[i]
        kept == SelectSeq([i \in 1..Len(files) |-> i], First)
    IN  [k \in 1..Len(kept) |-> files[kept[k]]]

Discover ==
    /\ IF world.ignore
       THEN found' = << >> /\ error' = error
       ELSE IF \A i \in 1..Len(Named) : Exists(Named[i])
       THEN found' = Once(AtPlaces \o Named) /\ error' = error
       ELSE found' = << >> /\ error' = "no rc file"
    /\ UNCHANGED <<stack, sources, options>>

----------------------------------------------------------------------------
\* parse_file.
Top == stack[Len(stack)]
\* Only a file being read makes a cycle; OnStackOrRead refuses a diamond too.
OnStack(f) == \E i \in 1..Len(stack) : stack[i].file = f
OnStackOrRead(f) == \E i \in 1..Len(sources) : sources[i] = f

Cyclic(f) == OnStack(f)

Push(f, gate, below) ==
    /\ stack' = Append(below, [file |-> f, next |-> 1, source |-> Len(sources) + 1,
                               gate |-> gate])
    /\ sources' = Append(sources, f)

Open ==
    /\ stack = << >> /\ found # << >> /\ error = ""
    /\ Push(Head(found), Ungated, << >>)
    /\ found' = Tail(found)
    /\ UNCHANGED <<options, error>>

\* The line at hand is done with; PassedByTwo swallows the one after it.
PassedByTwo == [stack EXCEPT ![Len(stack)].next = @ + 2]

Passed == [stack EXCEPT ![Len(stack)].next = @ + 1]

\* A file imported by the line at hand, its options under `gate`.
ImportFile(f, gate) ==
    IF Cyclic(f)
    THEN error' = "import cycle" /\ UNCHANGED <<stack, sources>>
    ELSE Push(f, gate, Passed) /\ error' = error

Skip == stack' = Passed /\ UNCHANGED <<sources, error>>
Refuse(why) == error' = why /\ UNCHANGED <<stack, sources>>

Import(line) ==
    CASE line.is = "import" ->
            IF Exists(line.file) THEN ImportFile(line.file, Top.gate)
            ELSE Refuse("import not found")
      [] line.is = "try" ->
            IF Exists(line.file) THEN ImportFile(line.file, Top.gate) ELSE Skip
      [] line.is = "gate" ->
            IF Exists(line.file) THEN ImportFile(line.file, line.gate) ELSE Skip
      [] line.is = "malformed" -> Refuse("import arguments")

\* The source an option is filed under: the file last opened, or the one the
\* line stands in.
LastOpened == Len(sources)

SourceOfLine == Top.source

Section(opts, key) == IF key \in DOMAIN opts THEN opts[key] ELSE << >>

File(opts, key, values, source, gate) ==
    (key :> Section(opts, key) \o
        [i \in 1..Len(values) |->
            [value |-> values[i], key |-> key, source |-> source, gate |-> gate]])
    @@ opts

Line ==
    /\ stack # << >> /\ error = "" /\ Top.next <= Len(Lines(Top.file))
    /\ LET line == Lines(Top.file)[Top.next]
       IN  IF line.is = "option"
           THEN /\ options' = File(options, line.key, line.values, SourceOfLine, Top.gate)
                /\ Skip
           ELSE Import(line) /\ UNCHANGED options
    /\ UNCHANGED found

Close ==
    /\ stack # << >> /\ error = "" /\ Top.next > Len(Lines(Top.file))
    /\ stack' = Front(stack)
    /\ UNCHANGED <<found, sources, options, error>>

Read == Open \/ Line \/ Close
AllRead == found = << >> /\ stack = << >> /\ error = ""

FilesInit ==
    /\ found = << >> /\ stack = << >> /\ sources = << >>
    /\ options = << >> /\ error = ""
=============================================================================
