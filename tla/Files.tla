------------------------------- MODULE Files -------------------------------
(***************************************************************************)
(* std.fs: the file system as a task sees it, beside other processes that  *)
(* write to it and threads of its own that read (fs.rs).                   *)
(*                                                                         *)
(* A path is a sequence of names, a file a sequence of bytes, of which     *)
(* "bad" is no UTF-8.  `fil` is all of it:                                 *)
(*   plan          [ops, budget, coming, slow, fresh, dirs]: what the task *)
(*                 may do and how often; the paths others write, and what; *)
(*                 those on which a read blocks until they are whole;      *)
(*                 names for temporary directories; the directories there  *)
(*                 are                                                     *)
(*   tree, nodes   what each path is, and each of these                    *)
(*   readers       the threads of poll_read_to_string, in the order they   *)
(*                 were started, and probes: READ_PROBES, to these         *)
(*   thread, on    what the task's thread is in, and its operation         *)
(* and records, past and given are history: the records written to each    *)
(* file by appending, what each path has held since it was last given to a *)
(* poll, and what length-gated reads gave.                                 *)
(***************************************************************************)
EXTENDS Integers, Sequences, FiniteSets, SequencesExt

VARIABLE fil

Directory == [is |-> "dir", text |-> << >>, executable |-> FALSE]
FileOf(text) == [is |-> "file", text |-> text, executable |-> FALSE]

NewFil(plan) ==
    LET dirs == SetToSeq(plan.dirs \cup {<< >>})
    IN  [plan |-> plan, ops |-> 0, thread |-> "free", on |-> [op |-> "none"],
         tree |-> [p \in Range(dirs) |-> CHOOSE i \in DOMAIN dirs : dirs[i] = p],
         nodes |-> [i \in DOMAIN dirs |-> Directory], used |-> {},
         readers |-> << >>, probes |-> << >>, left |-> plan.coming,
         records |-> << >>, past |-> << >>, given |-> {}]

Is(f, p, kind) == p \in DOMAIN f.tree /\ f.nodes[f.tree[p]].is = kind
Under(f, p) == {q \in DOMAIN f.tree : IsPrefix(p, q)}
CanMake(f, p) == p \notin DOMAIN f.tree /\ Is(f, Front(p), "dir")
TextAt(f, p) == f.nodes[f.tree[p]].text

NodeAdded(f, p, node) ==
    [f EXCEPT !.nodes = Append(@, node), !.tree = p :> Len(f.nodes) + 1 @@ @]
Unlinked(f, ps) == [f EXCEPT !.tree = [p \in DOMAIN @ \ ps |-> @[p]]]

\* fs::read_to_string: the text, or << >> for any error.
TextOf(f, p) ==
    IF Is(f, p, "file") /\ "bad" \notin Range(TextAt(f, p)) THEN << TextAt(f, p) >> ELSE << >>

\* Whoever changes a file leaves a trace of what it holds.
Leaves(f) ==
    fil' = [f EXCEPT !.past = [p \in DOMAIN f.plan.coming |->
                (IF p \in DOMAIN @ THEN @[p] ELSE {}) \cup Range(TextOf(f, p))]]

\* Operations of the script, one after the other; an error ends the task.
Turn(o) == fil.thread = "free" /\ fil.ops < fil.plan.budget /\ o \in fil.plan.ops
Acted(f) == Leaves([f EXCEPT !.ops = @ + 1])
Raised == Acted([fil EXCEPT !.thread = "failed"])
Tries(possible, f) == IF possible THEN Acted(f) ELSE Raised

----------------------------------------------------------------------------
\* What asks and changes nothing: is_dir, is_file, metadata, read_dir, read_link, open,
\* symlink_metadata (a task makes no links, and no path is one), exists ...
Inquire(o) ==
    /\ Turn(o)
    /\ \/ /\ o.op \in {"is_dir", "is_file", "metadata", "open"}
          /\ Tries(o.path \in DOMAIN fil.tree, fil)
       \/ o.op = "read_dir" /\ Tries(Is(fil, o.path, "dir"), fil)
       \/ o.op = "read_link" /\ Raised
SymlinkMetadata(o) ==
    Turn(o) /\ o.op = "symlink_metadata" /\ Tries(o.path \in DOMAIN fil.tree, fil)
Exists(o) == Turn(o) /\ o.op = "exists" /\ Acted(fil)

\* ... the contents of a file, and what answers "" for any error, the beginning up to the
\* first byte that is no UTF-8 included.
ReadToString(o) ==
    Turn(o) /\ o.op = "read_to_string" /\ Tries(TextOf(fil, o.path) # << >>, fil)
TryRead(o) ==
    Turn(o) /\ o.op \in {"try_read_to_string", "try_read_to_string_capped"} /\ Acted(fil)

CreateDir(o) ==
    Turn(o) /\ o.op = "create_dir" /\ Tries(CanMake(fil, o.path), NodeAdded(fil, o.path, Directory))

WithParents(f, p) ==
    FoldLeft(LAMBDA g, n : IF SubSeq(p, 1, n) \in DOMAIN g.tree THEN g
                           ELSE NodeAdded(g, SubSeq(p, 1, n), Directory),
             f, [n \in 1..Len(p) |-> n])
NoFileOn(p) == \A n \in 1..Len(p) : ~Is(fil, SubSeq(p, 1, n), "file")

CreateDirAll(o) ==
    Turn(o) /\ o.op = "create_dir_all" /\ Tries(NoFileOn(o.path), WithParents(fil, o.path))

\* A name nobody has had.
MakeTempDir(o) ==
    /\ Turn(o) /\ o.op = "mkdtemp"
    /\ \E name \in fil.plan.fresh \ fil.used :
          Tries(NoFileOn(o.path),
                [WithParents(fil, Append(o.path, name)) EXCEPT !.used = @ \cup {name}])

HardLink(o) ==
    /\ Turn(o) /\ o.op = "hard_link"
    /\ Tries(Is(fil, o.path, "file") /\ CanMake(fil, o.to),
             [fil EXCEPT !.tree = o.to :> @[o.path] @@ @])

\* What is named again goes with all under it, and replaces a file, or a directory that
\* is empty.
Movable(from, to) ==
    /\ from \in DOMAIN fil.tree /\ Is(fil, Front(to), "dir")
    /\ to = from \/ ~IsPrefix(from, to)
    /\ to \in DOMAIN fil.tree =>
          /\ Is(fil, to, "dir") <=> Is(fil, from, "dir")
          /\ to # from => Under(fil, to) = {to}
Swap(q, old, new) == new \o SubSeq(q, Len(old) + 1, Len(q))
Moved(from, to) ==
    LET ids == [p \in {Swap(q, from, to) : q \in Under(fil, from)} |->
                   fil.tree[Swap(p, to, from)]]
        gone == Under(fil, from) \cup {to}
    IN  [fil EXCEPT !.tree = ids @@ [p \in DOMAIN @ \ gone |-> @[p]]]

\* Two names of one file both stay.
SameFile(p, q) == q \in DOMAIN fil.tree /\ fil.tree[p] = fil.tree[q]

RenamePath(o) ==
    /\ Turn(o) /\ o.op = "rename"
    /\ IF ~Movable(o.path, o.to) THEN Raised
       ELSE Acted(IF SameFile(o.path, o.to) THEN fil ELSE Moved(o.path, o.to))

RemoveFile(o) ==
    Turn(o) /\ o.op = "remove_file" /\ Tries(Is(fil, o.path, "file"), Unlinked(fil, {o.path}))

RemoveDir(o) ==
    /\ Turn(o) /\ o.op = "remove_dir"
    /\ Tries(Is(fil, o.path, "dir") /\ Under(fil, o.path) = {o.path}, Unlinked(fil, {o.path}))

RemoveDirAll(o) ==
    /\ Turn(o) /\ o.op = "remove_dir_all"
    /\ Tries(Is(fil, o.path, "dir"), Unlinked(fil, Under(fil, o.path)))

SetPermissions(o) ==
    /\ Turn(o) /\ o.op = "set_permissions"
    /\ IF o.path \in DOMAIN fil.tree
       THEN Acted([fil EXCEPT !.nodes[fil.tree[o.path]].executable = o.executable])
       ELSE Raised

----------------------------------------------------------------------------
\* Writing is opening, which truncates or makes the file, and then writing what there is
\* to write; others read in between.
CanOpen(f, p) == Is(f, p, "file") \/ CanMake(f, p)
Emptied(f, p) ==
    IF p \in DOMAIN f.tree
    THEN [f EXCEPT !.nodes[f.tree[p]].text = << >>,
                   !.records = [i \in DOMAIN @ \ {f.tree[p]} |-> @[i]]]
    ELSE NodeAdded(f, p, FileOf(<< >>))

\* write, copy and create.  What copy reads it reads after the other is truncated.
OpenToWrite(o) ==
    /\ Turn(o) /\ o.op \in {"write", "copy", "create"}
    /\ IF CanOpen(fil, o.path) /\ (o.op = "copy" => Is(fil, o.from, "file"))
       THEN Acted([Emptied(fil, o.path) EXCEPT
                     !.thread = IF o.op = "create" THEN "free" ELSE o.op, !.on = o])
       ELSE Raised

\* From the beginning, over what others have appended since.
WrittenOver(old, text) == text \o SubSeq(old, Len(text) + 1, Len(old))
WriteAll ==
    /\ fil.thread \in {"write", "copy"}
    /\ LET o == fil.on
           i == fil.tree[o.path]
           f == [fil EXCEPT !.thread = "free", !.records = [n \in DOMAIN @ \ {i} |-> @[n]]]
       IN  IF o.op = "write"
           THEN Leaves([f EXCEPT !.nodes[i].text = WrittenOver(@, o.text)])
           ELSE Leaves([f EXCEPT !.nodes[i].text = WrittenOver(@, TextAt(fil, o.from)),
                                  !.nodes[i].executable = fil.nodes[fil.tree[o.from]].executable])

\* try_append opens, and its write goes where the file ends by then.  The first form
\* writes where it ended.
AtOldEnd(text, end, record) == SubSeq(text, 1, end) \o record
AtItsEnd(text, end, record) == text \o record

TryAppend(o) ==
    /\ Turn(o) /\ o.op = "try_append"
    /\ IF CanOpen(fil, o.path)
       THEN LET f == IF o.path \in DOMAIN fil.tree THEN fil ELSE NodeAdded(fil, o.path, FileOf(<< >>))
                end == Len(TextAt(f, o.path))
            IN  Acted([f EXCEPT !.thread = "append", !.on = [o EXCEPT !.end = end]])
       ELSE Acted(fil)

\* The record in the file, and in its history.
WithRecord(f, p, end, record) ==
    LET i == f.tree[p]
    IN  [f EXCEPT
           !.nodes[i].text = AtItsEnd(@, end, record),
           !.records = i :> (IF i \in DOMAIN @ THEN @[i] ELSE TextAt(f, p)) \o record @@ @]

AppendAll ==
    /\ fil.thread = "append"
    /\ Leaves([WithRecord(fil, fil.on.path, fil.on.end, fil.on.text) EXCEPT !.thread = "free"])

\* Another process appends to a file, or downloads it chunk by chunk.
OthersWrite ==
    \E p \in DOMAIN fil.left :
       /\ fil.left[p] # << >> /\ CanOpen(fil, p)
       /\ LET f == IF p \in DOMAIN fil.tree THEN fil ELSE NodeAdded(fil, p, FileOf(<< >>))
              end == Len(TextAt(f, p))
          IN  Leaves(WithRecord([f EXCEPT !.left[p] = Tail(@)], p, end, Head(fil.left[p])))

----------------------------------------------------------------------------
\* A read of which the caller says how long the file is, or -1.  The first form is
\* content with a beginning.
AcceptsPrefix(text, want) == want < 0 \/ Len(text) <= want
AcceptsWhole(text, want) == want < 0 \/ Len(text) = want
OfLength(text, want) == SelectSeq(text, LAMBDA t : AcceptsWhole(t, want))

GivenTo(f, o, text) ==
    [f EXCEPT !.given = @ \cup {[op |-> o.op, path |-> o.path, want |-> o.want, text |-> t,
                                 held |-> o.path \in DOMAIN f.past /\ t \in f.past[o.path]]
                                   : t \in Range(text)}]

ReadIfComplete(o) ==
    /\ Turn(o) /\ o.op = "read_to_string_if_complete"
    /\ Acted(GivenTo(fil, o, OfLength(TextOf(fil, o.path), o.want)))

----------------------------------------------------------------------------
\* poll_read_to_string.  A result is given once, to whoever asks after it is there; the
\* first form keeps it.
ResultKept(f, p) == f
ResultTaken(f, p) == [f EXCEPT !.probes = [q \in DOMAIN @ \ {p} |-> @[q]]]

PollAnswer(f, o) ==
    LET r == f.readers[f.probes[o.path]]
        taken == GivenTo(ResultTaken(f, o.path), o, r.text)
    IN  IF r.text # << >> THEN [taken EXCEPT !.past[o.path] = {}] ELSE taken

\* What a call comes to that waited for as long as it may.  The first form gives up on
\* the thread.
ProbeDropped(f, p) == ResultTaken(f, p)
ProbeLeft(f, p) == f

PollRead(o) ==
    /\ Turn(o) /\ o.op = "poll_read_to_string"
    /\ IF o.path \in DOMAIN fil.probes
       THEN Acted(IF fil.readers[fil.probes[o.path]].state = "done" THEN PollAnswer(fil, o) ELSE fil)
       ELSE \/ Acted([fil EXCEPT
                        !.readers = Append(@, [path |-> o.path, want |-> o.want,
                                               state |-> "reading", text |-> << >>]),
                        !.probes = o.path :> Len(fil.readers) + 1 @@ @,
                        !.thread = "poll", !.on = o])
            \/ Acted(fil)           \* there is no thread to be had

PollReturns ==
    /\ fil.thread = "poll"
    /\ LET o == fil.on
           done == fil.readers[fil.probes[o.path]].state = "done"
           f == [fil EXCEPT !.thread = "free"]
       IN  Leaves(IF done THEN PollAnswer(f, o) ELSE ProbeLeft(f, o.path))

\* The thread.  On a slow file system it may never get so far.
ProbeReads ==
    \E i \in DOMAIN fil.readers :
       LET r == fil.readers[i]
       IN  /\ r.state = "reading"
           /\ r.path \in fil.plan.slow => fil.left[r.path] = << >>
           /\ Leaves([fil EXCEPT !.readers[i].state = "done",
                                  !.readers[i].text = OfLength(TextOf(fil, r.path), r.want)])

FileStep ==
    \/ \E o \in fil.plan.ops :
          \/ Inquire(o) \/ SymlinkMetadata(o) \/ Exists(o) \/ ReadToString(o) \/ TryRead(o)
          \/ CreateDir(o) \/ CreateDirAll(o)
          \/ MakeTempDir(o) \/ HardLink(o) \/ RenamePath(o) \/ RemoveFile(o) \/ RemoveDir(o) \/ RemoveDirAll(o)
          \/ SetPermissions(o) \/ OpenToWrite(o) \/ TryAppend(o) \/ ReadIfComplete(o)
          \/ PollRead(o)
    \/ WriteAll \/ AppendAll \/ OthersWrite \/ PollReturns \/ ProbeReads

----------------------------------------------------------------------------
\* Whatever is made, moved and removed, what there is can be reached, and from one place
\* if it is a directory.
TreeIsSound ==
    \A p \in DOMAIN fil.tree :
       p # << >> => /\ Is(fil, Front(p), "dir")
                    /\ \A q \in DOMAIN fil.tree :
                          q # p /\ fil.tree[q] = fil.tree[p] => Is(fil, p, "file")

\* A file that is only appended to has every record, whoever writes beside whom
\* (fs.rs:609).
RecordsSurvive == \A i \in DOMAIN fil.records : fil.nodes[i].text = fil.records[i]

\* A read that knows the length gives the file whole or not at all, where all polls of a
\* path know it: neither what a download has brought so far nor what an earlier poll read
\* (fs.rs:210).
WholeOrNothing ==
    \A g \in fil.given : g.want >= 0 => Len(g.text) = g.want

\* What a poll gives was in the file after the last time it gave that (fs.rs:845), and no
\* path has more than one thread that reads it, however long it takes (fs.rs:194).
PollsAreFresh ==
    \A g \in fil.given :
       g.op = "poll_read_to_string" /\ g.path \in DOMAIN fil.plan.coming => g.held
OneReaderAPath ==
    \A i, j \in DOMAIN fil.readers :
       /\ fil.readers[i].path = fil.readers[j].path
       /\ fil.readers[i].state = "reading" /\ fil.readers[j].state = "reading" => i = j

FilesSound ==
    TreeIsSound /\ RecordsSurvive /\ WholeOrNothing /\ PollsAreFresh /\ OneReaderAPath
=============================================================================
