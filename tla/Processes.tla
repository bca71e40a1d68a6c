----------------------------- MODULE Processes -----------------------------
(***************************************************************************)
(* std.process and the streams of std.io: a command, its child and the     *)
(* pipes between the child and the task.                                   *)
(*                                                                         *)
(* The task's thread blocks in reads, writes and waits; the child runs     *)
(* beside it, and blocks on a full pipe or an empty stdin.  `proc` is all  *)
(* of it:                                                                  *)
(*   plan             [stdin, stdout, stderr, script, code, budget]: how   *)
(*                    the command may be configured, what its program does *)
(*                    ("stdout" and "stderr" write there, "stdin" reads to *)
(*                    the end, "fork" leaves a process behind) and its     *)
(*                    exit code, and the task's operations                 *)
(*   cmd, file        the command; the stream of fs.create                 *)
(*   ends             the task's end of each pipe: in the Child ("inner"), *)
(*                    taken from it, closed, or none                       *)
(*   pipe             how much is in each                                  *)
(*   active           the Child still has its process                      *)
(*   child, status    the process; todo is what is left of its script      *)
(*   daemon           what it left behind: writes to come, plus one        *)
(*   thread, on       what the task's thread is blocked in, and on which   *)
(*                    pipe                                                 *)
(* and wrote, got, ended, statuses, text and eof are history: amounts      *)
(* written to a pipe and taken out of it, the outputs the task knows the   *)
(* end of, statuses it was given, who wrote into the file, and that the    *)
(* child met the end of its stdin.                                         *)
(***************************************************************************)
EXTENDS Integers, Sequences, FiniteSets

CONSTANT PipeCap       \* what a pipe holds (64 KiB)

VARIABLE proc

Outputs == {"stdout", "stderr"}
Streams == Outputs \cup {"stdin"}

\* ExitStatus: a code or a signal, never both.
Exit(c) == [code |-> c, signal |-> 0]
Signalled(s) == [code |-> -1, signal |-> s]
Success(s) == s = Exit(0)

NewProc(plan) ==
    [plan |-> plan, ops |-> 0, cmd |-> [k \in Streams |-> "inherit"], file |-> "none",
     active |-> FALSE, ends |-> [k \in Streams |-> "none"], pipe |-> [k \in Streams |-> 0],
     child |-> "none", todo |-> plan.script, killed |-> FALSE, status |-> Exit(0), daemon |-> 0,
     thread |-> "free", on |-> "stdin",
     wrote |-> [k \in Streams |-> 0], got |-> [k \in Streams |-> 0],
     ended |-> {}, statuses |-> {}, text |-> << >>, eof |-> FALSE]

----------------------------------------------------------------------------
\* Operations of the script, one after the other; an error ends the task.
Uses == proc.thread = "free" /\ proc.ops < proc.plan.budget
Does(p) == proc' = [p EXCEPT !.ops = @ + 1]
Raise == Does([proc EXCEPT !.thread = "failed"])
Blocked(p, thread, k) == Does([p EXCEPT !.thread = thread, !.on = k])
Returns(p) == proc' = [p EXCEPT !.thread = "free"]

\* stdio_from: a file stream is taken, and so can be given once.  In the first form
\* the stream keeps its file.
StdioShared(io) == [modes |-> {"null", "piped", "inherit", "file"}, file |-> proc.file]
StdioFrom(io) ==
    [modes |-> {"null", "piped", "inherit"} \cup IF proc.file = "open" THEN {"file"} ELSE {},
     file |-> IF io = "file" THEN "taken" ELSE proc.file]

Configure ==
    /\ Uses /\ proc.child = "none"
    /\ \E k \in Streams :
          LET io == proc.plan[k]
          IN  IF io \in StdioFrom(io).modes /\ (io = "file" => k # "stdin")
              THEN Does([proc EXCEPT !.cmd[k] = io, !.file = StdioFrom(io).file])
              ELSE Raise

\* fs.create, and write and close of the stream it returns.
CreateFile ==
    /\ Uses /\ proc.file = "none" /\ "file" \in {proc.plan[k] : k \in Streams}
    /\ Does([proc EXCEPT !.file = "open"])

WriteFile ==
    /\ Uses /\ proc.file # "none"
    /\ IF proc.file = "open" THEN Does([proc EXCEPT !.text = Append(@, "task")]) ELSE Raise

CloseFile ==
    /\ Uses /\ proc.file # "none"
    /\ IF proc.file = "open" THEN Does([proc EXCEPT !.file = "closed"]) ELSE Raise

----------------------------------------------------------------------------
Spawned(p) ==
    [p EXCEPT !.child = "running",
              !.ends = [k \in Streams |-> IF p.cmd[k] = "piped" THEN "inner" ELSE "none"]]

\* try_spawn.  A command can be spawned again; one child is followed.
SpawnChild ==
    /\ Uses /\ proc.child = "none"
    /\ Raise \/ Does([Spawned(proc) EXCEPT !.active = TRUE])

\* Before it blocks, Child::wait closes the stdin the child object still has.  The first
\* form leaves it.
KeepStdin(p) == p
CloseStdin(p) == [p EXCEPT !.ends.stdin = IF @ = "inner" THEN "closed" ELSE @]

RunStatus ==
    /\ Uses /\ proc.child = "none"
    /\ Raise \/ Blocked(CloseStdin(Spawned(proc)), "status", "stdin")

\* stdout(), stderr() and stdin() of a child: once each.
TakeStream ==
    /\ Uses /\ proc.child # "none"
    /\ \E k \in Streams :
          IF proc.active /\ proc.ends[k] = "inner"
          THEN Does([proc EXCEPT !.ends[k] = "taken"])
          ELSE Raise

\* A child that has exited is not signalled.  The first form does not ask.
KillAnyway(p) == [p EXCEPT !.killed = TRUE, !.status = Signalled(9)]
KillRunning(p) == IF p.child = "running" THEN [p EXCEPT !.killed = TRUE] ELSE p

KillChild ==
    /\ Uses /\ proc.child # "none"
    /\ IF proc.active THEN Does(KillRunning(proc)) ELSE Raise

Given(p) == [p EXCEPT !.statuses = @ \cup {p.status}]

WaitForChild ==
    /\ Uses /\ proc.child # "none"
    /\ IF proc.active THEN Blocked(CloseStdin(proc), "waiting", "stdin") ELSE Raise

\* The thread in status() and wait().
ChildWaited ==
    /\ proc.thread \in {"status", "waiting"} /\ proc.child = "exited"
    /\ Returns(Given(proc))

TryWait ==
    /\ Uses /\ proc.child # "none"
    /\ CASE ~proc.active -> Raise
         [] proc.active /\ proc.child = "exited" -> Does(Given(proc))
         [] OTHER -> Does(proc)

\* wait_with_output consumes the child first.  It reads the pipes the child object
\* still has, both at once; the first form one after the other.
WaitWithOutput ==
    /\ Uses /\ proc.child # "none"
    /\ IF proc.active
       THEN Blocked([CloseStdin(proc) EXCEPT !.active = FALSE], "collecting", "stdin")
       ELSE Raise

AtEnd(k) == proc.pipe[k] = 0 /\ proc.child = "exited" /\ proc.daemon = 0

CollectsInTurn(k) ==
    /\ proc.thread = "collecting" /\ proc.ends[k] = "inner"
    /\ k = "stderr" /\ proc.ends.stdout = "inner" => AtEnd("stdout")
Collects(k) == proc.thread = "collecting" /\ proc.ends[k] = "inner"

Out(p, k) == [p EXCEPT !.pipe[k] = @ - 1, !.got[k] = @ + 1]

Collect ==
    \E k \in Outputs : Collects(k) /\ proc.pipe[k] > 0 /\ proc' = Out(proc, k)

\* Only when nobody can write any more is the output complete.  The first form looks
\* at the child alone.
ExitedAlone(k) == proc.child = "exited"
OutputOver(k) == AtEnd(k)
Collected ==
    LET whole == {k \in Outputs : proc.ends[k] = "inner"}
    IN  /\ proc.thread = "collecting" /\ proc.child = "exited"
        /\ \A k \in whole : OutputOver(k)
        /\ Returns([Given(proc) EXCEPT
                      !.ended = @ \cup whole,
                      !.ends = [k \in Streams |-> IF k \in whole THEN "closed" ELSE @[k]]])

----------------------------------------------------------------------------
\* Streams that were taken: read(size), and read(), read_to_string() and a loop, which
\* go on to the end.
ReadStream ==
    /\ Uses
    /\ \E k \in Outputs : \E how \in {"reading", "reading all"} :
          proc.ends[k] = "taken" /\ Blocked(proc, how, k)

ReadStep ==
    /\ proc.thread \in {"reading", "reading all"}
    /\ LET k == proc.on
       IN  \/ proc.pipe[k] > 0 /\ proc.thread = "reading all" /\ proc' = Out(proc, k)
           \/ proc.pipe[k] > 0 /\ proc.thread = "reading" /\ Returns(Out(proc, k))
           \/ OutputOver(k) /\ proc.pipe[k] = 0 /\ Returns([proc EXCEPT !.ended = @ \cup {k}])

WriteStream ==
    /\ Uses /\ proc.ends.stdin \in {"taken", "dropped"}
    /\ IF proc.ends.stdin = "taken" THEN Blocked(proc, "writing", "stdin") ELSE Raise

WriteStep ==
    /\ proc.thread = "writing"
    /\ \/ /\ proc.child = "exited"
          /\ proc' = [proc EXCEPT !.thread = "failed"]
       \/ /\ proc.child = "running" /\ proc.pipe.stdin < PipeCap
          /\ Returns([proc EXCEPT !.pipe.stdin = @ + 1, !.wrote.stdin = @ + 1])

CloseStream ==
    /\ Uses /\ proc.ends.stdin \in {"taken", "dropped"}
    /\ IF proc.ends.stdin = "taken" THEN Does([proc EXCEPT !.ends.stdin = "dropped"]) ELSE Raise

----------------------------------------------------------------------------
\* The child's program, and who else can act on it.
ChildRuns == proc.child = "running" /\ ~proc.killed
Next1 == IF proc.todo = << >> THEN "exit" ELSE Head(proc.todo)
Proceeds(p) == proc' = [p EXCEPT !.todo = Tail(@)]

StdinOver == proc.pipe.stdin = 0 /\ proc.ends.stdin \notin {"inner", "taken"}

ChildReads ==
    /\ ChildRuns /\ Next1 = "stdin"
    /\ \/ proc.pipe.stdin > 0 /\ proc' = Out(proc, "stdin")
       \/ StdinOver /\ Proceeds([proc EXCEPT !.eof = TRUE])

ChildWrites ==
    /\ ChildRuns /\ Next1 \in Outputs
    /\ LET k == Next1
       IN  CASE proc.cmd[k] = "piped" ->
                  /\ proc.pipe[k] < PipeCap
                  /\ Proceeds([proc EXCEPT !.pipe[k] = @ + 1, !.wrote[k] = @ + 1])
             [] proc.cmd[k] = "file" -> Proceeds([proc EXCEPT !.text = Append(@, "child")])
             [] OTHER -> Proceeds(proc)

ChildForks == ChildRuns /\ Next1 = "fork" /\ Proceeds([proc EXCEPT !.daemon = 2])

ChildExits ==
    \/ /\ ChildRuns /\ Next1 = "exit"
       /\ proc' = [proc EXCEPT !.child = "exited", !.status = Exit(proc.plan.code)]
    \/ /\ proc.child = "running" /\ proc.killed
       /\ proc' = [proc EXCEPT !.child = "exited", !.status = Signalled(9)]

\* Somebody else's signal; what a hung child meets in the end.
ChildTerminated ==
    /\ ChildRuns
    /\ proc' = [proc EXCEPT !.child = "exited", !.status = Signalled(15)]

DaemonRuns ==
    \/ /\ proc.daemon = 2 /\ proc.cmd.stdout = "piped" /\ proc.pipe.stdout < PipeCap
       /\ proc' = [proc EXCEPT !.daemon = 1, !.pipe.stdout = @ + 1, !.wrote.stdout = @ + 1]
    \/ proc.daemon > 0 /\ proc' = [proc EXCEPT !.daemon = 0]

ProcStep ==
    \/ Configure \/ CreateFile \/ WriteFile \/ CloseFile
    \/ SpawnChild \/ RunStatus \/ TakeStream \/ KillChild \/ WaitForChild \/ ChildWaited
    \/ TryWait \/ WaitWithOutput \/ Collect \/ Collected
    \/ ReadStream \/ ReadStep \/ WriteStream \/ WriteStep \/ CloseStream
    \/ ChildReads \/ ChildWrites \/ ChildForks \/ ChildExits \/ ChildTerminated \/ DaemonRuns

----------------------------------------------------------------------------
\* Whatever way the task waits, and as often as it does, it is given the one status the
\* child exited with, and never a success for a child it killed in time
\* (process.rs:352-372).
StatusIsTheChilds ==
    /\ \A s \in proc.statuses : proc.child = "exited" /\ s = proc.status
    /\ proc.killed => \A s \in proc.statuses : ~Success(s)

\* An output whose end the task has seen is complete: nothing is left in the pipe or
\* still to come, also from a process the child left behind (process.rs:396).
OutputIsWhole ==
    \A k \in Outputs :
       k \in proc.ended => proc.got[k] = proc.wrote[k] /\ AtEnd(k)

\* A child that met the end of its stdin has read what the task wrote.
InputArrives == proc.eof => proc.got.stdin = proc.wrote.stdin

\* While the task waits for a child it is not the reason why the child does not end:
\* a child waits for input only if the script took stdin and did not close it, and one
\* whose output is being collected finds room (process.rs:370, :416).
WaitsForOthersOnly ==
    /\ proc.thread \in {"status", "waiting", "collecting"} /\ ChildRuns /\ Next1 = "stdin" =>
          proc.ends.stdin # "inner"
    /\ \A k \in Outputs :
          /\ proc.thread = "collecting" /\ proc.ends[k] = "inner"
          /\ ChildRuns /\ Next1 = k /\ proc.pipe[k] = PipeCap
          => Collects(k)

\* A file that was given to a child is not the script's to write to any more
\* (process.rs:118).
FileIsHandedOver ==
    \A i, j \in 1..Len(proc.text) :
       i < j /\ proc.text[i] = "child" => proc.text[j] = "child"

ProcessesSound ==
    /\ StatusIsTheChilds /\ OutputIsWhole /\ InputArrives
    /\ WaitsForOthersOnly /\ FileIsHandedOver
=============================================================================
