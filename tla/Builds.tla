------------------------------ MODULE Builds -------------------------------
(***************************************************************************)
(* ctx.bazel.build and test: the handles a task makes, binds to one build  *)
(* after the other, iterates and waits for (build.rs, mod.rs).             *)
(*                                                                         *)
(* Of a build's streams there is here what BesReader, Broadcaster and      *)
(* GrpcSink show of them: events are broadcast in order, a subscriber gets *)
(* those of its kinds since it was bound and then the end, and a gRPC      *)
(* sink's thread answers Ok only when all of them were acknowledged.       *)
(* `bld` is all of it:                                                     *)
(*   plan        [handles, calls, stream, exits, most, budget]: the        *)
(*               handles that may be made, the calls of build and how      *)
(*               many, the kinds of the events every build sends, the      *)
(*               codes its client may exit with, the operations            *)
(*   handles     those made                                                *)
(*   builds      those whose client was started                            *)
(*   workers     what writes a sink's file, or uploads, for a build:       *)
(*               [over, outcome] of <<handle, build>>                      *)
(*   thread, on  what the task's thread is blocked in, and on which        *)
(*               handle or build                                           *)
(* and seen is history: the statuses the task was given.                   *)
(***************************************************************************)
EXTENDS Integers, Sequences, FiniteSets, SequencesExt

VARIABLE bld

GrpcSpec(retries, buffer) == [kind |-> "grpc", retries |-> retries, buffer |-> buffer]
FileSpec == [kind |-> "file"]
IteratorSpec(kinds, tick) == [kind |-> "iterator", kinds |-> kinds, tick |-> tick]

\* A filter is given by names and an event has a payload; what is compared is the number
\* that parse_event_kind has for the one and payload_discriminant for the other.
EventKind == [started |-> 5, action |-> 8, finished |-> 11]
PayloadField == [started |-> 5, action |-> 8, finished |-> 11]

\* What bazel.build_events.grpc and iterator accept; an option that is not given is
\* << >>, and so is a filter.
Makeable(spec) ==
    CASE spec.kind = "grpc" -> spec.retries >= 0 /\ \A b \in Range(spec.buffer) : b > 0
      [] spec.kind = "iterator" -> /\ \A t \in Range(spec.tick) : t > 0
                                   /\ \A ks \in Range(spec.kinds) :
                                         ks # {} /\ ks \subseteq DOMAIN EventKind
      [] OTHER -> TRUE

\* The outcome a sink's thread has for its handle: whether it failed, and the events
\* sent and acknowledged, which a file sink leaves at 0.
SinkOutcome(failed, sent, acked) == [failed |-> failed, sent |-> sent, acked |-> acked]
Unset == SinkOutcome(FALSE, 0, 0)

\* An iterator is pending, live, or done; `rx` is that its receiver exists, which is
\* not in the handle while it is waited on.
NewHandle(spec) ==
    [is |-> spec, phase |-> IF spec.kind = "iterator" THEN "Pending" ELSE "Idle",
     build |-> 0, bound |-> 0, outcome |-> Unset,
     rx |-> FALSE, buffer |-> << >>, got |-> << >>, drained |-> FALSE]

\* The reader runs before anything is bound to it: `since` is what it had broadcast then.
NewBuild(c, m) ==
    [child |-> "running", code |-> 0, read |-> m, since |-> m, joined |-> FALSE,
     streams |-> c.streams, reader |-> IF c.events THEN "reading" ELSE "none"]

NewBld(plan) ==
    [plan |-> plan, ops |-> 0, handles |-> << >>, builds |-> << >>, workers |-> << >>,
     thread |-> "free", on |-> 0, seen |-> {}]

\* Operations of the script, one after the other; an error ends the task.
Steps == bld.thread = "free" /\ bld.ops < bld.plan.budget
Go(b) == bld' = [b EXCEPT !.ops = @ + 1]
FailGo(b) == Go([b EXCEPT !.thread = "failed"])

IsSink(h) == h.is.kind # "iterator"
SinksMade == {i \in 1..Len(bld.handles) : IsSink(bld.handles[i])}
Iterators == 1..Len(bld.handles) \ SinksMade

----------------------------------------------------------------------------
MakeHandle ==
    /\ Steps /\ Len(bld.handles) < Len(bld.plan.handles)
    /\ LET spec == bld.plan.handles[Len(bld.handles) + 1]
       IN  IF Makeable(spec)
           THEN Go([bld EXCEPT !.handles = Append(@, NewHandle(spec))])
           ELSE FailGo(bld)

\* bind_file, bind_grpc and bind: a sink that is live, and an iterator that was bound or
\* drained, are refused.  The first form binds again.
BindsAgain(h) == h.phase # "Done"
Binds(h) == h.phase \in {"Idle", "Pending"}

\* The counts of the last time stay until the next wait.
BoundTo(h, n) ==
    [h EXCEPT !.phase = "Live", !.build = n, !.bound = @ + 1, !.outcome.failed = FALSE,
              !.rx = ~IsSink(h)]

\* A list is bound handle by handle, up to the first that is refused.
BindOne(r, i) ==
    LET h == r.b.handles[i]
    IN  IF r.ok /\ Binds(h)
        THEN [r EXCEPT !.b.handles[i] = BoundTo(h, r.n)]
        ELSE [r EXCEPT !.ok = FALSE]
BindAll(r, list, kind) ==
    FoldLeft(BindOne, r, SelectSeq(list, LAMBDA i : bld.handles[i].is.kind = kind))

\* resolve_stdio: `stdio` goes with neither of the others, and no stream that is given was
\* closed; None is /dev/null.
Writable(w) == w # "closed"
StdioResolves(c) ==
    /\ "stdio" \in DOMAIN c.given => DOMAIN c.given = {"stdio"}
    /\ \A slot \in DOMAIN c.given : Writable(c.given[slot])

\* The reader writes for the file sinks, a thread of its own uploads for a gRPC sink.
Manned(b, n) ==
    [b EXCEPT !.workers =
        @ @@ [p \in {<<i, n>> : i \in {j \in SinksMade : b.handles[j].phase = "Live"
                                                       /\ b.handles[j].build = n}}
              |-> [over |-> FALSE, outcome |-> Unset]]]

\* Build::spawn: file sinks before the client is started, iterators and gRPC sinks after,
\* when some events may be gone.  Nothing is undone when it fails.
SpawnResults(c) ==
    LET n == Len(bld.builds) + 1
        files == BindAll([ok |-> TRUE, b |-> bld, n |-> n], c.handles, "file")
        started(m) == [files EXCEPT !.b.builds = Append(@, NewBuild(c, m))]
        all(m) == BindAll(BindAll(started(m), c.handles, "iterator"), c.handles, "grpc")
        gone == IF c.events THEN 0..Len(bld.plan.stream) ELSE {0}
    IN  {[files EXCEPT !.ok = FALSE]}
        \cup IF files.ok THEN {[all(m) EXCEPT !.b = Manned(@, n)] : m \in gone} ELSE {}

\* ctx.bazel.build and ctx.bazel.test.
Spawn ==
    /\ Steps /\ Len(bld.builds) < bld.plan.most
    /\ \E c \in bld.plan.calls :
          /\ Range(c.handles) \subseteq 1..Len(bld.handles)
          /\ IF StdioResolves(c)
             THEN \E r \in SpawnResults(c) : IF r.ok THEN Go(r.b) ELSE FailGo(r.b)
             ELSE FailGo(bld)

----------------------------------------------------------------------------
\* Bazel and the threads of a build.
StreamEnded(n) == bld.builds[n].reader \in {"ended", "failed"}

\* event_kind_in: an event without a payload has no kind that a filter asks for.
Wants(h, k) ==
    LET payload == bld.plan.stream[k]
    IN  \A ks \in Range(h.is.kinds) :
           payload \in DOMAIN PayloadField /\ PayloadField[payload] \in {EventKind[x] : x \in ks}

\* An iterator that is being waited on is subscribed as well.
Broadcast ==
    \E n \in DOMAIN bld.builds :
       LET k == bld.builds[n].read + 1
       IN  /\ bld.builds[n].reader = "reading" /\ k <= Len(bld.plan.stream)
           /\ bld' = [bld EXCEPT
                        !.builds[n].read = k,
                        !.handles = [i \in DOMAIN @ |->
                           IF @[i].rx /\ @[i].build = n /\ Wants(@[i], k)
                           THEN [@[i] EXCEPT !.buffer = Append(@, k)] ELSE @[i]]]

\* With the stream the files are finished.
ReaderEnds ==
    \E n \in DOMAIN bld.builds, how \in {"ended", "failed"} :
       LET b == bld.builds[n]
       IN  /\ b.reader = "reading"
           /\ how = "ended" => b.read = Len(bld.plan.stream) \/ b.child = "exited"
           /\ bld' = [bld EXCEPT
                        !.builds[n].reader = how,
                        !.workers = [p \in DOMAIN @ |->
                           IF p[2] = n /\ bld.handles[p[1]].is.kind = "file"
                           THEN [over |-> TRUE, outcome |-> SinkOutcome(how = "failed", 0, 0)]
                           ELSE @[p]]]

UploadEnds ==
    \E p \in DOMAIN bld.workers :
       LET sent == bld.builds[p[2]].read - bld.builds[p[2]].since
           ends(o) == bld' = [bld EXCEPT !.workers[p] = [over |-> TRUE, outcome |-> o]]
       IN  /\ ~bld.workers[p].over /\ bld.handles[p[1]].is.kind = "grpc"
           /\ \/ StreamEnded(p[2]) /\ ends(SinkOutcome(FALSE, sent, sent))
              \/ \E acked \in 0..sent : ends(SinkOutcome(TRUE, sent, acked))

\* Bazel ends, or a signal ends it.
Killed == -1
ClientExits ==
    \E n \in DOMAIN bld.builds, c \in bld.plan.exits :
       /\ bld.builds[n].child = "running"
       /\ bld' = [bld EXCEPT !.builds[n].child = "exited", !.builds[n].code = c]

----------------------------------------------------------------------------
\* BuildEventSink::wait takes what is live out of the handle before it blocks.
TakeLive(h) == [h EXCEPT !.phase = "Idle"]

WaitForSink ==
    /\ Steps
    /\ \E i \in SinksMade :
          IF bld.handles[i].phase = "Live"
          THEN Go([bld EXCEPT !.handles[i] = TakeLive(@), !.thread = "sink", !.on = i])
          ELSE Go(bld)

\* The first form leaves the counts.
FailureRecorded(h, o) == [h EXCEPT !.outcome.failed = o.failed]
Recorded(h, o) == [h EXCEPT !.outcome = o]

SinkReturns ==
    /\ bld.thread = "sink"
    /\ LET w == bld.workers[<<bld.on, bld.handles[bld.on].build>>]
       IN  /\ w.over
           /\ bld' = [bld EXCEPT !.thread = "free",
                                 !.handles[bld.on] = Recorded(@, w.outcome)]

\* iter_next takes the receiver out of the handle; one that has none is at its end.
IterateEvents ==
    /\ Steps
    /\ \E i \in Iterators :
          IF bld.handles[i].phase = "Live"
          THEN Go([bld EXCEPT !.handles[i].phase = "Pending", !.thread = "next", !.on = i])
          ELSE Go(bld)

Popped(h) == [h EXCEPT !.phase = "Live", !.got = Append(@, Head(h.buffer)), !.buffer = Tail(@)]
Done(h) == [h EXCEPT !.phase = "Done", !.rx = FALSE]

\* What a receive on an empty channel comes to after tick_ms.  The first form takes the
\* silence for the end.
Silenced(h) == Done(h)
Ticked(h) == [h EXCEPT !.phase = "Live"]

NextReturns ==
    /\ bld.thread = "next"
    /\ LET h == bld.handles[bld.on]
           returns(after) == bld' = [bld EXCEPT !.thread = "free", !.handles[bld.on] = after]
       IN  \/ h.buffer # << >> /\ returns(Popped(h))
           \/ h.buffer = << >> /\ h.is.tick # << >> /\ returns(Ticked(h))
           \/ h.buffer = << >> /\ StreamEnded(h.build) /\ returns(Done(h))

TryPop ==
    /\ Steps
    /\ \E i \in Iterators :
          LET h == bld.handles[i]
          IN  Go([bld EXCEPT !.handles[i] =
                    IF h.phase # "Live" THEN h
                    ELSE IF h.buffer # << >> THEN Popped(h)
                    ELSE IF StreamEnded(h.build) THEN Done(h) ELSE h])

DrainIterator ==
    /\ Steps
    /\ \E i \in Iterators :
          Go([bld EXCEPT !.handles[i] =
                IF @.phase = "Done" THEN @
                ELSE [Done(@) EXCEPT !.buffer = << >>, !.drained = TRUE]])

----------------------------------------------------------------------------
\* execution_logs() and workspace_events() of a build, whose streams wait() takes.
OpenStream ==
    /\ Steps
    /\ \E n \in DOMAIN bld.builds, k \in {"execlog", "workspace"} :
          IF k \in bld.builds[n].streams THEN Go(bld) ELSE FailGo(bld)

\* A client that a signal ended has no code.
BuildStatus(exit) ==
    [success |-> exit = 0, code |-> IF exit = Killed THEN << >> ELSE << exit >>]
StatusGiven(b, n) == [b EXCEPT !.seen = @ \cup {<<n, BuildStatus(b.builds[n].code)>>}]

TryWaitForBuild ==
    /\ Steps
    /\ \E n \in DOMAIN bld.builds :
          Go(IF bld.builds[n].child = "exited" THEN StatusGiven(bld, n) ELSE bld)

WaitForBuild ==
    /\ Steps
    /\ \E n \in DOMAIN bld.builds : Go([bld EXCEPT !.thread = "child", !.on = n])

ClientReaped ==
    /\ bld.thread = "child" /\ bld.builds[bld.on].child = "exited"
    /\ bld' = [bld EXCEPT !.thread = "join"]

\* The reader is joined once, and its error ends the first wait; so can a stream's.  The
\* first form does not wait for it.
ReaderLeft(b) == TRUE
ReaderJoined(b) == b.joined \/ b.reader # "reading"

BuildJoined ==
    /\ bld.thread = "join"
    /\ LET b == bld.builds[bld.on]
           then(joined, thread) ==
              [bld EXCEPT !.builds[bld.on] = [b EXCEPT !.joined = TRUE, !.streams = joined],
                          !.thread = thread]
       IN  /\ ReaderJoined(b)
           /\ \/ b.reader = "failed" /\ ~b.joined /\ bld' = then(b.streams, "failed")
              \/ b.streams # {} /\ bld' = then({}, "failed")
              \/ /\ b.reader # "failed" \/ b.joined
                 /\ bld' = StatusGiven(then({}, "free"), bld.on)

BuildStep ==
    \/ MakeHandle \/ Spawn \/ Broadcast \/ ReaderEnds \/ UploadEnds \/ ClientExits
    \/ WaitForSink \/ SinkReturns \/ IterateEvents \/ NextReturns \/ TryPop \/ DrainIterator
    \/ OpenStream \/ TryWaitForBuild \/ WaitForBuild \/ ClientReaped \/ BuildJoined

----------------------------------------------------------------------------
\* A sink that says it is done speaks of the last build it was bound to, whatever it
\* said before: of a thread that has ended, with what that found (build.rs:399).
WaitedFor(i) ==
    /\ i \in SinksMade /\ bld.handles[i].bound > 0 /\ bld.handles[i].phase = "Idle"
    /\ ~(bld.thread = "sink" /\ bld.on = i)
SinkSpeaksOfItsBuild ==
    \A i \in DOMAIN bld.handles :
       WaitedFor(i) =>
          LET w == bld.workers[<<i, bld.handles[i].build>>]
          IN  w.over /\ bld.handles[i].outcome = w.outcome

\* However a handle goes from build to build, no upload and no file of it is left that
\* nobody can wait for (build.rs:264).
EveryUploadIsWaitedFor ==
    \A p \in DOMAIN bld.workers :
       LET h == bld.handles[p[1]]
       IN  ~bld.workers[p].over =>
              /\ h.build = p[2]
              /\ h.phase = "Live" \/ (bld.thread = "sink" /\ bld.on = p[1])

\* An iterator gives the events of its kinds since it was bound, each once and in order,
\* through ticks and try_pop; unless it was drained, its end is that of the stream (build.rs:556).
IteratorIsWhole ==
    \A i \in DOMAIN bld.handles :
       LET h == bld.handles[i]
           n == h.build
       IN  ~IsSink(h) /\ n > 0 /\ ~h.drained =>
              /\ h.got \o h.buffer =
                    LET s == bld.builds[n].since
                    IN  SelectSeq([k \in 1..(bld.builds[n].read - s) |-> s + k],
                                  LAMBDA k : \A ks \in Range(h.is.kinds) : bld.plan.stream[k] \in ks)
              /\ h.phase = "Done" => StreamEnded(n) /\ h.buffer = << >>

\* A status is the client's, and after wait() the files of that build are written
\* (build.rs:1121).
WaitMeansOver ==
    /\ \A s \in bld.seen :
          LET b == bld.builds[s[1]]
          IN  /\ b.child = "exited" /\ s[2].success = (b.code = 0)
              /\ b.code # Killed => s[2].code = << b.code >>
    /\ \A p \in DOMAIN bld.workers :
          bld.builds[p[2]].joined /\ bld.handles[p[1]].is.kind = "file" => bld.workers[p].over

BuildsSound ==
    SinkSpeaksOfItsBuild /\ EveryUploadIsWaitedFor /\ IteratorIsWhole /\ WaitMeansOver
=============================================================================
