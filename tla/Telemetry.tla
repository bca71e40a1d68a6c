----------------------------- MODULE Telemetry -----------------------------
(***************************************************************************)
(* What becomes of a record of the `trace` builtin and of the spans of the *)
(* phases (engine/telemetry.rs, trace.rs; aspect-cli/src/trace.rs and      *)
(* trace_buffer.rs).  There is nowhere to send them until the exporters    *)
(* are installed, after phase 3, so they are kept in three buffers:        *)
(*                                                                         *)
(*   trace.log   -> EVENT_BUFFER          -> the file sinks                *)
(*               -> batch thread, `logs`  -> the OTLP log exporters        *)
(*   trace.event -> EVENT_BUFFER          -> the file sinks                *)
(*               -> the span of the phase                                  *)
(*   span        -> batch thread, `spans` -> the OTLP span exporters       *)
(*                                                                         *)
(* The state is one record, `t`, and an operator per operation.  A         *)
(* destination is <<index of the spec, "file" | "logs" | "spans">>, and    *)
(* `wire` has what reached each.                                           *)
(***************************************************************************)
EXTENDS Naturals, Sequences, SequencesExt, TLC

CONSTANT BufferCap      \* BUFFER_CAP and FILE_SINK_BUFFER_CAP: 50_000
ASSUME BufferCapAssumption == BufferCap \in Nat \ {0}

Signals == {"traces", "logs", "metrics"}

----------------------------------------------------------------------------
\* exporters.add(url | file, protocol, headers, format, signals): << >> or
\* << the spec >>.  An argument not given is << >>.
Protocol(call) == IF call.protocol = << >> THEN "grpc" ELSE call.protocol[1]
Format(call) == IF call.format = << >> THEN "compact" ELSE call.format[1]

Addable(call) ==
    /\ (call.url = << >>) # (call.file = << >>)
    /\ call.signals \subseteq Signals
    /\ IF call.url # << >>
       THEN /\ call.url[1] # "" /\ call.format = << >>
            /\ Protocol(call) \in {"grpc", "http/protobuf", "http"}
       ELSE /\ call.file[1] # "" /\ call.protocol = << >> /\ call.headers = {}
            /\ Format(call) \in {"compact", "jsonl", "json"}

SpecOf(call) ==
    [kind |-> IF call.url # << >> THEN "otlp" ELSE "file",
     to |-> IF call.url # << >> THEN call.url[1] ELSE call.file[1],
     protocol |-> IF call.url = << >> THEN "" ELSE Protocol(call),
     headers |-> call.headers,
     signals |-> IF call.signals = {} THEN Signals ELSE call.signals]

----------------------------------------------------------------------------
Pipe == [queue |-> << >>, buffer |-> << >>, late |-> << >>, replay |-> << >>,
         replayed |-> FALSE]

Init1 ==
    [active |-> TRUE, sinks |-> << >>, events |-> << >>, drained |-> FALSE,
     pipes |-> [spans |-> Pipe, logs |-> Pipe], open |-> << >>,
     wire |-> << >>,
     emitted |-> << >>, ended |-> << >>, since |-> 0]       \* history

Delivered(wire, dests, records) ==
    [d \in dests |-> (IF d \in DOMAIN wire THEN wire[d] ELSE << >>) \o records] @@ wire

SinkAccepts(spec, r) ==
    IF r.kind = "log" THEN "logs" \in spec.signals ELSE "traces" \in spec.signals

\* write_event_to_sink, for every sink.
WriteToSinks(t, r) ==
    LET takers == {i \in 1..Len(t.sinks) : SinkAccepts(t.sinks[i].spec, r)}
    IN  [t EXCEPT !.wire = Delivered(@, {<<t.sinks[i].index, "file">> : i \in takers}, << r >>)]

LastOf(s, n) == IF Len(s) <= n THEN s ELSE SubSeq(s, Len(s) - n + 1, Len(s))
FirstOf(s, n) == IF Len(s) <= n THEN s ELSE SubSeq(s, 1, n)

\* FileSinksLayer::on_event; OnEventFirst keeps the oldest instead.
OnEventFirst(t, r) ==
    IF t.sinks # << >> THEN WriteToSinks(t, r)
    ELSE IF t.drained THEN t
    ELSE [t EXCEPT !.events = FirstOf(Append(@, r), BufferCap)]

OnEvent(t, r) ==
    IF t.sinks # << >> THEN WriteToSinks(t, r)
    ELSE IF t.drained THEN t
    ELSE [t EXCEPT !.events = LastOf(Append(@, r), BufferCap)]

Noted(t, r) == [OnEvent(t, r) EXCEPT !.emitted = Append(@, r)]
Record(t, kind) == [kind |-> kind, id |-> Len(t.emitted) + 1]

\* trace.log(...)
Log(t) ==
    LET r == Record(t, "log")
    IN  IF ~t.active THEN t
        ELSE [Noted(t, r) EXCEPT !.pipes.logs.queue = Append(@, r)]

\* trace.event(...) within a phase: an event of that phase's span.
Event(t) ==
    LET r == Record(t, "event")
    IN  IF ~t.active THEN t ELSE [Noted(t, r) EXCEPT !.open = Append(@, r)]

\* The span of a phase, or the root span, closes.
Ended(t, span) ==
    [t EXCEPT !.pipes.spans.queue = Append(@, span), !.ended = Append(@, span)]

EndSpan(t, name) == [Ended(t, [name |-> name, events |-> t.open]) EXCEPT !.open = << >>]

----------------------------------------------------------------------------
Minus(a, b) == IF a > b THEN a - b ELSE 0

Buffered(s, buffer, batch) ==
    IF s = "logs" THEN LastOf(buffer \o batch, BufferCap)
    ELSE LET excess == Minus(Len(batch), Minus(BufferCap, Len(buffer)))
         IN  LastOf(buffer, Minus(Len(buffer), excess)) \o batch

Exported(t, s, n, live) ==
    LET p == t.pipes[s]
        batch == SubSeq(p.queue, 1, n)
        rest == [t EXCEPT !.pipes[s].queue = SubSeq(@, n + 1, Len(@))]
    IN  IF live
        THEN [rest EXCEPT !.wire = Delivered(@, {<<i, s>> : i \in Range(p.late)}, batch)]
        ELSE [rest EXCEPT !.pipes[s].buffer = Buffered(s, @, batch)]

\* BufferingSpanExporter::export and BufferingLogExporter::export of the first n
\* records of the batch processor's queue; ExportAfterReplay goes on buffering
\* until the replay is over.
ExportAfterReplay(t, s, n) ==
    Exported(t, s, n, t.pipes[s].replayed /\ t.pipes[s].replay = << >>)

Export(t, s, n) == Exported(t, s, n, t.pipes[s].replayed)

\* install_late: under the lock, and then what was taken goes to the new
\* exporters, without it.
TakeBuffer(t, s, specs) ==
    LET p == t.pipes[s]
    IN  [t EXCEPT !.pipes[s] = [p EXCEPT !.late = p.late \o specs, !.replayed = TRUE,
                                         !.buffer = << >>, !.replay = p.buffer]]

Replay(t, s, specs) ==
    [t EXCEPT !.pipes[s].replay = << >>,
              !.wire = Delivered(@, {<<i, s>> : i \in Range(specs)}, t.pipes[s].replay)]

----------------------------------------------------------------------------
\* What the OTLP crates and the file system refuse: an address or a path that is
\* not one, a header name tonic cannot parse.
Builds(spec) ==
    IF spec.kind = "file" THEN spec.to # "no/such/dir"
    ELSE spec.to # "no url" /\ (spec.protocol = "grpc" => "bad name" \notin spec.headers)

\* An exporter of metrics is built last, when the others are at work.
BuildsInLoop(spec) == Builds(spec) \/ (spec.kind = "otlp" /\ spec.signals = {"metrics"})

\* The indices of some specs, in order.
Those(specs, P(_)) == SelectSeq([i \in 1..Len(specs) |-> i], P)

Wanting(specs, signal) ==
    Those(specs, LAMBDA i : specs[i].kind = "otlp" /\ signal \in specs[i].signals)

\* drain_buffer_to_sinks.
Drain(t) ==
    IF t.drained THEN t
    ELSE FoldLeft(WriteToSinks, [t EXCEPT !.drained = TRUE, !.events = << >>], t.events)

\* discard_buffer.
Discard(t) == [t EXCEPT !.drained = TRUE, !.events = IF t.drained THEN @ ELSE << >>]

\* The loop of install_late_exporters over the specs, then the buffer of the
\* file sinks; DrainedFirst has the two the other way round.
Activate(t, specs) ==
    LET reached(i) == \A j \in 1..i : BuildsInLoop(specs[j])
        files == Those(specs, LAMBDA i : specs[i].kind = "file" /\ reached(i))
    IN  [t EXCEPT !.sinks = @ \o [k \in 1..Len(files) |->
                                    [index |-> files[k], spec |-> specs[files[k]]]]]

LoopFails(specs) == \E i \in 1..Len(specs) : ~BuildsInLoop(specs[i])

AnyFile(specs) == \E i \in 1..Len(specs) : specs[i].kind = "file"

DrainedFirst(t, specs) ==
    LET now0 == [t EXCEPT !.since = Len(t.emitted)]
    IN  IF LoopFails(specs) THEN Activate(now0, specs)
        ELSE IF AnyFile(specs) THEN Activate(Drain(now0), specs) ELSE Discard(now0)

SinksInstalled(t, specs) ==
    LET now0 == [t EXCEPT !.since = Len(t.emitted)]
    IN  IF LoopFails(specs) THEN Activate(now0, specs)
        ELSE IF AnyFile(specs) THEN Drain(Activate(now0, specs)) ELSE Discard(now0)

MetricsFail(specs) ==
    \E i \in 1..Len(specs) :
        specs[i].kind = "otlp" /\ "metrics" \in specs[i].signals /\ ~Builds(specs[i])

\* The root span is dropped, then OtelGuard: the queues are flushed.
Shutdown(t) ==
    LET closed == Ended(t, [name |-> "root", events |-> << >>])
        flushed == Export(closed, "spans", Len(closed.pipes.spans.queue))
    IN  Export(flushed, "logs", Len(flushed.pipes.logs.queue))
=============================================================================
