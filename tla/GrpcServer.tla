----------------------------- MODULE GrpcServer -----------------------------
(***************************************************************************)
(* A gRPC server in a task (engine/grpc), its generated dispatch and the   *)
(* generated client (the service and service_server macros of              *)
(* starbuf-derive).                                                        *)
(*                                                                         *)
(* The task's thread adds services, serves and drains.  Each call runs its *)
(* handler, AXL code, on a blocking thread of its own, which outlives the  *)
(* future tonic awaits when the client goes.  `net` is all of it:          *)
(*   plan                    [path, adds, calls, budget]: the endpoint,    *)
(*                           what the task may add, what clients call, in  *)
(*                           order, and the operations of one handler      *)
(*   services, consumed      the builder                                   *)
(*   path, looked            the Unix socket: whose it is ("tcp": there is *)
(*                           none); the thread is past the look            *)
(*   accept                  the accept loop                               *)
(*   shutdown, done          the handle's two oneshots, while not taken    *)
(*   client                  the generated client of the callers           *)
(*   thread                  what the task's thread is blocked in          *)
(*   calls                   the calls so far, oldest first                *)
(*   removed, drained        history: whose socket was unlinked, and how   *)
(*                           drain_and_quit returned                       *)
(* Of a call, told is what the client got in the end, and pushed, raised,  *)
(* read and value are history of what its handler did.                     *)
(***************************************************************************)
EXTENDS Integers, Sequences, FiniteSets, SequencesExt

CONSTANTS
    StreamCap,     \* responses a stream holds before push blocks (128)
    Uploads        \* messages of an upload

VARIABLE net

\* What the services offer, of each kind of method.
Get == [service |-> "ActionCache", requests |-> FALSE, responses |-> FALSE]
Tree == [service |-> "ContentAddressableStorage", requests |-> FALSE, responses |-> TRUE]
Write == [service |-> "ByteStream", requests |-> TRUE, responses |-> FALSE]

\* A method that streams both ways does not compile.
Kind(m) ==
    CASE m.responses /\ ~m.requests -> "stream"
      [] m.requests /\ ~m.responses -> "upload"
      [] ~m.requests /\ ~m.responses -> "unary"

\* Codes out of range are Unknown.
Ok == 0
Unknown == 2
Unimplemented == 12
Internal == 13
Unavailable == 14
CodeFrom(c) == IF c \in 0..16 THEN c ELSE Unknown

NotTold == << >>
Told(code) == << code >>

NewNet(plan) ==
    [plan |-> plan, services |-> {}, consumed |-> FALSE, path |-> plan.path, looked |-> FALSE,
     client |-> "new", accept |-> "none", shutdown |-> FALSE, done |-> FALSE, thread |-> "free",
     calls |-> << >>, removed |-> {}, drained |-> {}]

----------------------------------------------------------------------------
\* The builder.  An operation that fails fails the task, as any error of AXL does.
NetFails == net' = [net EXCEPT !.thread = "failed"]
Free == net.thread = "free"

AddService ==
    /\ Free
    /\ \E m \in net.plan.adds :
          IF net.consumed \/ m.service \in net.services
          THEN NetFails
          ELSE net' = [net EXCEPT !.services = @ \cup {m.service}]

Consumed == [net EXCEPT !.consumed = TRUE]
Serving(n) ==
    [n EXCEPT !.accept = "accepting", !.shutdown = TRUE, !.done = TRUE,
              !.looked = FALSE, !.thread = "free"]

Serve ==
    /\ Free
    /\ IF net.consumed THEN NetFails
       ELSE net' \in IF net.path = "tcp"
                     THEN {Serving(Consumed), [Consumed EXCEPT !.thread = "failed"]}
                     ELSE {[Consumed EXCEPT !.thread = "binding"]}

\* bind_endpoint of unix://: a socket nobody answers on is removed first.  The first
\* form does not ask.
LookAtNothing ==
    /\ net.thread = "binding" /\ ~net.looked
    /\ net' = [net EXCEPT !.looked = TRUE,
                          !.thread = IF net.path = "none" THEN "binding" ELSE "removing"]

LookAtSocket ==
    /\ net.thread = "binding" /\ ~net.looked
    /\ IF net.path = "rival" THEN NetFails
       ELSE net' = [net EXCEPT !.looked = TRUE,
                               !.thread = IF net.path = "none" THEN "binding" ELSE "removing"]

RemoveSocket ==
    /\ net.thread = "removing"
    /\ net' = [net EXCEPT !.removed = @ \cup {net.path}, !.path = "none", !.thread = "binding"]

BindSocket ==
    /\ net.thread = "binding" /\ net.looked
    /\ IF net.path = "none" THEN net' = Serving([net EXCEPT !.path = "ours"]) ELSE NetFails

\* Another process does the same.
RivalBinds ==
    /\ net.path \in {"none", "stale"} /\ net.thread \in {"binding", "removing"}
    /\ net' = [net EXCEPT !.path = IF net.looked THEN "late rival" ELSE "rival"]

----------------------------------------------------------------------------
\* drain_and_quit: the first call sends the shutdown and waits; `done` is taken
\* before the timeout is looked at.
DrainAndQuit ==
    /\ Free /\ net.consumed /\ net.accept # "none"
    /\ \E timeout \in {"forever", "ms", "not an int"} :
          net' = [net EXCEPT
                    !.shutdown = FALSE, !.done = FALSE,
                    !.accept = IF net.shutdown /\ @ = "accepting" THEN "draining" ELSE @,
                    !.thread = CASE ~net.done -> "free"
                                 [] timeout = "not an int" -> "failed"
                                 [] OTHER -> "drain " \o timeout]

InFlight(c) == c.dispatch = "awaiting" \/ (c.dispatch = "answered" /\ c.receiver)

\* The accept loop returns once every connection is through (the second form); the
\* socket's file stays.
AcceptLoopStops ==
    /\ net.accept = "draining"
    /\ net' = [net EXCEPT !.accept = "over", !.path = IF @ = "ours" THEN "stale" ELSE @]

AcceptLoopOver ==
    /\ net.accept = "draining" /\ \A i \in 1..Len(net.calls) : ~InFlight(net.calls[i])
    /\ net' = [net EXCEPT !.accept = "over", !.path = IF @ = "ours" THEN "stale" ELSE @]

DrainReturns ==
    \/ /\ net.accept = "over" /\ net.thread \in {"drain forever", "drain ms"}
       /\ net' = [net EXCEPT !.thread = "free", !.drained = @ \cup {"served"}]
    \/ /\ net.accept # "over" /\ net.thread = "drain ms"
       /\ net' = [net EXCEPT !.thread = "free", !.drained = @ \cup {"timed out"}]

----------------------------------------------------------------------------
\* The generated client, in some other process: connected once, it sends what
\* the list holds, and gives up at its timeout.
NewCall(m) ==
    [kind |-> Kind(m), client |-> "waiting", sent |-> 0,
     dispatch |-> "awaiting", handler |-> "running", ops |-> 0,
     abort |-> NotTold, cancelled |-> FALSE, knows |-> FALSE,
     uploads |-> "open", read |-> 0, readAll |-> FALSE,
     open |-> FALSE, channel |-> << >>, receiver |-> FALSE, got |-> << >>,
     pushed |-> 0, completed |-> NotTold, raised |-> FALSE, value |-> FALSE,
     told |-> NotTold, unheard |-> FALSE]

\* A stream's dispatch answers at once, with the receiving end of a channel.
Dispatched(m) ==
    IF Kind(m) = "stream"
    THEN [NewCall(m) EXCEPT !.dispatch = "answered", !.open = TRUE, !.receiver = TRUE]
    ELSE NewCall(m)

Refused(m, code) ==
    [NewCall(m) EXCEPT !.client = "over", !.dispatch = "none", !.handler = "none",
                       !.told = Told(code)]

\* A client connects once, lazily, and calls nothing before; a header that is none,
\* like a second connect, raises in it.
ClientConnects ==
    /\ net.consumed /\ net.plan.calls # << >>
    /\ net.client \in {"new", "connected"}
    /\ net' = [net EXCEPT !.client = IF @ = "new" THEN "connected" ELSE "failed"]

Installed(m) == m.service \in net.services
Answer(m) ==
    IF net.accept # "accepting" THEN Refused(m, Unavailable)
    ELSE IF ~Installed(m) THEN Refused(m, Unimplemented)
    ELSE Dispatched(m)

ClientCalls ==
    /\ net.client \in {"new", "connected"} /\ Len(net.calls) < Len(net.plan.calls)
    /\ net.consumed
    /\ \/ net' = [net EXCEPT !.client = "failed"]
       \/ /\ net.client = "connected"
          /\ net' = [net EXCEPT
                       !.calls = Append(@, Answer(net.plan.calls[Len(net.calls) + 1]))]

Now(i, c) == net' = [net EXCEPT !.calls[i] = c]
Rpcs == 1..Len(net.calls)

Send ==
    \E i \in Rpcs :
       LET c == net.calls[i]
       IN  /\ c.kind = "upload" /\ c.client = "waiting" /\ c.sent < Uploads /\ c.uploads = "open"
           /\ Now(i, [c EXCEPT !.sent = @ + 1,
                               !.uploads = IF c.sent + 1 = Uploads THEN "ended" ELSE @])

\* The client's timeout, its end, or a stream it lets go.
Leave ==
    \E i \in Rpcs :
       LET c == net.calls[i]
       IN  /\ c.client = "waiting"
           /\ Now(i, [c EXCEPT !.client = "gone"])

\* What the server sees of it, in either order: the request stream breaks, and
\* tonic drops the dispatch (and with it the guard) or the receiver.
UploadBreaks ==
    \E i \in Rpcs :
       LET c == net.calls[i]
       IN  /\ c.client = "gone" /\ c.uploads = "open" /\ c.kind = "upload"
           /\ Now(i, [c EXCEPT !.uploads = "broken"])

DropGuard(c) ==        \* CancelGuard::drop
    IF c.dispatch = "awaiting" THEN [c EXCEPT !.cancelled = TRUE] ELSE c

DropDispatch ==
    \E i \in Rpcs :
       LET c == net.calls[i]
       IN  /\ c.client = "gone" /\ InFlight(c)
           /\ Now(i, [DropGuard(c) EXCEPT !.dispatch = "dropped", !.receiver = FALSE])

\* The stream wrapper: messages in order, then the end; a failed stream panics
\* in iter_next, and is an end like any other to try_next.
Receive ==
    \E i \in Rpcs :
       LET c == net.calls[i]
       IN  /\ c.kind = "stream" /\ c.client = "waiting" /\ c.receiver
           /\ \/ /\ c.channel # << >> /\ Head(c.channel).kind = "message"
                 /\ Now(i, [c EXCEPT !.got = Append(@, Head(c.channel).id),
                                     !.channel = Tail(@)])
              \/ /\ c.channel # << >> /\ Head(c.channel).kind = "status"
                 /\ \E iterates \in BOOLEAN :
                       Now(i, [c EXCEPT
                                 !.told = Told(IF iterates THEN Head(c.channel).code ELSE Ok),
                                 !.unheard = ~iterates,
                                 !.channel = << >>, !.receiver = FALSE, !.client = "over"])
              \/ /\ c.channel = << >> /\ ~c.open
                 /\ Now(i, [c EXCEPT !.told = Told(Ok), !.receiver = FALSE, !.client = "over"])

----------------------------------------------------------------------------
\* The handler: what AXL code can do with its request, `rpc` and `stream`.
Handling(i) == net.calls[i].handler = "running"
MayAct(i) == Handling(i) /\ net.calls[i].ops < net.plan.budget
Acts(i, c) == Now(i, [c EXCEPT !.ops = @ + 1])

\* rpc.abort only leaves a note for the dispatch.
RpcAbort ==
    \E i \in Rpcs : \E code \in {5, 99} :
       MayAct(i) /\ Acts(i, [net.calls[i] EXCEPT !.abort = Told(CodeFrom(code))])

RpcCancelled ==
    \E i \in Rpcs :
       MayAct(i) /\ Acts(i, [net.calls[i] EXCEPT !.knows = @ \/ net.calls[i].cancelled])

\* for req in req_stream, which blocks until there is one: a broken stream is an end,
\* whatever it still held.
NothingYet(c) == c.uploads = "broken" \/ c.read = c.sent
Exhausted(c) == c.uploads = "broken" \/ (c.uploads = "ended" /\ c.read = c.sent)
NextRequest ==
    \E i \in Rpcs :
       LET c == net.calls[i]
       IN  /\ MayAct(i) /\ c.kind = "upload" /\ ~c.readAll
           /\ \/ c.read < c.sent /\ Acts(i, [c EXCEPT !.read = @ + 1])
              \/ Exhausted(c) /\ Acts(i, [c EXCEPT !.readAll = TRUE])

\* stream.push: a value of another type, or a closed stream, raises; a full channel
\* blocks; and once the receiver is gone the message is dropped.
Raises(c) == [c EXCEPT !.raised = TRUE, !.ops = net.plan.budget - 1]
Message(c) == [kind |-> "message", id |-> c.pushed + 1]
Sent(c) == [c EXCEPT !.channel = Append(@, Message(c)), !.pushed = @ + 1]

Push ==
    \E i \in Rpcs : \E typed \in BOOLEAN :
       LET c == net.calls[i]
       IN  /\ MayAct(i) /\ c.kind = "stream" /\ ~c.raised
           /\ \/ ~(typed /\ c.open) /\ Acts(i, Raises(c))
              \/ /\ typed /\ c.open /\ c.receiver /\ Len(c.channel) < StreamCap
                 /\ Acts(i, Sent(c))
              \/ /\ typed /\ c.open /\ ~c.receiver
                 /\ Acts(i, [c EXCEPT !.cancelled = TRUE])

\* close: the sender is taken, a status sent if there is one, and dropped.
Status(code) == [kind |-> "status", code |-> code]
CloseRoom(c, status) ==
    c.open /\ status # NotTold /\ c.receiver => Len(c.channel) < StreamCap
CloseSilently(c, status) == [c EXCEPT !.open = FALSE]
Close(c, status) ==
    IF c.open
    THEN [c EXCEPT !.open = FALSE,
                   !.channel = IF status # NotTold /\ c.receiver
                               THEN Append(@, Status(status[1])) ELSE @]
    ELSE c

Complete ==
    \E i \in Rpcs : \E status \in {NotTold, Told(5)} :
       LET c == net.calls[i]
       IN  /\ MayAct(i) /\ c.kind = "stream" /\ ~c.raised /\ CloseRoom(c, status)
           /\ Acts(i, [Close(c, status) EXCEPT
                         !.completed = IF c.open
                                       THEN IF status = NotTold THEN Told(Ok) ELSE status
                                       ELSE @])

\* stream.cancelled looks at the channel too, while there is one.
GoneOrClosed(c) == ~c.receiver \/ ~c.open
ReceiverGone(c) == c.open /\ ~c.receiver
StreamCancelled ==
    \E i \in Rpcs :
       LET c == net.calls[i]
           gone == c.cancelled \/ ReceiverGone(c)
       IN  /\ MayAct(i) /\ c.kind = "stream"
           /\ Acts(i, [c EXCEPT !.cancelled = gone, !.knows = @ \/ gone])

\* The end of the call-out.  An abort wins over whatever was returned or raised.
OutcomeOfReturn(c, how) ==
    CASE how = "value" -> Ok
      [] c.abort # NotTold -> c.abort[1]
      [] OTHER -> Internal
Outcome(c, how) ==
    CASE c.abort # NotTold -> c.abort[1]
      [] how # "value" -> Internal
      [] OTHER -> Ok

\* The answer of a unary call or an upload, if the future is still there: `?`
\* leaves before the guard is disarmed.
Answered(c, code) ==
    IF c.dispatch # "awaiting" THEN c
    ELSE [(IF code = Ok THEN c ELSE DropGuard(c)) EXCEPT
             !.dispatch = "answered",
             !.client = IF @ = "waiting" THEN "over" ELSE @,
             !.told = IF c.client = "waiting" THEN Told(code) ELSE @]

\* A stream's handler closes only to tell of a failure; the sender goes with the
\* handler's heap.
StreamOver(c, code) ==
    IF code = Ok THEN [c EXCEPT !.open = FALSE] ELSE Close(c, Told(code))

HandlerReturns ==
    \E i \in Rpcs : \E how \in {"value", "wrong type", "error"} :
       LET c == net.calls[i]
           code == Outcome(c, how)
           over == [c EXCEPT !.handler = "over", !.value = (how = "value"),
                             !.raised = @ \/ how = "error"]
       IN  /\ Handling(i)
           /\ c.raised => how = "error"
           /\ IF c.kind = "stream"
              THEN /\ how # "wrong type"
                   /\ code # Ok => CloseRoom(c, Told(code))
                   /\ Now(i, StreamOver(over, code))
              ELSE Now(i, Answered(over, code))

----------------------------------------------------------------------------
NetStep ==
    \/ AddService \/ Serve \/ LookAtSocket \/ RemoveSocket \/ BindSocket \/ RivalBinds
    \/ DrainAndQuit \/ AcceptLoopOver \/ DrainReturns
    \/ ClientConnects \/ ClientCalls \/ Send \/ Leave \/ UploadBreaks \/ DropDispatch \/ Receive
    \/ RpcAbort \/ RpcCancelled \/ NextRequest \/ Push \/ Complete \/ StreamCancelled
    \/ HandlerReturns

----------------------------------------------------------------------------
\* What the client is told is what its handler did, whoever went first: success only
\* after a value without an abort, the status of an abort or of complete(), INTERNAL
\* only for a handler that went wrong; and it is told only if it still waits
\* (starbuf-derive/src/lib.rs:2300-2490).  A status try_next takes is an end to it.
ToldTrue(c) ==
    c.told # NotTold /\ c.handler # "none" /\ ~c.unheard =>
       LET code == c.told[1]
       IN  IF c.kind = "stream"
           THEN /\ code = Ok => c.completed \in {NotTold, Told(Ok)}
                /\ code = Ok /\ c.completed = NotTold => c.abort = NotTold /\ ~c.raised
                /\ code # Ok => \/ c.completed = Told(code)
                                \/ c.completed = NotTold /\ c.abort = Told(code)
                                \/ c.completed = NotTold /\ c.raised /\ code = Internal
           ELSE /\ code = Ok <=> (c.value /\ c.abort = NotTold)
                /\ c.abort # NotTold => c.told = c.abort

\* A stream's client gets what was pushed, in order, and nothing is missing when it
\* is told of the end, however it ended (service.rs:24, stream.rs:86).
StreamInOrder(c) ==
    /\ c.got = [k \in 1..Len(c.got) |-> k]
    /\ c.kind = "stream" /\ c.told # NotTold /\ c.handler # "none" => Len(c.got) = c.pushed

\* A handler that read its uploads to the end, and whose client is told of success,
\* has read them all: a stream that broke off is an end to the handler only.
UploadWhole(c) ==
    c.kind = "upload" /\ c.readAll /\ c.told = Told(Ok) => c.read = Uploads

\* A handler that is told of a cancellation has no client any more (context.rs:67).
CancelIsReal(c) == c.knows => c.client = "gone"

CallsSound ==
    \A i \in Rpcs : LET c == net.calls[i]
                     IN  ToldTrue(c) /\ StreamInOrder(c) /\ UploadWhole(c) /\ CancelIsReal(c)

\* A drain that returned before its timeout left nobody waiting (server.rs:204), and
\* a live server's socket is only ever removed if it came after the look
\* (server.rs:286).
DrainIsComplete ==
    "served" \in net.drained => \A i \in Rpcs : net.calls[i].client # "waiting"
SocketSpared == "rival" \notin net.removed
=============================================================================
