------------------------------ MODULE GrpcSink ------------------------------
(***************************************************************************)
(* The sink that forwards a build's events to a Build Event Service:       *)
(* work, drive_stream and retry_lifecycle of                               *)
(* crates/axl-runtime/src/engine/bazel/sink/grpc.rs, with the server it    *)
(* talks to.                                                               *)
(*                                                                         *)
(* Upstream, the subscription and the forwarder's unbounded queue are one  *)
(* FIFO: event n is the n-th event, and since the sink numbers events as   *)
(* it takes them, n is also its sequence number.  A connection is the      *)
(* bounded request channel `wire`, the queue of acks and the way the       *)
(* server ended the stream.  The server stores the events it reads and     *)
(* acks the newest one it has read; it may be slow, silent, end the stream *)
(* or lose it at any moment.  A deadline is a flag, armed or not: it may   *)
(* fire whenever it is armed.                                              *)
(***************************************************************************)
EXTENDS RetryBuffer, FiniteSets

CONSTANTS
  LastAt,      \* the events flagged last_message
  Retries,     \* the values RetryConfig::max_retries is configured with
  ChanCap,     \* capacity of the request channel, HTTP/2 windows included
  HasTimeout   \* whether RetryConfig::timeout is set

ASSUME GrpcSinkAssumption ==
  /\ LastAt \subseteq Events
  /\ Retries \subseteq Nat
  /\ ChanCap \in Nat \ {0}
  /\ HasTimeout \in BOOLEAN

VARIABLES
  maxRetries,  \* RetryConfig::max_retries of this sink, 0 disables retry
  published,   \* events the broadcaster has sent
  upClosed,    \* the broadcaster is closed
  phase,       \* where work() is
  call, tries, \* lifecycle: which of the four calls, and its retry counter
  next,        \* StreamState::next_seq
  maxAcked,    \* StreamState::max_acked
  lastSent,    \* StreamState::last_message_sent
  attempt,     \* reconnects without progress
  ackedBefore, \* max_acked when the current drive began
  preloaded,   \* the event pre-loaded before the open, 0 if none
  replayed,    \* entries of the buffer replayed so far
  reqOpen,     \* sender_opt is Some
  ackArmed, halfArmed, \* the two deadlines of the select loop
  wire, acks, srvEnd, \* the connection: requests, acks, how it ended
  srvGot, srvOwes, \* the newest event read on it, and whether an ack is due
  landed,      \* events the server has stored
  warned,      \* history: the user was told of evicted events
  fruitless,   \* history: drives in a row that ended without progress
  refused,     \* history: the stream failed with a status that is not retryable
  result       \* what the sink thread returned

upVars == <<published, upClosed>>
lifeVars == <<maxRetries, call, tries>>
streamVars == <<next, maxAcked, lastSent>>
budgetVars == <<attempt, ackedBefore, fruitless, refused>>
loopVars == <<preloaded, replayed, reqOpen, ackArmed, halfArmed>>
connVars == <<wire, acks, srvEnd, srvGot, srvOwes>>

vars == <<bufferVars, upVars, phase, lifeVars, streamVars, budgetVars, loopVars,
          connVars, landed, warned, result>>

Phases == {"setup", "lifecycle", "preload", "opening", "replay", "select",
           "sending", "drain", "returned"}

-----------------------------------------------------------------------------
Init ==
  /\ maxRetries \in Retries
  /\ BufferInit
  /\ published = 0 /\ upClosed = FALSE
  /\ phase = "setup" /\ call = 1 /\ tries = 0
  /\ next = 1 /\ maxAcked = 0 /\ lastSent = FALSE
  /\ attempt = 0 /\ ackedBefore = 0 /\ fruitless = 0 /\ refused = FALSE
  /\ preloaded = 0 /\ replayed = 0
  /\ reqOpen = FALSE /\ ackArmed = FALSE /\ halfArmed = FALSE
  /\ wire = <<>> /\ acks = <<>> /\ srvEnd = "open" /\ srvGot = 0 /\ srvOwes = FALSE
  /\ landed = {} /\ warned = FALSE
  /\ result = [outcome |-> "running", sent |-> 0, acked |-> 0]

-----------------------------------------------------------------------------
(* Upstream.                                                               *)
Publish ==
  /\ ~upClosed
  /\ published + 1 \in Events
  /\ published' = published + 1
  /\ UNCHANGED <<bufferVars, upClosed, phase, lifeVars, streamVars, budgetVars,
                 loopVars, connVars, landed, warned, result>>

CloseUpstream ==
  /\ ~upClosed
  /\ upClosed' = TRUE
  /\ UNCHANGED <<bufferVars, published, phase, lifeVars, streamVars, budgetVars,
                 loopVars, connVars, landed, warned, result>>

EventWaiting == next <= published

-----------------------------------------------------------------------------
(* Returning from work().                                                  *)
\* SinkStats::from_counters
Stats == [sent |-> next - 1, acked |-> maxAcked]

ReturnWith(outcome, sent, acked) ==
  /\ phase' = "returned"
  /\ result' = [outcome |-> outcome, sent |-> sent, acked |-> acked]

Return(outcome) == ReturnWith(outcome, Stats.sent, Stats.acked)

-----------------------------------------------------------------------------
(* Before and after the stream: client setup and the lifecycle calls, 1    *)
(* and 2 before it, 3 and 4 after.                                         *)
ClientSetup ==
  /\ phase = "setup"
  /\ \/ phase' = "lifecycle" /\ UNCHANGED result
     \/ ReturnWith("err", 0, 0)
  /\ UNCHANGED <<bufferVars, upVars, lifeVars, streamVars, budgetVars, loopVars,
                 connVars, landed, warned>>

\* The request channel, the response stream and the locals of drive_stream are
\* new on every drive; they mean nothing between drives.
FreshDrive(open) ==
  /\ preloaded' = 0 /\ replayed' = 0
  /\ reqOpen' = open /\ ackArmed' = FALSE /\ halfArmed' = FALSE
  /\ wire' = <<>> /\ acks' = <<>> /\ srvEnd' = "open"
  /\ srvGot' = 0 /\ srvOwes' = FALSE

Connect ==
  /\ phase' = "preload"
  /\ ackedBefore' = maxAcked
  /\ FreshDrive(TRUE)

LifecycleOk ==
  /\ phase = "lifecycle"
  /\ tries' = 0
  /\ call' = call + 1
  /\ \/ /\ call \in {1, 3}
        /\ UNCHANGED <<phase, ackedBefore, loopVars, connVars, result>>
     \/ /\ call = 2
        /\ Connect
        /\ UNCHANGED result
     \/ /\ call = 4
        /\ Return("ok")
        /\ UNCHANGED <<ackedBefore, loopVars, connVars>>
  /\ UNCHANGED <<bufferVars, upVars, maxRetries, streamVars, attempt, fruitless,
                 refused, landed, warned>>

\* An attempt fails or its ten seconds pass: retried while the status is
\* retryable and the call's own budget lasts.
LifecycleFail(retryable) ==
  /\ phase = "lifecycle"
  /\ \/ /\ retryable /\ tries < maxRetries
        /\ tries' = tries + 1
        /\ UNCHANGED <<phase, result>>
     \/ /\ ~retryable \/ tries >= maxRetries
        /\ IF call <= 2 THEN ReturnWith("err", 0, 0) ELSE Return("err")
        /\ UNCHANGED tries
  /\ UNCHANGED <<bufferVars, upVars, maxRetries, call, streamVars, budgetVars, loopVars,
                 connVars, landed, warned>>

\* RetryConfig::timeout bounds the two calls after the stream.
PostStreamTimeout ==
  /\ HasTimeout
  /\ phase = "lifecycle" /\ call >= 3
  /\ Return("err")
  /\ UNCHANGED <<bufferVars, upVars, lifeVars, streamVars, budgetVars, loopVars,
                 connVars, landed, warned>>

-----------------------------------------------------------------------------
(* How a drive ends.                                                       *)
\* Done and UpstreamClosed leave the reconnect loop for the last two calls.
Finish ==
  /\ phase' = "lifecycle"
  /\ FreshDrive(FALSE)
  /\ UNCHANGED <<budgetVars, result>>

GiveUp ==
  /\ Return("err")
  /\ FreshDrive(FALSE)
  /\ UNCHANGED <<attempt, ackedBefore, fruitless>>

\* Fatal: the status says that retrying is of no use.
Refuse == GiveUp /\ refused' = TRUE

MadeProgress == maxAcked > ackedBefore

RenewedAlways == MadeProgress              \* mutant: also with retry disabled

\* Ack progress during the drive renews the budget; 0 retries disables that too.
Renewed == MadeProgress /\ maxRetries > 0

AttemptUncounted == IF Renewed THEN 0 ELSE attempt    \* mutant
NextAttempt == IF Renewed THEN 0 ELSE attempt + 1

SpentLate == attempt > maxRetries                     \* mutant: off by one
SpentEarly == attempt + 1 >= maxRetries               \* mutant: the last retry is not made
Spent == attempt >= maxRetries

\* Transient: reconnect within the budget, or give up.
Transient ==
  /\ UNCHANGED refused
  /\ \/ /\ ~Renewed /\ Spent
        /\ GiveUp
     \/ /\ Renewed \/ ~Spent
        /\ Connect
        /\ attempt' = NextAttempt
        /\ fruitless' = IF MadeProgress THEN 0 ELSE fruitless + 1
        /\ UNCHANGED result

-----------------------------------------------------------------------------
(* preload_first_event, and the open of the stream.                        *)
\* Number the next event, retain it, and write it to the wire.
Take ==
  /\ EventWaiting
  /\ next' = next + 1
  /\ Push(next)

PreloadFromBuffer ==
  /\ phase = "preload" /\ items # <<>>
  /\ wire' = <<Head(items)>>
  /\ preloaded' = Head(items)
  /\ phase' = "opening"
  /\ UNCHANGED <<bufferVars, upVars, lifeVars, streamVars, budgetVars, replayed,
                 reqOpen, ackArmed, halfArmed, acks, srvEnd, srvGot, srvOwes, landed,
                 warned, result>>

PreloadFromUpstream ==
  /\ phase = "preload" /\ items = <<>> /\ ~lastSent
  /\ Take
  /\ wire' = <<next>>
  /\ preloaded' = next
  /\ lastSent' = (next \in LastAt)
  /\ phase' = "opening"
  /\ UNCHANGED <<upVars, lifeVars, maxAcked, budgetVars, replayed, reqOpen,
                 ackArmed, halfArmed, acks, srvEnd, srvGot, srvOwes, landed, warned, result>>

\* Nothing to send first: the last event is out, the upstream is closed, or no
\* event came within FIRST_EVENT_TIMEOUT.
PreloadNothing ==
  /\ phase = "preload" /\ items = <<>>
  /\ lastSent \/ ~EventWaiting
  /\ phase' = "opening"
  /\ UNCHANGED <<bufferVars, upVars, lifeVars, streamVars, budgetVars, loopVars,
                 connVars, landed, warned, result>>

OpenOkQuietly ==           \* mutant: the evictions are not reported
  /\ phase = "opening"
  /\ phase' = "replay"
  /\ UNCHANGED <<bufferVars, upVars, lifeVars, streamVars, budgetVars, loopVars,
                 connVars, landed, warned, result>>

\* Evictions so far are reported once the stream is open again.
OpenOk ==
  /\ phase = "opening"
  /\ phase' = "replay"
  /\ TakeEvicted
  /\ warned' = (warned \/ evicted > 0)
  /\ UNCHANGED <<upVars, lifeVars, streamVars, budgetVars, loopVars, connVars,
                 landed, result>>

\* The open fails, or OPEN_TIMEOUT passes.
OpenFail(retryable) ==
  /\ phase = "opening"
  /\ IF retryable THEN Transient ELSE Refuse
  /\ UNCHANGED <<bufferVars, upVars, lifeVars, streamVars, landed, warned>>

-----------------------------------------------------------------------------
(* send_bounded, drain_acks and the replay of the buffer.                  *)
HasRoom == Len(wire) < ChanCap
\* The channel's receiver may be gone once the server ended the stream; a full
\* channel is given up on after send_stall_timeout.
SendCanFail == srvEnd # "open" \/ ~HasRoom

ReplayNext(skip) ==
  LET n == items[replayed + 1]
  IN /\ phase = "replay" /\ replayed < Len(items)
     /\ replayed' = replayed + 1
     /\ \/ n = skip /\ UNCHANGED wire
        \/ n # skip /\ HasRoom /\ wire' = Append(wire, n)
     /\ UNCHANGED <<bufferVars, upVars, phase, lifeVars, streamVars, budgetVars,
                    preloaded, reqOpen, ackArmed, halfArmed, acks, srvEnd, srvGot,
                    srvOwes, landed, warned, result>>

ReplayStepTwice == ReplayNext(0)           \* mutant: the pre-load is not skipped
ReplayStep == ReplayNext(preloaded)

ReplayFail ==
  /\ phase = "replay" /\ replayed < Len(items)
  /\ items[replayed + 1] # preloaded
  /\ SendCanFail
  /\ phase' = "drain"
  /\ UNCHANGED <<bufferVars, upVars, lifeVars, streamVars, budgetVars, loopVars,
                 connVars, landed, warned, result>>

ReplayEndParked ==         \* mutant: a resent last event does not half-close
  /\ phase = "replay" /\ replayed = Len(items)
  /\ phase' = "select"
  /\ UNCHANGED <<bufferVars, upVars, lifeVars, streamVars, budgetVars, loopVars,
                 connVars, landed, warned, result>>

\* The replay is done: arm the watchdog, and half-close at once when the last
\* event was already sent on an earlier connection.
ReplayEnd ==
  /\ phase = "replay" /\ replayed = Len(items)
  /\ phase' = "select"
  /\ ackArmed' = (items # <<>>)
  /\ reqOpen' = ~lastSent
  /\ halfArmed' = lastSent
  /\ UNCHANGED <<bufferVars, upVars, lifeVars, streamVars, budgetVars, preloaded,
                 replayed, connVars, landed, warned, result>>

\* StreamState::record_ack
RecordAck(n) ==
  /\ PruneUntil(n)
  /\ maxAcked' = IF n > maxAcked THEN n ELSE maxAcked

DrainAck ==
  /\ phase = "drain" /\ acks # <<>>
  /\ RecordAck(Head(acks))
  /\ acks' = Tail(acks)
  /\ UNCHANGED <<upVars, phase, lifeVars, next, lastSent, budgetVars, loopVars, wire,
                 srvEnd, srvGot, srvOwes, landed, warned, result>>

\* The acks ran out, the stream ended, or DRAIN_ACKS_TIMEOUT passed.
DrainEnd ==
  /\ phase = "drain"
  /\ Transient
  /\ UNCHANGED <<bufferVars, upVars, lifeVars, streamVars, landed, warned>>

-----------------------------------------------------------------------------
(* The arms of the select loop.                                            *)
SelectEvent ==
  /\ phase = "select" /\ ~lastSent /\ reqOpen
  /\ Take
  /\ ackArmed' = TRUE
  /\ phase' = "sending"
  /\ UNCHANGED <<upVars, lifeVars, maxAcked, lastSent, budgetVars, preloaded,
                 replayed, reqOpen, halfArmed, connVars, landed, warned, result>>

SendOk ==
  LET n == next - 1
  IN /\ phase = "sending" /\ HasRoom
     /\ wire' = Append(wire, n)
     /\ phase' = "select"
     /\ lastSent' = (n \in LastAt)
     /\ reqOpen' = (n \notin LastAt)
     /\ halfArmed' = (n \in LastAt)
     /\ UNCHANGED <<bufferVars, upVars, lifeVars, next, maxAcked, budgetVars,
                    preloaded, replayed, ackArmed, acks, srvEnd, srvGot, srvOwes, landed,
                    warned, result>>

SendFail ==
  /\ phase = "sending" /\ SendCanFail
  /\ phase' = "drain"
  /\ UNCHANGED <<bufferVars, upVars, lifeVars, streamVars, budgetVars, loopVars,
                 connVars, landed, warned, result>>

SelectUpstreamEndEager ==  \* mutant: the closed flag is read before the queue
  /\ phase = "select" /\ ~lastSent /\ reqOpen
  /\ upClosed
  /\ \/ items = <<>> /\ Finish
     \/ /\ items # <<>>
        /\ reqOpen' = FALSE /\ halfArmed' = TRUE
        /\ UNCHANGED <<phase, budgetVars, preloaded, replayed, ackArmed, connVars, result>>
  /\ UNCHANGED <<bufferVars, upVars, lifeVars, streamVars, landed, warned>>

SelectUpstreamEnd ==
  /\ phase = "select" /\ ~lastSent /\ reqOpen
  /\ upClosed /\ ~EventWaiting
  /\ \/ items = <<>> /\ Finish
     \/ /\ items # <<>>
        /\ reqOpen' = FALSE /\ halfArmed' = TRUE
        /\ UNCHANGED <<phase, budgetVars, preloaded, replayed, ackArmed, connVars, result>>
  /\ UNCHANGED <<bufferVars, upVars, lifeVars, streamVars, landed, warned>>

NothingUnackedEager == lastSent \/ ~reqOpen   \* mutant: the buffer is not asked
\* Done once the last event is sent, UpstreamClosed once the request side is shut,
\* in both cases with nothing left unacked in the buffer.
NothingUnacked == (lastSent \/ ~reqOpen) /\ items' = <<>>

SelectAck ==
  /\ phase = "select" /\ acks # <<>>
  /\ RecordAck(Head(acks))
  /\ \/ NothingUnacked /\ Finish
     \/ /\ ~NothingUnacked
        /\ acks' = Tail(acks)
        /\ ackArmed' = (items' # <<>>)
        /\ UNCHANGED <<phase, budgetVars, preloaded, replayed, reqOpen, halfArmed,
                       wire, srvEnd, srvGot, srvOwes, result>>
  /\ UNCHANGED <<upVars, lifeVars, next, lastSent, landed, warned>>

\* The response stream ends: cleanly, or with a status.
SelectEnd ==
  /\ phase = "select" /\ acks = <<>> /\ srvEnd # "open"
  /\ UNCHANGED <<bufferVars, upVars, lifeVars, streamVars, landed, warned>>
  /\ \/ srvEnd = "closed" /\ NothingUnacked /\ Finish
     \/ srvEnd = "closed" /\ ~NothingUnacked /\ Transient
     \/ srvEnd = "retryable" /\ Transient
     \/ srvEnd = "fatal" /\ Refuse

HalfCloseDeadline ==
  /\ phase = "select" /\ halfArmed
  /\ IF items = <<>> THEN Finish ELSE Transient
  /\ UNCHANGED <<bufferVars, upVars, lifeVars, streamVars, landed, warned>>

AckDeadline ==
  /\ phase = "select" /\ ackArmed /\ ~halfArmed
  /\ Transient
  /\ UNCHANGED <<bufferVars, upVars, lifeVars, streamVars, landed, warned>>

-----------------------------------------------------------------------------
(* The server and the network.                                             *)
Connected == phase \in {"opening", "replay", "select", "sending", "drain"}

ServerRead ==
  /\ Connected /\ srvEnd = "open" /\ wire # <<>>
  /\ landed' = landed \cup {Head(wire)}
  /\ srvGot' = Head(wire)
  /\ srvOwes' = TRUE
  /\ wire' = Tail(wire)
  /\ UNCHANGED <<bufferVars, upVars, phase, lifeVars, streamVars, budgetVars,
                 loopVars, acks, srvEnd, warned, result>>

\* One ack confirms everything read so far on this stream, missing numbers
\* included: the server acks by position.
ServerAck ==
  /\ Connected /\ srvEnd = "open" /\ srvOwes
  /\ acks' = Append(acks, srvGot)
  /\ srvOwes' = FALSE
  /\ UNCHANGED <<bufferVars, upVars, phase, lifeVars, streamVars, budgetVars,
                 loopVars, wire, srvEnd, srvGot, landed, warned, result>>

\* (A stream that ends before its headers is a failed open, OpenFail.)
ServerEnds(how) ==
  /\ Connected /\ phase # "opening" /\ srvEnd = "open"
  /\ srvEnd' = how
  /\ UNCHANGED <<bufferVars, upVars, phase, lifeVars, streamVars, budgetVars,
                 loopVars, wire, acks, srvGot, srvOwes, landed, warned, result>>

\* A lost connection takes the unread acks and requests with it.
ConnectionLost ==
  /\ Connected /\ phase # "opening" /\ srvEnd = "open"
  /\ srvEnd' = "retryable"
  /\ wire' = <<>> /\ acks' = <<>>
  /\ UNCHANGED <<bufferVars, upVars, phase, lifeVars, streamVars, budgetVars,
                 loopVars, srvGot, srvOwes, landed, warned, result>>

-----------------------------------------------------------------------------
Sink ==
  \/ ClientSetup \/ LifecycleOk \/ (\E r \in BOOLEAN : LifecycleFail(r))
  \/ PostStreamTimeout
  \/ PreloadFromBuffer \/ PreloadFromUpstream \/ PreloadNothing
  \/ OpenOk \/ (\E r \in BOOLEAN : OpenFail(r))
  \/ ReplayStep \/ ReplayFail \/ ReplayEnd \/ DrainAck \/ DrainEnd
  \/ SelectEvent \/ SendOk \/ SendFail \/ SelectUpstreamEnd
  \/ SelectAck \/ SelectEnd \/ HalfCloseDeadline \/ AckDeadline

Environment ==
  \/ Publish \/ CloseUpstream
  \/ ServerRead \/ ServerAck \/ ConnectionLost
  \/ \E how \in {"closed", "retryable", "fatal"} : ServerEnds(how)

Next == Sink \/ Environment

\* Every wait of the sink is bounded by a deadline, so it always moves on; the
\* server and the upstream owe nothing.
Spec == Init /\ [][Next]_vars
FairSpec == Spec /\ WF_vars(Sink)

-----------------------------------------------------------------------------
TypeOK ==
  /\ BufferTypeOK
  /\ maxRetries \in Retries
  /\ published \in 0..Len(Size) /\ upClosed \in BOOLEAN
  /\ phase \in Phases /\ call \in 1..5 /\ tries \in 0..maxRetries
  /\ next \in 1..(published + 1) /\ maxAcked \in 0..(next - 1)
  /\ lastSent \in BOOLEAN
  /\ attempt \in 0..maxRetries /\ ackedBefore \in 0..maxAcked /\ fruitless \in Nat
  /\ preloaded \in 0..(next - 1) /\ replayed \in Nat
  /\ reqOpen \in BOOLEAN /\ ackArmed \in BOOLEAN /\ halfArmed \in BOOLEAN
  /\ wire \in Seq(1..(next - 1)) /\ acks \in Seq(1..(next - 1))
  /\ srvEnd \in {"open", "closed", "retryable", "fatal"}
  /\ srvGot \in 0..(next - 1) /\ srvOwes \in BOOLEAN
  /\ landed \subseteq 1..(next - 1) /\ warned \in BOOLEAN /\ refused \in BOOLEAN
  /\ result \in [outcome : {"running", "ok", "err"},
                 sent : 0..(next - 1), acked : 0..maxAcked]

Items == {items[i] : i \in 1..Len(items)}

\* The buffer is what a reconnect needs: every event taken and not acked is in
\* it, unless it had to be forgotten for want of room.
UnackedIsReplayable ==
  \A n \in (maxAcked + 1)..(next - 1) : n \in Items \/ n \in forgotten

\* The sink's state between any two of its steps is one that it can reconnect
\* from (RetryBuffer of retry.rs, drive and replay of grpc.rs).
BufferSound == TypeOK /\ UnackedIsReplayable

\* One connection carries each event at most once, in ascending order: what
\* waits on the wire is newer than what the server read.
WireInOrder ==
  /\ \A i \in 1..Len(wire) : wire[i] > srvGot
  /\ \A i, j \in 1..Len(wire) : i < j => wire[i] < wire[j]

\* Ok means confirmed: every event sent was acked, but for those the buffer had
\* to forget.  An unacked event still in the buffer is never abandoned.
OkMeansConfirmed ==
  result.outcome = "ok" =>
    \A n \in 1..result.sent : n <= result.acked \/ n \in forgotten

\* An event the backend never stored does not go unnoticed when the sink returns
\* Ok: the user was warned, or acked < sent tells.
NoSilentLoss ==
  result.outcome = "ok" /\ ~(1..result.sent \subseteq landed)
    => warned \/ result.acked < result.sent

\* Ok means everything published was taken, backlog at the close included, or
\* everything up to the event flagged as the last one.
EverythingIsUploaded ==
  result.outcome = "ok" /\ upClosed => result.sent = published \/ result.sent \in LastAt

\* What the buffer's budget in bytes makes the sink forget is accounted for, and
\* known at the end: a sink that answers Ok took everything, and what is not
\* stored was warned of or counted (RetryBuffer::push, finish of grpc.rs).
LossIsKnown == BytesAccounted /\ NoSilentLoss /\ EverythingIsUploaded

\* The budget counts drives in a row without progress, and is never exceeded.
BudgetIsConsecutive == fruitless <= maxRetries /\ (maxRetries > 0 => attempt = fruitless)

\* With retry disabled the stream is opened once.
NoRetryMeansOneStream ==
  [][maxRetries = 0 /\ Connected => phase' # "preload"]_vars

\* Unless a status forbids it, a broken stream is reopened until the budget is
\* spent: the sink gives up in the drive after max_retries reconnects in a row
\* without progress, and only if that drive made none either.
NeverGivesUpEarly ==
  [][Connected /\ phase' = "returned" /\ ~refused'
       => fruitless = maxRetries /\ (maxRetries > 0 => maxAcked = ackedBefore)]_vars

\* The number of reconnects is the one asked for (work() of grpc.rs): never more
\* in a row without progress, never fewer after failures that can be retried, and
\* none at all where retry is disabled.
RetriesAreBudgeted ==
  []BudgetIsConsecutive /\ NoRetryMeansOneStream /\ NeverGivesUpEarly

\* Whatever the server does, the sink returns once the build's events ended.
SinkReturns == upClosed ~> phase = "returned"

-----------------------------------------------------------------------------
\* Until something is evicted, the sink is an in-order upload.
Upload == INSTANCE Upload WITH
  Final <- LastAt, closed <- upClosed, stored <- landed, outcome <- result.outcome

ImplementsUpload ==
  /\ Upload!UploadInit
  /\ [][forgotten' = {} => Upload!UploadNext]_Upload!uvars
=============================================================================
