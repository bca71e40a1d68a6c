-------------------------------- MODULE Http --------------------------------
(***************************************************************************)
(* ctx.http() and the futures it answers (engine/http.rs, engine/async).   *)
(*                                                                         *)
(* A future is lazy: nothing is sent before it is blocked on or handed to  *)
(* futures.iter, which runs all it is given at once while the task takes   *)
(* what is ready.  `web` is all of it:                                     *)
(*   plan        [requests, maps, old, budget]: the requests to be made,   *)
(*               the transforms, the chunks of the output's old content    *)
(*   futures     [inner, request, transforms], as they were made           *)
(*   requests    what became of each request                               *)
(*   file        the output of downloads, chunk by chunk: <<whose, which>> *)
(*   offset      how far the stream is read that requests have for a body; *)
(*               a clone of the file has the same offset                   *)
(*   iterator    the requests of futures.iter that were not taken yet      *)
(*   thread, on  what the task's thread is blocked in, and on which future *)
(* and given, outcomes, ended and mine are history: what the loop over the *)
(* iterator got, how each block() ended, whether the loop came to its end  *)
(* without an error, and what of the stream the task read itself.          *)
(***************************************************************************)
EXTENDS Integers, Sequences, FiniteSets, SequencesExt

CONSTANT Chunks        \* of a body, and of the stream

VARIABLE web

\* What a request is: how it goes out, what it carries, and whether the answer is
\* written to a file under a checksum.
Simple(via) == [what |-> "get", via |-> via, body |-> FALSE, checked |-> FALSE]
Carrying(via) == [what |-> "post", via |-> via, body |-> TRUE, checked |-> FALSE]
Download(checked) == [what |-> "download", via |-> "net", body |-> FALSE, checked |-> checked]

NewRequest(r) ==
    [is |-> r, state |-> "new", starts |-> 0, sent |-> << >>, written |-> 0, bad |-> FALSE]

NewWeb(plan) ==
    [plan |-> plan, ops |-> 0, futures |-> << >>, requests |-> << >>,
     file |-> [k \in 1..plan.old |-> <<0, k>>], offset |-> 0,
     iterator |-> {}, iterating |-> FALSE, thread |-> "free", on |-> 0,
     given |-> << >>, mine |-> {}, outcomes |-> {}, ended |-> FALSE]

Asks == web.thread = "free" /\ web.ops < web.plan.budget
Act(w) == web' = [w EXCEPT !.ops = @ + 1]
FailAct == Act([web EXCEPT !.thread = "failed"])

----------------------------------------------------------------------------
\* get, delete, post, put, patch and download: only a checksum or a body that is none
\* fails at once.
MakeRequest ==
    /\ Asks /\ Len(web.requests) < Len(web.plan.requests)
    /\ LET n == Len(web.requests) + 1
           r == web.plan.requests[n]
       IN  \/ (r.checked \/ r.body) /\ FailAct
           \/ Act([web EXCEPT
                     !.requests = Append(@, NewRequest(r)),
                     !.futures = Append(@, [inner |-> TRUE, request |-> n, transforms |-> << >>])])

\* map_ok, map_err and map_ok_or_else move the request into a new future.  The first form
\* leaves it in both.
SharedInner(f) == web.futures[f]
MovedInner(f) == [web.futures[f] EXCEPT !.inner = FALSE]

WithTransform ==
    /\ Asks
    /\ \E f \in 1..Len(web.futures), t \in web.plan.maps :
          Act([web EXCEPT
                 !.futures = Append([@ EXCEPT ![f] = MovedInner(f)],
                                    [@[f] EXCEPT !.transforms = Append(@, t)])])

Started(r) == [r EXCEPT !.state = "sending", !.starts = @ + 1]

Block ==
    /\ Asks
    /\ \E f \in 1..Len(web.futures) :
          IF web.futures[f].inner
          THEN Act([web EXCEPT !.futures[f].inner = FALSE, !.thread = "blocking", !.on = f,
                               !.requests[web.futures[f].request] = Started(@)])
          ELSE FailAct

\* apply_transforms: a transform that is not for this result leaves it; the first form
\* gives up at the first error.
TransformUntilError(result, t) ==
    IF result THEN t.on = "error" \/ ~t.fails ELSE result
Transform(result, t) ==
    IF (result /\ t.on \in {"ok", "both"}) \/ (~result /\ t.on \in {"error", "both"})
    THEN ~t.fails
    ELSE result

Settled(r) == r.state \in {"ok", "error"}

BlockReturns ==
    /\ web.thread = "blocking"
    /\ LET f == web.futures[web.on]
           r == web.requests[f.request]
           result == FoldLeft(Transform, r.state = "ok", f.transforms)
       IN  /\ Settled(r)
           /\ web' = [web EXCEPT
                        !.outcomes = @ \cup {[future |-> web.on, ok |-> result]},
                        !.thread = IF result THEN "free" ELSE "failed"]

\* futures.iter takes the requests, not their transforms, and spawns them; one that
\* was awaited before panics.
Iterate ==
    /\ Asks /\ ~web.iterating /\ web.futures # << >>
    /\ \E fs \in SUBSET (1..Len(web.futures)) \ {{}} :
          IF \A f \in fs : web.futures[f].inner
          THEN LET taken == {web.futures[f].request : f \in fs}
               IN  Act([web EXCEPT
                          !.futures = [f \in DOMAIN @ |->
                                         IF f \in fs THEN [@[f] EXCEPT !.inner = FALSE] ELSE @[f]],
                          !.requests = [r \in DOMAIN @ |->
                                          IF r \in taken THEN Started(@[r]) ELSE @[r]],
                          !.iterator = taken, !.iterating = TRUE, !.thread = "iterating"])
          ELSE FailAct

\* iter_next: whichever is done first; an error is an end, and the others run on.  The
\* first form does not wait for one.
NoneReady == \A r \in web.iterator : ~Settled(web.requests[r])
NoneLeft == web.iterator = {}

IterNext ==
    /\ web.thread = "iterating"
    /\ \/ \E r \in web.iterator :
             /\ Settled(web.requests[r])
             /\ web' = IF web.requests[r].state = "ok"
                       THEN [web EXCEPT !.iterator = @ \ {r}, !.given = Append(@, r)]
                       ELSE [web EXCEPT !.iterator = @ \ {r}, !.thread = "free"]
       \/ NoneLeft /\ web' = [web EXCEPT !.thread = "free", !.ended = TRUE]

\* The task reads the stream itself.
ReadBody ==
    /\ Asks /\ web.offset < Chunks /\ \E r \in Range(web.plan.requests) : r.body
    /\ Act([web EXCEPT !.offset = @ + 1, !.mine = @ \cup {web.offset + 1}])

----------------------------------------------------------------------------
\* A request on its way, on the runtime's threads.
Moves(n, state) ==
    n \in 1..Len(web.requests) /\ web.requests[n].state = state
Becomes(n, r) == web' = [web EXCEPT !.requests[n] = r]
Turns(n, state) == Becomes(n, [web.requests[n] EXCEPT !.state = state])

\* The body: chunk by chunk as it is sent, or all of it before; both from where the
\* stream is.  The first form opens the file anew for each.
OwnChunk(n) == Len(web.requests[n].sent) + 1
NextChunk(n) == web.offset + 1

SendBody ==
    \E n \in DOMAIN web.requests :
       /\ Moves(n, "sending") /\ web.requests[n].is.body /\ web.offset < Chunks
       /\ web' = [web EXCEPT !.requests[n].sent = Append(@, NextChunk(n)), !.offset = @ + 1]

BodySent(r) == ~r.is.body \/ web.offset = Chunks

\* An answer of any status is a response.  A peer that stalls ends in a timeout, but
\* nothing watches a Unix socket.
Respond ==
    \E n \in DOMAIN web.requests :
       /\ Moves(n, "sending") /\ web.requests[n].is.what # "download"
       /\ \/ BodySent(web.requests[n]) /\ Turns(n, "ok")
          \/ web.requests[n].is.via = "net" /\ Turns(n, "error")

\* download: an error status is an error.  The output is opened, not truncated.
OpenOutput ==
    \E n \in DOMAIN web.requests :
       /\ Moves(n, "sending") /\ web.requests[n].is.what = "download"
       /\ Turns(n, "error") \/ Turns(n, "writing")

PutAt(file, k, chunk) == IF k <= Len(file) THEN [file EXCEPT ![k] = chunk] ELSE Append(file, chunk)

WriteOutput ==
    \E n \in DOMAIN web.requests :
       LET r == web.requests[n]
       IN  /\ Moves(n, "writing") /\ r.written < Chunks
           /\ \/ Turns(n, "error")
              \/ \E bad \in BOOLEAN :
                    web' = [web EXCEPT
                              !.file = PutAt(@, r.written + 1, <<n, r.written + 1>>),
                              !.requests[n] = [r EXCEPT !.written = @ + 1, !.bad = @ \/ bad]]

\* The checksum of what was received; the first form looks at its last chunk.
LastChunkIsRight(r) == r.is.checked => r.written = Chunks
ChecksumIsRight(r) == r.is.checked => ~r.bad

Finalize ==
    \E n \in DOMAIN web.requests :
       LET r == web.requests[n]
       IN  /\ Moves(n, "writing") /\ r.written = Chunks
           /\ Turns(n, IF ChecksumIsRight(r) THEN "ok" ELSE "error")

WebStep ==
    \/ MakeRequest \/ WithTransform \/ Block \/ BlockReturns \/ Iterate \/ IterNext \/ ReadBody
    \/ SendBody \/ Respond \/ OpenOutput \/ WriteOutput \/ Finalize

----------------------------------------------------------------------------
\* However futures are derived from one another, awaited and iterated, a request goes
\* out once (async/future.rs:80).
SentOnce == \A n \in DOMAIN web.requests : web.requests[n].starts <= 1

\* block() succeeds exactly if the request did or some transform that is for errors
\* mended it, and no transform that is for successes failed after that
\* (async/future.rs:160).
Mends(f, j) ==
    IF j = 0 THEN web.requests[f.request].state = "ok"
    ELSE f.transforms[j].on \in {"error", "both"} /\ ~f.transforms[j].fails
Spoils(f, k) == f.transforms[k].on \in {"ok", "both"} /\ f.transforms[k].fails
ErrorsAreMapped ==
    \A o \in web.outcomes :
       LET f == web.futures[o.future]
           n == Len(f.transforms)
       IN  o.ok <=> \E j \in 0..n : Mends(f, j) /\ \A k \in (j + 1)..n : ~Spoils(f, k)

\* A loop over futures.iter gets results of requests that went well, each once, and if
\* it ends with none failed it got them all (async/future_stream.rs:74).
IteratorGivesAll ==
    /\ \A i, j \in 1..Len(web.given) :
          web.requests[web.given[i]].state = "ok" /\ (i # j => web.given[i] # web.given[j])
    /\ web.ended => web.iterator = {}

\* A download that answers has what passed the checksum in its file, if nothing longer
\* was there and no other download goes to the same file (http.rs:190).
WritesAlone(n) ==
    \A m \in DOMAIN web.requests :
       m # n /\ web.requests[m].is.what = "download" => web.requests[m].written = 0
DownloadIsWhole ==
    \A n \in DOMAIN web.requests :
       LET r == web.requests[n]
       IN  r.is.what = "download" /\ r.state = "ok" =>
              /\ r.is.checked => ~r.bad
              /\ WritesAlone(n) /\ web.plan.old <= Chunks => web.file = [k \in 1..Chunks |-> <<n, k>>]

\* What requests upload of one stream, in whatever order they read it, is all different
\* and in order, and with what the task read itself it is all of it (http.rs:713).
StreamIsSharedOut ==
    LET sent(n) == Range(web.requests[n].sent)
    IN  /\ \A n \in DOMAIN web.requests :
              /\ \A i, j \in 1..Len(web.requests[n].sent) :
                    i < j => web.requests[n].sent[i] < web.requests[n].sent[j]
              /\ \A m \in DOMAIN web.requests : m # n => sent(m) \cap sent(n) = {}
        /\ web.mine \cup UNION {sent(n) : n \in DOMAIN web.requests} = 1..web.offset

RequestsSound ==
    /\ SentOnce /\ ErrorsAreMapped /\ IteratorGivesAll
    /\ DownloadIsWhole /\ StreamIsSharedOut
=============================================================================
