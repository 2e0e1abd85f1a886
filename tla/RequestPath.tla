---------------------------- MODULE RequestPath ----------------------------
(***************************************************************************)
(* A request's way through one API process: the metrics middleware, the    *)
(* API key, the rate limiter of the route, and the handler, which reads    *)
(* through the process's cache, changes what it finds there and            *)
(* invalidates it.  Composes RateLimiter and ImageCache; other processes   *)
(* write the same rows.                                                    *)
(*                                                                         *)
(* FastAPI runs the dependencies in order before it reports an invalid     *)
(* parameter, so such a request has been counted by the limiter.           *)
(* The n-th write of a row gives it value n; a sweep is a write, too, and  *)
(* the next save inserts the row again.  The cache holds entities, not     *)
(* copies: one that a handler has marked shows a status its row does not.  *)
(***************************************************************************)
EXTENDS RateLimiter, ImageCache

CONSTANTS
    Requests,       \* requests, finitely many, each of which arrives once
    Clients,        \* client addresses
    AuthEnabled,    \* api_key is configured
    MaxForeign      \* bound: writes by other processes

ASSUME PathAssumption == AuthEnabled \in BOOLEAN /\ MaxForeign \in Nat
ASSUME RequestsAssumption == IsFiniteSet(Requests)

VARIABLES
    job,            \* what each request under way asks for
    pc,             \* where each request is, and how it ended
    phase,          \* what each request does with the row: see Phases
    got,            \* the row each request has read: its value and when
    writes,         \* per image: when its row was written
    gone,           \* images whose row was swept
    foreign,        \* writes by other processes so far
    overtaken,      \* images written elsewhere or since a fill read the row, or whose last
                    \*   save raised or was cancelled
    lag,            \* history: the longest time between reading a row and caching it
    staleness,      \* history: how long ago the stalest reply had been overwritten
    active, total, errors   \* the instruments of MetricsMiddleware

rows == <<writes, gone, foreign>>
history == <<overtaken, lag, staleness>>
metrics == <<active, total, errors>>
vars == <<now, limiter, store, job, pc, phase, got, rows, history, metrics>>

\* An upload concerns no image yet.
Jobs ==
    [route : {"process", "read"}, client : Clients, image : Images]
        \cup [route : {"upload", "probe"}, client : Clients, image : {None}]

\* A request that processes an image saves it when it starts, when it has finished
\* and when it has failed; then it answers with the image, as one that reads does.
Phases == {"answer", "load", "start", "finish", "fail"}

\* What the cache holds: the row an entity was loaded from, and whether it was
\* marked (mark_processing, mark_failed) since.
Entities == [row : Nat, marked : BOOLEAN]
LimiterNames == {"upload", "process", "read"}

\* The limiter the route depends on, keyed by the client's address.
Bucket(r) == <<job[r].route, job[r].client>>

Image(r) == job[r].image
Value(i) == Len(writes[i])
Stale(i) == store[i].value # [row |-> Value(i), marked |-> FALSE]
Nothing == [value |-> 0, at |-> 0]

\* How a response is counted: a success, an error status, or 429 among them.
Errors == {"failed", "limited"}
Responses == {"done"} \cup Errors

Init ==
    /\ now = 0
    /\ LimiterInit
    /\ CacheInit
    /\ job = [r \in Requests |-> None]
    /\ pc = [r \in Requests |-> "idle"]
    /\ phase = [r \in Requests |-> "answer"]
    /\ got = [r \in Requests |-> Nothing]
    /\ writes = [i \in Images |-> <<>>]
    /\ gone = {}
    /\ foreign = 0
    /\ overtaken = {}
    /\ lag = 0
    /\ staleness = 0
    /\ active = 0
    /\ total = 0
    /\ errors = 0

Goto(r, label) ==
    /\ pc' = [pc EXCEPT ![r] = label]
    /\ UNCHANGED <<job, phase, got, metrics>>

\* The next phase of a process request: what it has read is not needed any more.
Turn(r, label, next) ==
    /\ pc' = [pc EXCEPT ![r] = label]
    /\ phase' = [phase EXCEPT ![r] = next]
    /\ got' = [got EXCEPT ![r] = Nothing]
    /\ UNCHANGED <<job, metrics>>

Leave(r, label) ==
    /\ pc' = [pc EXCEPT ![r] = label]
    /\ job' = [job EXCEPT ![r] = None]
    /\ phase' = [phase EXCEPT ![r] = "answer"]
    /\ got' = [got EXCEPT ![r] = Nothing]

\* A response passes MetricsMiddleware on its way out.
Respond(r, outcome) ==
    /\ Leave(r, outcome)
    /\ active' = active - 1
    /\ total' = total + 1
    /\ errors' = IF outcome \in Errors THEN errors + 1 ELSE errors

MutFail(r) ==
    /\ Leave(r, "raised")
    /\ errors' = errors + 1
    /\ UNCHANGED <<active, total>>

\* The handler raises: MetricsMiddleware counts an error and no request.
Fail(r) ==
    /\ Leave(r, "raised")
    /\ active' = active - 1
    /\ errors' = errors + 1
    /\ UNCHANGED total

Larger(a, b) == IF a > b THEN a ELSE b

\* A reply with row v of image i, read when it was current, enters the history.
Reply(r, i, v) ==
    /\ Respond(r, "done")
    /\ staleness' = IF v < Value(i) THEN Larger(staleness, now - writes[i][v + 1]) ELSE staleness

-----------------------------------------------------------------------------
(* Before the handler.                                                     *)

\* The middleware counts the request in; /health and /metrics pass it by, and
\* /health answers 200 whatever its checks of the database and the disk say.
Receive(r) ==
    /\ pc[r] = "idle"
    /\ \E j \in Jobs :
         IF j.route = "probe"
           THEN Goto(r, "probed")
           ELSE /\ job' = [job EXCEPT ![r] = j]
                /\ pc' = [pc EXCEPT ![r] = "depends"]
                /\ phase' = [phase EXCEPT ![r] = IF j.route = "process" THEN "load" ELSE "answer"]
                /\ active' = active + 1
                /\ UNCHANGED <<got, total, errors>>
    /\ UNCHANGED <<now, limiter, store, rows, history>>

\* The dependencies of a route in their order: require_api_key may refuse the
\* request; then the rate limiter lets it pass or not.
Depends(r) ==
    /\ pc[r] = "depends"
    /\ \/ AuthEnabled /\ Respond(r, "failed") /\ UNCHANGED limiter
       \/ Admit(Bucket(r)) /\ Goto(r, "handle")
       \/ Reject(Bucket(r)) /\ Respond(r, "limited")
    /\ UNCHANGED <<now, store, rows, history>>

-----------------------------------------------------------------------------
(* Handlers.                                                               *)

\* A parameter is invalid, the upload's checks refuse its type, tags, size or
\* bytes, or an Idempotency-Key is in use.
Refuse(r) ==
    /\ pc[r] = "handle"
    /\ job[r].route = "process" => phase[r] = "load"
    /\ Respond(r, "failed")
    /\ UNCHANGED <<now, limiter, store, rows, history>>

\* The image is new: nothing is cached under its id.
Upload(r) ==
    /\ pc[r] = "handle"
    /\ job[r].route = "upload"
    /\ Respond(r, "done")
    /\ UNCHANGED <<now, limiter, store, rows, history>>

\* A batch answers with a 200 that counts the members that raised.
Raises(r) ==
    \/ Fail(r)
    \/ phase[r] # "answer" /\ Respond(r, "done")

\* CachedImageRepository.get_by_id asks the cache, and gets the entity itself.  A
\* process request marks it at once, before the save that makes it so.
Lookup(r) ==
    LET i == Image(r) IN
    /\ pc[r] = "handle"
    /\ job[r].route \in {"read", "process"}
    /\ \/ /\ Hit(i)
          /\ phase[r] = "answer"
          /\ Reply(r, i, store[i].value.row)
          /\ UNCHANGED store
       \/ /\ Hit(i)
          /\ phase[r] = "load"
          /\ store' = [store EXCEPT ![i].value.marked = TRUE]
          /\ Turn(r, "save", "start")
          /\ UNCHANGED staleness
       \/ /\ Miss(i)
          /\ Goto(r, "query")
          /\ UNCHANGED staleness
    /\ UNCHANGED <<now, limiter, rows, overtaken, lag>>

\* ... then the database: a row that is gone is a 404, except that the process
\* request that ends with it has no answer to give.
Query(r) ==
    /\ pc[r] = "query"
    /\ IF Image(r) \in gone
         THEN IF job[r].route = "process" /\ phase[r] = "answer"
                THEN Fail(r)
                ELSE Respond(r, "failed")
         ELSE /\ got' = [got EXCEPT ![r] = [value |-> Value(Image(r)), at |-> now]]
              /\ pc' = [pc EXCEPT ![r] = "fill"]
              /\ UNCHANGED <<job, phase, metrics>>
    /\ UNCHANGED <<now, limiter, store, rows, history>>

\* ... and caches what it has found, which may have been overwritten by now; a
\* process request marks the entity that is now in the cache.
Fill(r) ==
    LET i == Image(r)
        processes == phase[r] = "load"
    IN
    /\ pc[r] = "fill"
    /\ Set(i, [row |-> got[r].value, marked |-> processes])
    /\ overtaken' = IF got[r].value # Value(i) THEN overtaken \cup {i} ELSE overtaken \ {i}
    /\ lag' = Larger(lag, now - got[r].at)
    /\ IF processes
         THEN Turn(r, "save", "start") /\ UNCHANGED staleness
         ELSE Reply(r, i, got[r].value)
    /\ UNCHANGED <<now, limiter, rows>>

WriteRow(i, sweeps) ==
    /\ writes' = [writes EXCEPT ![i] = Append(@, now)]
    /\ gone' = IF sweeps THEN gone \cup {i} ELSE gone \ {i}

\* The inner save commits.
Commit(r) ==
    /\ pc[r] = "save"
    /\ WriteRow(Image(r), FALSE)
    /\ Goto(r, "invalidate")
    /\ UNCHANGED <<now, limiter, store, foreign, history>>

\* The call of the inner save raises, whether or not it has committed: nothing is
\* invalidated, and the entity stays marked.  The handler marks it failed and saves
\* it once more; when that save raises, too, it gives up.
SaveRaises(r) ==
    /\ pc[r] = "save"
    /\ \/ WriteRow(Image(r), FALSE)
       \/ UNCHANGED <<writes, gone>>
    /\ \/ phase[r] # "fail" /\ Turn(r, "save", "fail") /\ UNCHANGED overtaken
       \/ phase[r] = "fail" /\ Raises(r) /\ overtaken' = overtaken \cup {Image(r)}
    /\ UNCHANGED <<now, limiter, store, foreign, lag, staleness>>

MutInvalidate(r) ==
    /\ pc[r] = "invalidate"
    /\ \/ phase[r] = "start" /\ Goto(r, "work")
       \/ phase[r] = "finish" /\ (Turn(r, "handle", "answer") \/ Raises(r))
       \/ phase[r] = "fail" /\ Raises(r)
    /\ UNCHANGED <<now, limiter, store, rows, history>>

\* CachedImageRepository drops the entry after the commit; from now on the entity
\* the handler marks is its own.  A single image that is finished is read again for
\* the answer, unless its Idempotency-Key cannot be completed.
Invalidate(r) ==
    /\ pc[r] = "invalidate"
    /\ Drop(Image(r))
    /\ overtaken' = overtaken \ {Image(r)}
    /\ \/ phase[r] = "start" /\ Goto(r, "work")
       \/ phase[r] = "finish" /\ (Turn(r, "handle", "answer") \/ Raises(r))
       \/ phase[r] = "fail" /\ Raises(r)
    /\ UNCHANGED <<now, limiter, rows, lag, staleness>>

\* The original is read, the thumbnail made and stored; or one of them raises.
Work(r) ==
    /\ pc[r] = "work"
    /\ \E next \in {"finish", "fail"} : Turn(r, "save", next)
    /\ UNCHANGED <<now, limiter, store, rows, history>>

Raise(r) ==
    /\ pc[r] \in {"handle", "query"}
    /\ Raises(r)
    /\ UNCHANGED <<now, limiter, store, rows, history>>

\* The server cancels the request: CancelledError is no Exception, so that no
\* handler marks the image failed and the middleware counts nothing.
Cancel(r) ==
    /\ pc[r] \in {"handle", "query", "fill", "save", "invalidate", "work"}
    /\ Leave(r, "cancelled")
    /\ overtaken' = IF pc[r] \in {"save", "invalidate"} THEN overtaken \cup {Image(r)} ELSE overtaken
    /\ UNCHANGED <<now, limiter, store, rows, lag, staleness, metrics>>

Step(r) ==
    \/ Receive(r) \/ Depends(r)
    \/ Refuse(r) \/ Upload(r) \/ Lookup(r) \/ Query(r) \/ Fill(r)
    \/ Commit(r) \/ SaveRaises(r) \/ Invalidate(r) \/ Work(r) \/ Raise(r) \/ Cancel(r)

\* A worker or another API process writes the row; this cache does not hear of it.
ForeignWrite(i) ==
    /\ foreign < MaxForeign
    /\ foreign' = foreign + 1
    /\ \E sweeps \in BOOLEAN : (sweeps => i \notin gone) /\ WriteRow(i, sweeps)
    /\ overtaken' = overtaken \cup {i}
    /\ UNCHANGED <<now, limiter, store, job, pc, phase, got, lag, staleness, metrics>>

Passes == Tick /\ UNCHANGED <<limiter, store, job, pc, phase, got, rows, history, metrics>>

Next ==
    \/ \E r \in Requests : Step(r)
    \/ \E i \in Images : ForeignWrite(i)
    \/ Passes

Spec == Init /\ [][Next]_vars

-----------------------------------------------------------------------------
(* Properties.                                                             *)

\* Every variable is in the range the code gives it.
TypeOK ==
    /\ now \in 0..MaxTime
    /\ LimiterTypeOK
    /\ CacheTypeOK
    /\ job \in [Requests -> Jobs \cup {None}]
    /\ pc \in [Requests -> {"idle", "probed", "depends", "handle", "query", "fill", "save",
                             "invalidate", "work", "raised", "cancelled"} \cup Responses]
    /\ phase \in [Requests -> Phases]
    /\ writes \in [Images -> Seq(0..MaxTime)]
    /\ gone \cup overtaken \subseteq Images
    /\ {foreign, lag, staleness, active, total, errors} \subseteq Nat

\* "Write operations automatically invalidate the cache to maintain consistency"
\* (cached_image_repository.py:4-5), as far as it goes: an entity in the cache differs
\* from the row, by its values or by a mark that was never saved, only when another
\* process wrote the row, when a write overtook the fill, when the last save raised or
\* was cancelled, or while a handler is about to save it and to invalidate it.
CoherentUnlessOvertaken ==
    \A i \in Images :
        Hit(i) /\ Stale(i) =>
            \/ i \in overtaken
            \/ \E r \in Requests : pc[r] \in {"save", "invalidate"} /\ Image(r) = i

\* No reply carries a row that was overwritten or deleted longer ago than the TTL
\* and the slowest read of the database together, whoever wrote it.
BoundedStaleness == staleness <= Ttl + lag

\* How many requests are at one of these labels; under way; and over.
Count(labels) == Cardinality({r \in Requests : pc[r] \in labels})
InFlight == Count({"depends", "handle", "query", "fill", "save", "invalidate", "work"})
Over == Count({"raised", "cancelled"} \cup Responses)

\* Until a request is cancelled, the gauge of MetricsMiddleware counts the requests
\* under way; until one raises, too, the total counts those that are over; and the
\* error counter counts each that ended in an error status or an exception once.
MetricsUnlessCancelled ==
    /\ Count({"cancelled"}) = 0 => active = InFlight
    /\ Count({"cancelled", "raised"}) = 0 => total = Over
    /\ errors = Count({"raised"} \cup Errors)

\* http_active_requests is the "Number of in-flight HTTP requests" (metrics.py:54), a
\* saturation gauge (docs/project-description.md:141).
GaugeCountsInFlight == active = InFlight
=============================================================================
