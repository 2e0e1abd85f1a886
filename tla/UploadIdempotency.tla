-------------------------- MODULE UploadIdempotency --------------------------
(***************************************************************************)
(* POST /api/v1/images with an optional Idempotency-Key: concurrent        *)
(* executions of UploadImageUseCase.execute over the shared table          *)
(* idempotency_keys (scope "upload") and the shared table images.          *)
(*                                                                         *)
(* One action per awaited call of the use case, because other requests run *)
(* between two of them.  A call to the database may fail before its        *)
(* transaction takes effect, or after it (the acknowledgement of the       *)
(* COMMIT is lost): both raise in the caller.  A request may also vanish   *)
(* at any await: its process dies or its task is cancelled, and            *)
(* CancelledError is not caught by "except Exception".                     *)
(*                                                                         *)
(* Left out: the bytes on disk (module ImageLifecycle), the read cache in  *)
(* front of get_by_id, and metrics.                                        *)
(***************************************************************************)
EXTENDS Naturals, FiniteSets

CONSTANTS
    Requests,    \* upload requests; an image takes the name of its request
    Keys,        \* values of the Idempotency-Key header
    Contents,    \* uploaded bytes
    Fields,      \* the other hashed inputs: filename, tags, ttl_hours
    None,        \* Python's None
    MaxFaults,   \* bound: database or storage calls that raise
    MaxDeaths    \* bound: requests that vanish without running their handlers

ASSUME NoneAssumption == None \notin Requests \cup Keys \cup Contents \cup Fields
ASSUME BoundsAssumption == MaxFaults \in Nat /\ MaxDeaths \in Nat

VARIABLES
    req,         \* what each request asks for: its key and its body
    pc,          \* the call each request makes next
    found,       \* image_id of the completed record a request has read
    outcome,     \* how each request was answered
    record,      \* table idempotency_keys, rows of scope "upload"
    rows,        \* table images: the ids present now
    saved,       \* history: the ids ever inserted
    tasks,       \* ids published to the topic image.processing
    faults,      \* calls that raised so far
    lateAcks,    \* completions that committed although the call raised
    deaths       \* requests that vanished so far

vars == <<req, pc, found, outcome, record, rows, saved, tasks, faults, lateAcks, deaths>>

Bodies == [content : Contents, fields : Fields]

MutHashUploadRequest(body) == <<body.content>>

\* The digest of the canonical JSON of every field and the content's digest;
\* SHA-256 is taken to be free of collisions.
HashUploadRequest(body) == <<body.fields, body.content>>

Hashes == {HashUploadRequest(b) : b \in Bodies}

Absent == [status |-> "absent", hash |-> None, image |-> None]

Records == [status : {"absent", "in_progress", "completed"},
            hash   : Hashes \cup {None},
            image  : Requests \cup {None}]

\* The request handler is inside the try block of execute.
Working == {"store", "save", "publish", "complete"}

\* From winning the claim until the record is completed or deleted.
Owning == Working \cup {"undo"}

Waiting == {"load", "claim", "reload", "fetch"} \cup Owning

Outcomes == [kind  : {"none", "created", "replayed", "conflict", "in_progress", "error"},
             image : Requests \cup {None}]

Key(r) == req[r].key
Hash(r) == HashUploadRequest(req[r].body)

Answered(r) == outcome[r].kind \in {"created", "replayed"}

-----------------------------------------------------------------------------
Init ==
    /\ req \in [Requests -> [key : Keys \cup {None}, body : Bodies]]
    /\ pc = [r \in Requests |-> IF req[r].key = None THEN "store" ELSE "load"]
    /\ found = [r \in Requests |-> None]
    /\ outcome = [r \in Requests |-> [kind |-> "none", image |-> None]]
    /\ record = [k \in Keys |-> Absent]
    /\ rows = {}
    /\ saved = {}
    /\ tasks = {}
    /\ faults = 0
    /\ lateAcks = 0
    /\ deaths = 0

Goto(r, label) == pc' = [pc EXCEPT ![r] = label]

\* Leave execute, by return or by an exception, with this outcome.
Finish(r, kind, image) ==
    /\ Goto(r, "done")
    /\ outcome' = [outcome EXCEPT ![r] = [kind |-> kind, image |-> image]]

NoFault == UNCHANGED <<faults, lateAcks, deaths>>

\* _load_idempotent_replay up to get_by_id.  An absent record sends the first
\* load on to the claim; after a lost claim it is reported as in progress.
Load(r) ==
    /\ pc[r] \in {"load", "reload"}
    /\ LET rec == record[Key(r)] IN
         \/ /\ rec.status = "absent"
            /\ IF pc[r] = "load" THEN Goto(r, "claim") /\ UNCHANGED outcome
                                 ELSE Finish(r, "in_progress", None)
            /\ UNCHANGED found
         \/ /\ rec.status # "absent"
            /\ rec.hash # Hash(r)
            /\ Finish(r, "conflict", None)
            /\ UNCHANGED found
         \/ /\ rec.status = "in_progress"
            /\ rec.hash = Hash(r)
            /\ Finish(r, "in_progress", None)
            /\ UNCHANGED found
         \/ /\ rec.status = "completed"
            /\ rec.hash = Hash(r)
            /\ IF rec.image = None
                 THEN Finish(r, "conflict", None) /\ UNCHANGED found
                 ELSE /\ found' = [found EXCEPT ![r] = rec.image]
                      /\ Goto(r, "fetch")
                      /\ UNCHANGED outcome
    /\ NoFault
    /\ UNCHANGED <<req, record, rows, saved, tasks>>

\* The get_by_id that ends _load_idempotent_replay.
FetchReplay(r) ==
    /\ pc[r] = "fetch"
    /\ IF found[r] \in rows THEN Finish(r, "replayed", found[r])
                            ELSE Finish(r, "conflict", None)
    /\ NoFault
    /\ UNCHANGED <<req, found, record, rows, saved, tasks>>

MutCreateRecord(r) ==
    record' = [record EXCEPT ![Key(r)] =
                  [status |-> "in_progress", hash |-> Hash(r), image |-> None]]

\* create_idempotency_record's INSERT; the primary key (scope, key) makes it
\* fail with IntegrityError when the record exists.
CreateRecord(r) ==
    /\ record[Key(r)].status = "absent"
    /\ record' = [record EXCEPT ![Key(r)] =
                     [status |-> "in_progress", hash |-> Hash(r), image |-> None]]

Claim(r) ==
    /\ pc[r] = "claim"
    /\ \/ CreateRecord(r) /\ Goto(r, "store")
       \/ /\ record[Key(r)].status # "absent"
          /\ Goto(r, "reload")
          /\ UNCHANGED record
    /\ NoFault
    /\ UNCHANGED <<req, found, outcome, rows, saved, tasks>>

\* storage.store of the original.
Store(r) ==
    /\ pc[r] = "store"
    /\ Goto(r, "save")
    /\ NoFault
    /\ UNCHANGED <<req, found, outcome, record, rows, saved, tasks>>

InsertRow(r) ==
    /\ rows' = rows \cup {r}
    /\ saved' = saved \cup {r}

MutSave(r) ==
    /\ pc[r] = "save"
    /\ Goto(r, "publish")
    /\ NoFault
    /\ UNCHANGED <<req, found, outcome, record, rows, saved, tasks>>

\* repository.save of the new PENDING image.
Save(r) ==
    /\ pc[r] = "save"
    /\ InsertRow(r)
    /\ Goto(r, "publish")
    /\ NoFault
    /\ UNCHANGED <<req, found, outcome, record, tasks>>

MutPublish(r) ==
    /\ pc[r] = "publish"
    /\ tasks' \in {tasks, tasks \cup {r}}
    /\ Finish(r, "created", r)
    /\ NoFault
    /\ UNCHANGED <<req, found, record, rows, saved>>

\* broker.publish.  Its failure is swallowed: the upload goes on whether the
\* task reached the topic or not.
Publish(r) ==
    /\ pc[r] = "publish"
    /\ tasks' \in {tasks, tasks \cup {r}}
    /\ IF Key(r) = None THEN Finish(r, "created", r)
                        ELSE Goto(r, "complete") /\ UNCHANGED outcome
    /\ NoFault
    /\ UNCHANGED <<req, found, record, rows, saved>>

MutCompleteRecord(r) ==
    record' = [record EXCEPT ![Key(r)] = [@ EXCEPT !.status = "done", !.image = r]]

\* complete_idempotency_record; it does nothing when the record is missing.
CompleteRecord(r) ==
    record' = [record EXCEPT ![Key(r)] =
                  IF @.status = "absent" THEN @
                  ELSE [@ EXCEPT !.status = "completed", !.image = r]]

MutComplete(r) ==
    /\ pc[r] = "complete"
    /\ record' = [record EXCEPT ![Key(r)] = Absent]
    /\ Finish(r, "created", r)
    /\ NoFault
    /\ UNCHANGED <<req, found, rows, saved, tasks>>

Complete(r) ==
    /\ pc[r] = "complete"
    /\ CompleteRecord(r)
    /\ Finish(r, "created", r)
    /\ NoFault
    /\ UNCHANGED <<req, found, rows, saved, tasks>>

\* The except block of execute: release the key, re-raise.
Undo(r) ==
    /\ pc[r] = "undo"
    /\ record' = [record EXCEPT ![Key(r)] = Absent]
    /\ Finish(r, "error", None)
    /\ NoFault
    /\ UNCHANGED <<req, found, rows, saved, tasks>>

-----------------------------------------------------------------------------
(* Faults.                                                                 *)

Fault == faults < MaxFaults /\ faults' = faults + 1 /\ UNCHANGED deaths

\* Where an exception raised by the call of pc[r] lands: calls made outside the
\* try block, and delete_idempotency_record itself, end the request.
Raise(r) ==
    IF pc[r] \in Working /\ Key(r) # None
      THEN Goto(r, "undo") /\ UNCHANGED outcome
      ELSE Finish(r, "error", None)

\* The next call raises and leaves the tables as they were.
CallFails(r) ==
    /\ pc[r] \in Waiting \ {"publish"}
    /\ Fault
    /\ Raise(r)
    /\ UNCHANGED <<req, found, record, rows, saved, tasks, lateAcks>>

\* The next call's transaction commits, and the call raises all the same.
CallFailsLate(r) ==
    /\ Fault
    /\ Raise(r)
    /\ \/ /\ pc[r] = "claim"
          /\ CreateRecord(r)
          /\ UNCHANGED <<rows, saved, lateAcks>>
       \/ /\ pc[r] = "save"
          /\ InsertRow(r)
          /\ UNCHANGED <<record, lateAcks>>
       \/ /\ pc[r] = "complete"
          /\ CompleteRecord(r)
          /\ lateAcks' = lateAcks + 1
          /\ UNCHANGED <<rows, saved>>
       \/ /\ pc[r] = "undo"
          /\ record' = [record EXCEPT ![Key(r)] = Absent]
          /\ UNCHANGED <<rows, saved, lateAcks>>
    /\ UNCHANGED <<req, found, tasks>>

\* The process dies, or the request's task is cancelled, at this await.
Die(r) ==
    /\ pc[r] \in Waiting
    /\ deaths < MaxDeaths
    /\ deaths' = deaths + 1
    /\ Goto(r, "dead")
    /\ UNCHANGED <<req, found, outcome, record, rows, saved, tasks, faults, lateAcks>>

\* The retention sweep, or a repository delete, removes the row of an image.
RemoveImage(i) ==
    /\ i \in rows
    /\ rows' = rows \ {i}
    /\ UNCHANGED <<req, pc, found, outcome, record, saved, tasks, faults, lateAcks, deaths>>

Execute(r) ==
    \/ Load(r)
    \/ FetchReplay(r)
    \/ Claim(r)
    \/ Store(r)
    \/ Save(r)
    \/ Publish(r)
    \/ Complete(r)
    \/ Undo(r)

\* Every request has been answered or is dead, and nothing more can happen.
Quiescent ==
    /\ \A r \in Requests : pc[r] \in {"done", "dead"}
    /\ UNCHANGED vars

Next ==
    \/ \E r \in Requests :
         \/ Execute(r)
         \/ CallFails(r)
         \/ CallFailsLate(r)
         \/ Die(r)
         \/ RemoveImage(r)
    \/ Quiescent

Spec == Init /\ [][Next]_vars

-----------------------------------------------------------------------------
(* Properties.                                                             *)

\* Every table and every request is in one of the states the code gives it.
TypeOK ==
    /\ req \in [Requests -> [key : Keys \cup {None}, body : Bodies]]
    /\ pc \in [Requests -> Waiting \cup {"done", "dead"}]
    /\ found \in [Requests -> Requests \cup {None}]
    /\ outcome \in [Requests -> Outcomes]
    /\ record \in [Keys -> Records]
    /\ rows \subseteq saved
    /\ saved \subseteq Requests
    /\ tasks \subseteq Requests
    /\ faults \in Nat
    /\ lateAcks \in Nat
    /\ deaths \in Nat

\* Two requests with one key are never both between winning the claim and
\* releasing it, whatever fails: create_idempotency_record is the only way in,
\* and only the owner completes or deletes the record.
OneOwner ==
    \A r, q \in Requests :
        /\ Key(r) # None
        /\ Key(r) = Key(q)
        /\ pc[r] \in Owning
        /\ pc[q] \in Owning
        => r = q

\* "Repeating the same request with the same key returns the original result":
\* two successful answers under one key carry one image.
SameAnswer ==
    \A r, q \in Requests :
        /\ Key(r) # None
        /\ Key(r) = Key(q)
        /\ Answered(r)
        /\ Answered(q)
        => outcome[r].image = outcome[q].image

\* SameAnswer holds in every run in which no completion commits while its call
\* raises; plain failures, deaths and removals do not break it.
SameAnswerUnlessLateAck == lateAcks = 0 => SameAnswer

\* A successful answer under a key is an image uploaded with that key and with
\* the very same content and fields: a key is never answered with the image of
\* another request.
AnswerMatchesRequest ==
    \A r \in Requests :
        Answered(r) /\ Key(r) # None =>
            /\ outcome[r].image \in saved
            /\ req[outcome[r].image] = req[r]

\* "without creating duplicate work": one image at most per key.
NoDuplicateWork ==
    \A r, q \in saved : Key(r) # None /\ Key(r) = Key(q) => r = q

\* Without a failing call, one image at most per key, also when requests die at
\* any await, race each other, or the image is swept between two of them.
NoDuplicateWorkUnlessFault == faults = 0 => NoDuplicateWork

\* A record is left in progress with nobody working on it only after a call
\* failed or a request died: the except block releases the key otherwise.
InProgressIsOwned ==
    \A k \in Keys :
        record[k].status = "in_progress" /\ faults = 0 /\ deaths = 0 =>
            \E r \in Requests : Key(r) = k /\ pc[r] \in Owning

\* A processing task is published only for an image whose row was committed: a
\* consumer drops a task whose image it cannot find.
TaskHasRow == tasks \subseteq saved

Contract == INSTANCE KeyContract WITH
    Callers <- Requests,
    Results <- Requests,
    status  <- [k \in Keys |-> record[k].status],
    result  <- [k \in Keys |-> record[k].image],
    holders <- [k \in Keys |-> {r \in Requests : Key(r) = k /\ pc[r] \in Owning}]

\* The records of scope "upload" implement KeyContract: only the request that
\* inserted a record completes or deletes it, and a record nobody works on any
\* more never changes, through all races, failing calls and deaths.
KeepsContract == Contract!Spec
=============================================================================
