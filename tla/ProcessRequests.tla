-------------------------- MODULE ProcessRequests --------------------------
(***************************************************************************)
(* The requests that process images: POST .../{image_id}/process with an   *)
(* optional Idempotency-Key of scope "process-image", and the members of   *)
(* one POST .../batch/process, which a semaphore lets in a few at a time.  *)
(*                                                                         *)
(* One action per awaited call of ProcessImageUseCase.execute around the   *)
(* work; the work itself (the try block: saves, files, thumbnail) is one   *)
(* step that succeeds or raises, module ImageLifecycle has its detail.     *)
(* The completion of the key and the load of the image are outside the try *)
(* block, so a call that raises there leaves the record in progress.       *)
(***************************************************************************)
EXTENDS Naturals, FiniteSets

CONSTANTS
    Requests,     \* requests of the single endpoint and members of the batch
    Images,       \* image ids; all are uploaded at first
    Keys,         \* values of the Idempotency-Key header
    None,         \* Python's None
    Concurrency,  \* concurrency of the batch
    MaxFaults,    \* bound: calls that raise
    MaxDeaths     \* bound: requests that vanish without running their handlers

ASSUME NoneAssumption == None \notin Keys \cup Images
ASSUME BoundsAssumption ==
    Concurrency \in Nat \ {0} /\ MaxFaults \in Nat /\ MaxDeaths \in Nat

VARIABLES
    req,          \* each request's key and image, and whether it belongs to the batch
    pc,           \* the call each request makes next
    reply,        \* how each request, or batch member, ended
    record,       \* idempotency_keys, rows of scope "process-image"
    rows,         \* images present in the table images
    removed,      \* history: the images the sweep has removed
    worked,       \* history: the requests whose work succeeded
    permits,      \* value of the batch's semaphore
    counts,       \* the reply to the batch: success and failed, None before
    faults, deaths

vars == <<req, pc, reply, record, rows, removed, worked, permits, counts, faults, deaths>>
tables == <<record, rows, removed>>
bounds == <<faults, deaths>>

Absent == [status |-> "absent", image |-> None]
Records == [status : {"absent", "in_progress", "completed"}, image : Images \cup {None}]

Owning == {"get", "forget", "work", "failed", "undo", "complete"}
Calling == {"load", "claim", "reload", "respond"} \cup Owning
Replies == {"none", "ok", "not_found", "conflict", "in_progress", "error", "null"}

Batch == {r \in Requests : req[r].batch}
Key(r) == req[r].key
Image(r) == req[r].image
Keyed(r) == Key(r) # None
Running == {b \in Batch : pc[b] \in Calling}

Init ==
    /\ req \in [Requests -> [key : Keys \cup {None}, image : Images, batch : BOOLEAN]]
    /\ \A b \in Batch : req[b].key = None
    /\ pc = [r \in Requests |-> IF r \in Batch THEN "wait"
                                ELSE IF Keyed(r) THEN "load" ELSE "get"]
    /\ reply = [r \in Requests |-> "none"]
    /\ record = [k \in Keys |-> Absent]
    /\ rows = Images
    /\ removed = {}
    /\ worked = {}
    /\ permits = Concurrency
    /\ counts = None
    /\ faults = 0
    /\ deaths = 0

Goto(r, label) == pc' = [pc EXCEPT ![r] = label] /\ UNCHANGED <<reply, permits>>

MutFinish(r, answer) ==
    /\ pc' = [pc EXCEPT ![r] = "done"]
    /\ reply' = [reply EXCEPT ![r] = answer]
    /\ permits' = IF r \in Batch /\ answer # "error" THEN permits + 1 ELSE permits

\* Leave execute, by return or by an exception; "async with semaphore" releases
\* the permit of a batch member either way.
Finish(r, answer) ==
    /\ pc' = [pc EXCEPT ![r] = "done"]
    /\ reply' = [reply EXCEPT ![r] = answer]
    /\ permits' = IF r \in Batch THEN permits + 1 ELSE permits

-----------------------------------------------------------------------------
(* The batch.                                                              *)

\* The semaphore has a permit left.
Unlocked == permits > 0

\* _process_one gets past the semaphore.
Enter(b) ==
    /\ pc[b] = "wait"
    /\ Unlocked
    /\ permits' = permits - 1
    /\ pc' = [pc EXCEPT ![b] = "get"]
    /\ UNCHANGED <<req, reply, tables, worked, counts, bounds>>

MutSucceeded(b) == reply[b] # "error"

Succeeded(b) == reply[b] = "ok"

\* gather returns once every member has ended; the results are counted.
BatchReturns ==
    /\ Batch # {}
    /\ counts = None
    /\ \A b \in Batch : pc[b] = "done"
    /\ counts' = [success |-> Cardinality({b \in Batch : Succeeded(b)}),
                  failed  |-> Cardinality({b \in Batch : ~Succeeded(b)})]
    /\ UNCHANGED <<req, pc, reply, tables, worked, permits, bounds>>

-----------------------------------------------------------------------------
(* ProcessImageUseCase.execute and the route around it.                    *)

MutLoad(r) ==
    /\ pc[r] \in {"load", "reload"}
    /\ IF record[Key(r)].image = Image(r) THEN Goto(r, "respond")
       ELSE IF record[Key(r)].status = "absent" THEN Goto(r, "claim")
       ELSE Finish(r, "conflict")
    /\ UNCHANGED <<req, tables, worked, counts, bounds>>

\* _load_idempotent_replay; the hash of a request stands for its image.  After a
\* lost claim an absent record counts as in progress.
Load(r) ==
    /\ pc[r] \in {"load", "reload"}
    /\ LET rec == record[Key(r)] IN
         \/ /\ rec.status = "absent"
            /\ IF pc[r] = "load" THEN Goto(r, "claim") ELSE Finish(r, "in_progress")
         \/ /\ rec.status # "absent"
            /\ rec.image # Image(r)
            /\ Finish(r, "conflict")
         \/ /\ rec = [status |-> "in_progress", image |-> Image(r)]
            /\ Finish(r, "in_progress")
         \/ /\ rec = [status |-> "completed", image |-> Image(r)]
            /\ Goto(r, "respond")
    /\ UNCHANGED <<req, tables, worked, counts, bounds>>

Write(r, rec) == record' = [record EXCEPT ![Key(r)] = rec]

MutClaim(r) ==
    /\ pc[r] = "claim"
    /\ Write(r, [status |-> "in_progress", image |-> Image(r)])
    /\ Goto(r, "get")
    /\ UNCHANGED <<req, rows, removed, worked, counts, bounds>>

\* create_idempotency_record stores the image_id with the claim.
Claim(r) ==
    /\ pc[r] = "claim"
    /\ IF record[Key(r)].status = "absent"
         THEN Write(r, [status |-> "in_progress", image |-> Image(r)]) /\ Goto(r, "get")
         ELSE Goto(r, "reload") /\ UNCHANGED record
    /\ UNCHANGED <<req, rows, removed, worked, counts, bounds>>

\* What get_by_id may find: the row, or, once another process has swept it, the
\* entity this process still caches.
Found(r) == IF Image(r) \in rows THEN {TRUE}
            ELSE IF Image(r) \in removed THEN BOOLEAN ELSE {FALSE}

\* get_by_id, outside the try block.
Get(r) ==
    /\ pc[r] = "get"
    /\ \E found \in Found(r) :
         IF found THEN Goto(r, "work")
         ELSE IF Keyed(r) THEN Goto(r, "forget")
         ELSE Finish(r, "not_found")
    /\ UNCHANGED <<req, tables, worked, counts, bounds>>

\* The image does not exist: the key is released, and the route answers 404.
Forget(r) ==
    /\ pc[r] = "forget"
    /\ Write(r, Absent)
    /\ Finish(r, "not_found")
    /\ UNCHANGED <<req, rows, removed, worked, counts, bounds>>

\* What follows a successful execute: a batch member is done, the route reads
\* the image back.
Return(r) == IF r \in Batch THEN Finish(r, "ok") ELSE Goto(r, "respond")

\* The try block succeeds.  Its saves insert the row anew when the sweep has
\* removed it since it was loaded.
Work(r) ==
    /\ pc[r] = "work"
    /\ worked' = worked \cup {r}
    /\ rows' = rows \cup {Image(r)}
    /\ IF Keyed(r) THEN Goto(r, "complete") ELSE Return(r)
    /\ UNCHANGED <<req, record, removed, counts, bounds>>

\* Something in the try block raises, before or after its first save.
WorkRaises(r) ==
    /\ pc[r] = "work"
    /\ rows' \in {rows, rows \cup {Image(r)}}
    /\ Goto(r, "failed")
    /\ UNCHANGED <<req, record, removed, worked, counts, bounds>>

MutSaveFailed(r) ==
    /\ pc[r] = "failed"
    /\ rows' = rows \cup {Image(r)}
    /\ Finish(r, "error")
    /\ UNCHANGED <<req, record, removed, worked, counts, bounds>>

\* The except block: mark_failed and save, then the key is released.
SaveFailed(r) ==
    /\ pc[r] = "failed"
    /\ rows' = rows \cup {Image(r)}
    /\ IF Keyed(r) THEN Goto(r, "undo") ELSE Finish(r, "error")
    /\ UNCHANGED <<req, record, removed, worked, counts, bounds>>

Undo(r) ==
    /\ pc[r] = "undo"
    /\ Write(r, Absent)
    /\ Finish(r, "error")
    /\ UNCHANGED <<req, rows, removed, worked, counts, bounds>>

MutComplete(r) ==
    /\ pc[r] = "complete"
    /\ Write(r, Absent)
    /\ Return(r)
    /\ UNCHANGED <<req, rows, removed, worked, counts, bounds>>

\* complete_idempotency_record, outside the try block.
Complete(r) ==
    /\ pc[r] = "complete"
    /\ Write(r, [status |-> "completed", image |-> Image(r)])
    /\ Return(r)
    /\ UNCHANGED <<req, rows, removed, worked, counts, bounds>>

\* The route ends with get_uc.execute; None does not validate as an ImageOut.
Respond(r) ==
    /\ pc[r] = "respond"
    /\ \E found \in Found(r) : Finish(r, IF found THEN "ok" ELSE "null")
    /\ UNCHANGED <<req, tables, worked, counts, bounds>>

Execute(r) ==
    \/ Load(r) \/ Claim(r) \/ Get(r) \/ Forget(r)
    \/ Work(r) \/ WorkRaises(r) \/ SaveFailed(r) \/ Undo(r)
    \/ Complete(r) \/ Respond(r)

-----------------------------------------------------------------------------
(* Faults and the sweep.                                                   *)

Fault == faults < MaxFaults /\ faults' = faults + 1 /\ UNCHANGED deaths

\* The next call raises without an effect, outside or inside the except block:
\* execute ends and the record stays as it is.
CallFails(r) ==
    /\ Fault
    /\ pc[r] \in Calling \ {"work"}
    /\ Finish(r, "error")
    /\ UNCHANGED <<req, tables, worked, counts>>

\* The transaction commits and the call raises all the same.
CallFailsLate(r) ==
    /\ Fault
    /\ \/ /\ pc[r] = "claim"
          /\ record[Key(r)].status = "absent"
          /\ Write(r, [status |-> "in_progress", image |-> Image(r)])
          /\ UNCHANGED rows
       \/ pc[r] = "failed" /\ rows' = rows \cup {Image(r)} /\ UNCHANGED record
       \/ pc[r] \in {"forget", "undo"} /\ Write(r, Absent) /\ UNCHANGED rows
       \/ /\ pc[r] = "complete"
          /\ Write(r, [status |-> "completed", image |-> Image(r)])
          /\ UNCHANGED rows
    /\ Finish(r, "error")
    /\ UNCHANGED <<req, removed, worked, counts>>

\* The process dies or the task is cancelled; a batch goes as a whole.
Die(r) ==
    /\ deaths < MaxDeaths
    /\ deaths' = deaths + 1
    /\ pc[r] \in Calling \cup {"wait"}
    /\ pc' = [q \in Requests |-> IF q = r \/ {q, r} \subseteq Batch THEN "dead" ELSE pc[q]]
    /\ UNCHANGED <<req, reply, tables, worked, permits, counts, faults>>

\* The retention sweep removes the row of an image.
Sweep(i) ==
    /\ i \in rows
    /\ rows' = rows \ {i}
    /\ removed' = removed \cup {i}
    /\ UNCHANGED <<req, pc, reply, record, worked, permits, counts, bounds>>

Quiescent ==
    /\ \A r \in Requests : pc[r] \in {"done", "dead"}
    /\ UNCHANGED vars

Next ==
    \/ \E r \in Requests : Execute(r) \/ CallFails(r) \/ CallFailsLate(r) \/ Die(r)
    \/ \E b \in Batch : Enter(b)
    \/ BatchReturns
    \/ \E i \in Images : Sweep(i)
    \/ Quiescent

Spec == Init /\ [][Next]_vars

-----------------------------------------------------------------------------
(* Properties.                                                             *)

\* Every table and every request is in one of the states the code gives it.
TypeOK ==
    /\ req \in [Requests -> [key : Keys \cup {None}, image : Images, batch : BOOLEAN]]
    /\ pc \in [Requests -> Calling \cup {"wait", "done", "dead"}]
    /\ reply \in [Requests -> Replies]
    /\ record \in [Keys -> Records]
    /\ rows \cup removed \subseteq Images
    /\ worked \subseteq Requests
    /\ permits \in 0..Concurrency
    /\ faults \in Nat
    /\ deaths \in Nat

Contract == INSTANCE KeyContract WITH
    Callers <- Requests,
    Results <- Images,
    status  <- [k \in Keys |-> record[k].status],
    result  <- [k \in Keys |-> IF record[k].status = "completed" THEN record[k].image ELSE None],
    holders <- [k \in Keys |-> {r \in Requests : Key(r) = k /\ pc[r] \in Owning}]

\* The records of scope "process-image" implement KeyContract: only the request
\* that inserted a record completes or deletes it, through all races, failing
\* calls and deaths.
KeepsContract == Contract!Spec

\* An image is processed once per key: after a success no later request with the
\* key does the work again, whichever call fails and whoever dies.  The upload
\* cannot promise as much, because its except block covers the completion.
WorkOncePerKey ==
    \A r, q \in worked : Keyed(r) /\ Key(r) = Key(q) => r = q

\* A request that is answered from the record of another was preceded by a
\* request with its key whose work on this very image succeeded.
ReplayedMeansDone ==
    \A r \in Requests :
        pc[r] = "respond" \/ reply[r] \in {"ok", "null"} =>
            \E q \in worked : q = r \/ (Keyed(r) /\ req[q] = req[r])

\* A record stays in progress without a request at work only after a call failed
\* or a request died: work that raises, and an image that is missing, release
\* the key.
InProgressIsOwned ==
    \A k \in Keys :
        record[k].status = "in_progress" /\ faults = 0 /\ deaths = 0 =>
            \E r \in Requests : Key(r) = k /\ pc[r] \in Owning

\* The semaphore's value and the members at work always add up to the batch's
\* concurrency: never more are at work, and no exception costs a permit, for which
\* the waiting members of the batch would wait for ever.
PermitsBalance ==
    (\A b \in Batch : pc[b] # "dead") => permits + Cardinality(Running) = Concurrency

\* The reply of a batch counts every member once, and as a success exactly those
\* whose work was done, whatever the members' exceptions.
CountsAreTrue ==
    counts # None =>
        /\ counts.success = Cardinality(worked \cap Batch)
        /\ counts.success + counts.failed = Cardinality(Batch)

=============================================================================
