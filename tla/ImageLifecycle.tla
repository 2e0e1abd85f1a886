--------------------------- MODULE ImageLifecycle ---------------------------
(***************************************************************************)
(* What happens to an image's row, its two files and the copies of its row *)
(* in the read caches: uploads, concurrent executions of                   *)
(* ProcessImageUseCase (workers, POST .../process, batches) and of         *)
(* GetImageUseCase.get_file in several processes, and the retention sweep. *)
(*                                                                         *)
(* Every process has its own InMemoryImageCache in front of the database.  *)
(* The cache hands out the entity it holds, not a copy, so two runs of one *)
(* process may work on one object; "ref" says which object a run uses.     *)
(* Cache operations hold an asyncio lock that is never contended and never *)
(* suspend, so they are part of the step around them.                      *)
(*                                                                         *)
(* repository.save is a transaction of two statements: it SELECTs the row, *)
(* copies the entity onto it, and flushes an INSERT when there was no row  *)
(* or an UPDATE of the columns that differ from what it had read.          *)
(*                                                                         *)
(* Path.write_bytes truncates the file and then fills it, in a thread: the *)
(* file is not whole in between, nor after a write that fails or dies.     *)
(*                                                                         *)
(* A file is named after its content and its filename.  A payload, the     *)
(* filename and content of an upload, is the path of its original; its     *)
(* thumbnail has the path ThumbPath gives, which depends on the pixels: a  *)
(* file that was encoded anew has the same thumbnail, and an upload may    *)
(* have the name and the content of one.  One processor is configured.     *)
(* Left out: metadata columns, idempotency keys (module UploadIdempotency),*)
(* the task queue (module TaskDelivery).                                   *)
(***************************************************************************)
EXTENDS Naturals, FiniteSets

CONSTANTS
    Images,      \* image ids
    Payloads,    \* filename and content of an upload
    ThumbPath,   \* the path of each payload's thumbnail
    Procs,       \* API and worker processes, each with a cache
    Runs,        \* executions of a use case on one image
    Kinds,       \* what they do: "process", or download "original" or "thumbnail"
    WithTtl,     \* the images uploaded with ttl_hours
    None,        \* nothing cached
    BatchSize,   \* batch_size of the sweep
    MaxFaults,   \* bound: calls to the database or the disk that raise
    MaxCrashes   \* bound: processes that die

ASSUME NoneAssumption == None \notin Runs
ASSUME InputAssumption == Kinds \subseteq {"process", "original", "thumbnail"} /\ WithTtl \subseteq Images
ASSUME ThumbAssumption ==      \* its filename starts with "thumb_", and is longer
    \A c \in Payloads : ThumbPath[c] # c
ASSUME BoundsAssumption ==
    BatchSize \in Nat \ {0} /\ MaxFaults \in Nat /\ MaxCrashes \in Nat

VARIABLES
    payload,     \* what each image was uploaded with
    upload,      \* progress of each upload: "new", "writing", "stored", "saved", "failed"
    rows,        \* table images
    expired,     \* images whose expires_at has passed
    disk,        \* paths of the files that are on disk, and whole
    job,         \* each run's process, image and kind
    pc,          \* the next step of each run
    phase,       \* which save a run is about to make: "start", "finish", "fail"
    obj,         \* the entity each run has loaded from the database
    ref,         \* the entity each run works on: its own or a cached one
    pending,     \* the statement the flush of each run's save will issue
    cache,       \* per process and image: the run whose entity is cached
    sweep,       \* images the sweeps have taken from the table and not yet cleaned
    faults, crashes

vars == <<payload, upload, rows, expired, disk, job, pc, phase,
          obj, ref, pending, cache, sweep, faults, crashes>>

entities == <<obj, ref, pending>>
bounds == <<faults, crashes>>

Statuses == {"pending", "processing", "completed", "failed"}
Entities == [status : Statuses, thumb : BOOLEAN]
Absent == [status |-> "absent", thumb |-> FALSE]

\* The defaults of a new Image.
Uploaded == [status |-> "pending", thumb |-> FALSE]

NoStatement == [insert |-> FALSE, columns |-> {}, entity |-> Uploaded]

Image(r) == job[r].image
Proc(r) == job[r].proc
Original(i) == payload[i]
Thumbnail(i) == ThumbPath[payload[i]]
Paths == Payloads \cup {ThumbPath[c] : c \in Payloads}
Present(i) == rows[i].status # "absent"
Active(r) == pc[r] \notin {"get", "done", "torn", "dead"}

Init ==
    /\ payload \in [Images -> Payloads]
    /\ upload = [i \in Images |-> "new"]
    /\ rows = [i \in Images |-> Absent]
    /\ expired = {}
    /\ disk = {}
    /\ job \in [Runs -> [proc : Procs, image : Images, kind : Kinds]]
    /\ pc = [r \in Runs |-> "get"]
    /\ phase = [r \in Runs |-> "start"]
    /\ obj = [r \in Runs |-> Uploaded]
    /\ ref = [r \in Runs |-> r]
    /\ pending = [r \in Runs |-> NoStatement]
    /\ cache = [p \in Procs |-> [i \in Images |-> None]]
    /\ sweep = {}
    /\ faults = 0
    /\ crashes = 0

-----------------------------------------------------------------------------
(* Upload: storage.store, then repository.save of a PENDING image.         *)

UploadOpen(i) ==
    /\ upload[i] = "new"
    /\ upload' = [upload EXCEPT ![i] = "writing"]
    /\ disk' = disk \ {Original(i)}
    /\ UNCHANGED <<payload, rows, expired, job, pc, phase, entities, cache, sweep, bounds>>

UploadStore(i) ==
    /\ upload[i] = "writing"
    /\ upload' = [upload EXCEPT ![i] = "stored"]
    /\ disk' = disk \cup {Original(i)}
    /\ UNCHANGED <<payload, rows, expired, job, pc, phase, entities, cache, sweep, bounds>>

UploadSave(i) ==
    /\ upload[i] = "stored"
    /\ upload' = [upload EXCEPT ![i] = "saved"]
    /\ rows' = [rows EXCEPT ![i] = Uploaded]
    /\ UNCHANGED <<payload, expired, disk, job, pc, phase, entities, cache, sweep, bounds>>

-----------------------------------------------------------------------------
(* Steps of a run.                                                         *)

Goto(r, label) == pc' = [pc EXCEPT ![r] = label]

\* mark_processing, mark_completed and mark_failed write the shared entity.
Mark(r, o, entity, next) ==
    /\ obj' = [obj EXCEPT ![o] = entity]
    /\ phase' = [phase EXCEPT ![r] = next]
    /\ Goto(r, "select")

\* The run holds entity o: a download opens the file the entity names, if any, and
\* a processing run marks the entity and saves it.
Begin(r, o, entity) ==
    IF job[r].kind # "process"
      THEN /\ Goto(r, IF job[r].kind = "thumbnail" /\ ~entity.thumb THEN "done" ELSE "read")
           /\ UNCHANGED <<obj, phase>>
      ELSE Mark(r, o, [entity EXCEPT !.status = "processing"], "start")

\* get_by_id: a cached entity is used as it is; otherwise the row is read.
Get(r) ==
    /\ pc[r] = "get"
    /\ LET hit == cache[Proc(r)][Image(r)] IN
         \/ /\ hit # None
            /\ ref' = [ref EXCEPT ![r] = hit]
            /\ Begin(r, hit, obj[hit])
         \/ /\ hit = None
            /\ ~Present(Image(r))
            /\ Goto(r, "done")
            /\ UNCHANGED <<obj, ref, phase>>
         \/ /\ hit = None
            /\ Present(Image(r))
            /\ obj' = [obj EXCEPT ![r] = rows[Image(r)]]
            /\ Goto(r, "fill")
            /\ UNCHANGED <<ref, phase>>
    /\ UNCHANGED <<payload, upload, rows, expired, disk, job, pending, cache, sweep, bounds>>

\* The session is closed and the entity, read some time ago, enters the cache.
Fill(r) ==
    /\ pc[r] = "fill"
    /\ cache' = [cache EXCEPT ![Proc(r)][Image(r)] = r]
    /\ Begin(r, r, obj[r])
    /\ UNCHANGED <<payload, upload, rows, expired, disk, job, ref, pending, sweep, bounds>>

MutChanged(entity, row) == {"status"}

\* _entity_to_model marks the columns that differ from the row just read.
Changed(entity, row) ==
    {c \in {"status", "thumb"} : entity[c] # row[c]}

\* save: session.get returns and the entity is copied onto the model.
SaveSelect(r) ==
    /\ pc[r] = "select"
    /\ LET entity == obj[ref[r]]
           row == rows[Image(r)]
       IN  pending' = [pending EXCEPT ![r] =
                          [insert |-> row.status = "absent",
                           columns |-> Changed(entity, row),
                           entity |-> entity]]
    /\ Goto(r, "flush")
    /\ UNCHANGED <<payload, upload, rows, expired, disk, job, phase, obj, ref, cache, sweep, bounds>>

\* The flush finds the row as its statement expects it.
Flushable(r) == pending[r].insert = ~Present(Image(r))

Written(r) ==
    LET stmt == pending[r] IN
    IF stmt.insert THEN stmt.entity
    ELSE [c \in {"status", "thumb"} |->
             IF c \in stmt.columns THEN stmt.entity[c] ELSE rows[Image(r)][c]]

\* save: the INSERT or UPDATE and its COMMIT.
SaveFlush(r) ==
    /\ pc[r] = "flush"
    /\ Flushable(r)
    /\ rows' = [rows EXCEPT ![Image(r)] = Written(r)]
    /\ Goto(r, "invalidate")
    /\ UNCHANGED <<payload, upload, expired, disk, job, phase, entities, cache, sweep, bounds>>

\* CachedImageRepository.save drops its process's entry once the inner save has
\* returned; the use case goes on.
Invalidate(r) ==
    /\ pc[r] = "invalidate"
    /\ cache' = [cache EXCEPT ![Proc(r)][Image(r)] = None]
    /\ Goto(r, IF phase[r] = "start" THEN "retrieve" ELSE "done")
    /\ UNCHANGED <<payload, upload, rows, expired, disk, job, phase, entities, sweep, bounds>>

\* The file a download is about.
Target(r) == IF job[r].kind = "original" THEN Original(Image(r)) ELSE Thumbnail(Image(r))

\* get_file ends: the bytes are whole, or the file is missing or being written.
Read(r) ==
    /\ pc[r] = "read"
    /\ Goto(r, IF Target(r) \in disk THEN "done" ELSE "torn")
    /\ UNCHANGED <<payload, upload, rows, expired, disk, job, phase, entities, cache, sweep, bounds>>

\* storage.retrieve of the original and generate_thumbnail.
Retrieve(r) ==
    /\ pc[r] = "retrieve"
    /\ Original(Image(r)) \in disk
    /\ Goto(r, "thumb")
    /\ UNCHANGED <<payload, upload, rows, expired, disk, job, phase, entities, cache, sweep, bounds>>

\* storage.store of the thumbnail opens the file.
OpenThumb(r) ==
    /\ pc[r] = "thumb"
    /\ disk' = disk \ {Thumbnail(Image(r))}
    /\ Goto(r, "write")
    /\ UNCHANGED <<payload, upload, rows, expired, job, phase, entities, cache, sweep, bounds>>

MutStoreThumb(r) ==
    /\ pc[r] = "write"
    /\ Mark(r, ref[r], [status |-> "completed", thumb |-> TRUE], "finish")
    /\ UNCHANGED <<payload, upload, rows, expired, disk, job, ref, pending, cache, sweep, bounds>>

MutMarkCompleted(r) ==
    /\ pc[r] = "write"
    /\ disk' = disk \cup {Thumbnail(Image(r))}
    /\ Mark(r, ref[r], [obj[ref[r]] EXCEPT !.thumb = TRUE], "finish")
    /\ UNCHANGED <<payload, upload, rows, expired, job, ref, pending, cache, sweep, bounds>>

\* The thumbnail is written, then mark_completed.
StoreThumb(r) ==
    /\ pc[r] = "write"
    /\ disk' = disk \cup {Thumbnail(Image(r))}
    /\ Mark(r, ref[r], [status |-> "completed", thumb |-> TRUE], "finish")
    /\ UNCHANGED <<payload, upload, rows, expired, job, ref, pending, cache, sweep, bounds>>

\* The except block of execute.  With a thumbnail stored it is deleted first;
\* an exception while the failure is being saved leaves execute.
Raise(r) ==
    \/ /\ phase[r] = "start"
       /\ Mark(r, ref[r], [obj[ref[r]] EXCEPT !.status = "failed"], "fail")
    \/ /\ phase[r] = "finish"
       /\ Goto(r, "cleanup")
       /\ UNCHANGED <<obj, phase>>
    \/ /\ phase[r] = "fail"
       /\ Goto(r, "done")
       /\ UNCHANGED <<obj, phase>>

\* storage.delete of the thumbnail, then mark_failed.
Cleanup(r) ==
    /\ pc[r] = "cleanup"
    /\ disk' = disk \ {Thumbnail(Image(r))}
    /\ Mark(r, ref[r], [obj[ref[r]] EXCEPT !.status = "failed"], "fail")
    /\ UNCHANGED <<payload, upload, rows, expired, job, ref, pending, cache, sweep, bounds>>

\* The step raises by itself: the original is gone (FileNotFoundError), the row
\* to UPDATE has vanished (StaleDataError) or the one to INSERT has appeared.
StepRaises(r) ==
    /\ \/ pc[r] = "retrieve" /\ Original(Image(r)) \notin disk
       \/ pc[r] = "flush" /\ ~Flushable(r)
    /\ Raise(r)
    /\ UNCHANGED <<payload, upload, rows, expired, disk, job, ref, pending, cache, sweep, bounds>>

Execute(r) ==
    \/ Get(r)
    \/ Fill(r)
    \/ SaveSelect(r)
    \/ SaveFlush(r)
    \/ Invalidate(r)
    \/ Read(r)
    \/ Retrieve(r)
    \/ OpenThumb(r)
    \/ StoreThumb(r)
    \/ Cleanup(r)
    \/ StepRaises(r)

-----------------------------------------------------------------------------
(* Faults.                                                                 *)

Fault == faults < MaxFaults /\ faults' = faults + 1 /\ UNCHANGED crashes

\* A database or storage call, or the processor, raises without an effect.
CallFails(r) ==
    /\ Fault
    /\ \/ /\ pc[r] = "read" \/ (pc[r] = "get" /\ cache[Proc(r)][Image(r)] = None)
          /\ Goto(r, "done")
          /\ UNCHANGED <<obj, phase>>
       \/ pc[r] \in {"select", "flush", "retrieve", "thumb", "write"} /\ Raise(r)
       \/ /\ pc[r] = "cleanup"
          /\ Mark(r, ref[r], [obj[ref[r]] EXCEPT !.status = "failed"], "fail")
    /\ UNCHANGED <<payload, upload, rows, expired, disk, job, ref, pending, cache, sweep>>

\* The write of an upload fails, which leaves a truncated file, or its save does,
\* which leaves the file without a row; the upload is answered with an error.
UploadFails(i) ==
    /\ Fault
    /\ upload[i] \in {"writing", "stored"}
    /\ upload' = [upload EXCEPT ![i] = "failed"]
    /\ UNCHANGED <<payload, rows, expired, disk, job, pc, phase, entities, cache, sweep>>

\* The flush commits and raises all the same; nothing is invalidated.
FlushFailsLate(r) ==
    /\ pc[r] = "flush"
    /\ Flushable(r)
    /\ Fault
    /\ rows' = [rows EXCEPT ![Image(r)] = Written(r)]
    /\ Raise(r)
    /\ UNCHANGED <<payload, upload, expired, disk, job, ref, pending, cache, sweep>>

\* A process dies with its runs, its cache and its sweep; "dead" is a run that died
\* while it wrote, and left the file truncated.
Crash(p) ==
    /\ crashes < MaxCrashes
    /\ crashes' = crashes + 1
    /\ pc' = [r \in Runs |-> IF Proc(r) # p THEN pc[r]
                             ELSE IF pc[r] \in {"write", "dead"} THEN "dead" ELSE "done"]
    /\ cache' = [cache EXCEPT ![p] = [i \in Images |-> None]]
    /\ sweep' = {s \in sweep : s.proc # p}
    /\ UNCHANGED <<payload, upload, rows, expired, disk, job, phase, entities, faults>>

-----------------------------------------------------------------------------
(* Expiry: cache entries and images.                                       *)

\* The entry outlives its TTL, or is evicted to make room.
CacheExpire(p, i) ==
    /\ cache[p][i] # None
    /\ cache' = [cache EXCEPT ![p][i] = None]
    /\ UNCHANGED <<payload, upload, rows, expired, disk, job, pc, phase, entities, sweep, bounds>>

\* The clock passes the expires_at of an image that has a TTL.
Expire(i) ==
    /\ upload[i] = "saved"
    /\ i \in WithTtl \ expired
    /\ expired' = expired \cup {i}
    /\ UNCHANGED <<payload, upload, rows, disk, job, pc, phase, entities, cache, sweep, bounds>>

MutExpirable == {i \in Images : Present(i)}

\* The rows the WHERE clauses of delete_expired_batch select.
Expirable == {i \in expired : Present(i)}

DeleteRows(batch) ==
    /\ batch # {}
    /\ Cardinality(batch) <= BatchSize
    /\ rows' = [i \in Images |-> IF i \in batch THEN Absent ELSE rows[i]]

\* delete_expired_batch in process p deletes the rows and returns what they
\* held.  Rows locked by another transaction are skipped, so any selection up to
\* batch_size is possible.  A process sweeps an image once at a time.
SweepRows(p, batch) ==
    /\ \A s \in sweep : s.image \in batch => s.proc # p
    /\ DeleteRows(batch)
    /\ sweep' = sweep \cup
                  {[proc |-> p, image |-> i, thumb |-> rows[i].thumb, step |-> "cache"] :
                      i \in batch}
    /\ UNCHANGED <<payload, upload, expired, disk, job, pc, phase, entities, cache, bounds>>

\* The rows are deleted and delete_expired_batch raises all the same.
SweepRowsFailsLate(batch) ==
    /\ Fault
    /\ DeleteRows(batch)
    /\ UNCHANGED <<payload, upload, expired, disk, job, pc, phase, entities, cache, sweep>>

\* CachedImageRepository drops the entries of its own process.
SweepInvalidate(p) ==
    LET taken == {s \in sweep : s.proc = p /\ s.step = "cache"} IN
    /\ taken # {}
    /\ cache' = [cache EXCEPT ![p] =
                    [i \in Images |-> IF \E s \in taken : s.image = i THEN None ELSE cache[p][i]]]
    /\ sweep' = (sweep \ taken) \cup {[s EXCEPT !.step = "original"] : s \in taken}
    /\ UNCHANGED <<payload, upload, rows, expired, disk, job, pc, phase, entities, bounds>>

MutSweepOriginal(s) ==
    /\ s \in sweep
    /\ s.step = "original"
    /\ sweep' = sweep \ {s}
    /\ UNCHANGED <<payload, upload, rows, expired, disk, job, pc, phase, entities, cache, bounds>>

\* ApplyRetentionUseCase deletes the original, then the thumbnail the row named.
SweepOriginal(s) ==
    /\ s \in sweep
    /\ s.step = "original"
    /\ disk' = disk \ {Original(s.image)}
    /\ sweep' = (sweep \ {s}) \cup
                   (IF s.thumb THEN {[s EXCEPT !.step = "thumb"]} ELSE {})
    /\ UNCHANGED <<payload, upload, rows, expired, job, pc, phase, entities, cache, bounds>>

SweepThumb(s) ==
    /\ s \in sweep
    /\ s.step = "thumb"
    /\ disk' = disk \ {Thumbnail(s.image)}
    /\ sweep' = sweep \ {s}
    /\ UNCHANGED <<payload, upload, rows, expired, job, pc, phase, entities, cache, bounds>>

\* OSError: counted, and the image's remaining file is skipped.
SweepFails(s) ==
    /\ s \in sweep
    /\ s.step # "cache"
    /\ Fault
    /\ sweep' = sweep \ {s}
    /\ UNCHANGED <<payload, upload, rows, expired, disk, job, pc, phase, entities, cache>>

-----------------------------------------------------------------------------
Next ==
    \/ \E i \in Images :
         UploadOpen(i) \/ UploadStore(i) \/ UploadSave(i) \/ UploadFails(i) \/ Expire(i)
    \/ \E r \in Runs : Execute(r) \/ CallFails(r) \/ FlushFailsLate(r)
    \/ \E p \in Procs :
         \/ Crash(p)
         \/ \E i \in Images : CacheExpire(p, i)
         \/ \E batch \in SUBSET Expirable : SweepRows(p, batch)
         \/ SweepInvalidate(p)
    \/ \E batch \in SUBSET Expirable : SweepRowsFailsLate(batch)
    \/ \E s \in sweep : SweepOriginal(s) \/ SweepThumb(s) \/ SweepFails(s)

Spec == Init /\ [][Next]_vars

-----------------------------------------------------------------------------
(* Properties.                                                             *)

\* Every variable is in the range the code gives it.
TypeOK ==
    /\ payload \in [Images -> Payloads]
    /\ upload \in [Images -> {"new", "writing", "stored", "saved", "failed"}]
    /\ rows \in [Images -> Entities \cup {Absent}]
    /\ expired \subseteq WithTtl
    /\ disk \subseteq Paths
    /\ job \in [Runs -> [proc : Procs, image : Images, kind : Kinds]]
    /\ pc \in [Runs -> {"get", "fill", "select", "flush", "invalidate", "retrieve",
                        "thumb", "write", "cleanup", "read", "torn", "done", "dead"}]
    /\ phase \in [Runs -> {"start", "finish", "fail"}]
    /\ obj \in [Runs -> Entities]
    /\ ref \in [Runs -> Runs]
    /\ pending \in [Runs -> [insert : BOOLEAN, columns : SUBSET {"status", "thumb"},
                             entity : Entities]]
    /\ cache \in [Procs -> [Images -> Runs \cup {None}]]
    /\ sweep \subseteq [proc : Procs, image : Images, thumb : BOOLEAN,
                        step : {"cache", "original", "thumb"}]
    /\ faults \in Nat
    /\ crashes \in Nat

\* No run is under way on the image.
AtRest(i) == \A r \in Runs : Image(r) = i => ~Active(r)

\* No two images share a file.  Those uploaded with one filename and content share
\* both; with one filename and the same pixels, the thumbnail.
Footprint(i) == {Original(i), Thumbnail(i)}
Unshared == \A i, j \in Images : i # j => Footprint(i) \cap Footprint(j) = {}

\* FR-3.2, "The system shall allow download of the original image file by ID":
\* the original of an image that has not expired is on disk, or is being written
\* anew by an upload of the same payload.
OriginalAvailable ==
    \A i \in Images :
        Present(i) /\ i \notin expired =>
            \/ Original(i) \in disk
            \/ \E j \in Images : payload[j] = payload[i] /\ upload[j] = "writing"

\* OriginalAvailable holds through every race, fault and crash as long as no two
\* images share a file: no step but the sweep deletes an original, and
\* the sweep takes only expired images.
OriginalAvailableUnlessShared == Unshared => OriginalAvailable

\* A run that writes the thumbnail of image i, died while it did, or failed and so
\* may have truncated or deleted it.
Spoils(r, i) ==
    /\ Image(r) = i
    /\ pc[r] \in {"write", "dead"} \/ phase[r] = "fail"

NamesThumb(i) == rows[i].status = "completed" \/ rows[i].thumb

\* A row that is completed or names a thumbnail, and has not expired, has its
\* thumbnail on disk, whatever runs, fails or dies on other images: the row is
\* completed only after the file was stored, and only a run on this very image that
\* is writing it anew, died while it did, or failed can have taken it away.
CompletedHasThumb ==
    Unshared =>
        \A i \in Images \ expired :
            NamesThumb(i) => Thumbnail(i) \in disk \/ \E r \in Runs : Spoils(r, i)

\* A row that has not expired is left PROCESSING with no run at work on it only
\* after a failing call or a crash: execute ends in COMPLETED or FAILED.
ProcessingIsOwned ==
    faults = 0 /\ crashes = 0 =>
        \A i \in Images \ expired :
            rows[i].status = "processing" =>
                \E r \in Runs : Image(r) = i /\ job[r].kind = "process" /\ Active(r)

\* README.md:71-72, "duplicate processing attempts are possible, so processing
\* handlers should remain idempotent": when the last of several runs on an image
\* is over, a completed row names its thumbnail, although their saves read and
\* write the row in two steps and may share one cached entity.  Their columns do
\* mix on the way: a crash of the last run can leave such a row behind, and so can
\* three runs two of which fail because an upload of the same payload, or the sweep
\* of one, has taken the original away.
CompletedNamesThumb ==
    Unshared /\ faults = 0 /\ crashes = 0 => \A i \in Images \ expired :
        /\ rows[i].status = "completed"
        /\ AtRest(i)
        => rows[i].thumb

\* Without a failing call and a crash the sweep leaves no original behind: every
\* file belongs to an upload under way, to a row, or to the sweep.
NoOrphanOriginal ==
    Unshared /\ faults = 0 /\ crashes = 0 =>
        \A i \in Images :
            Original(i) \in disk /\ upload[i] = "saved" =>
                Present(i) \/ \E s \in sweep : s.image = i

\* FR-3.2 and FR-3.3 for one download, which reads the row or a cached copy of it
\* and then the file: unless images share files or the image has expired, the file
\* it opens is whole, except for a thumbnail that a run on this very image is writing
\* anew, or that such a run has given up.
ServedWhole ==
    Unshared =>
        \A r \in Runs :
            pc[r] = "read" =>
                \/ Target(r) \in disk
                \/ Image(r) \in expired
                \/ job[r].kind = "thumbnail" /\ \E q \in Runs : Spoils(q, Image(r))
=============================================================================
