# Verification of the image processing service

TLA+ models of the image processing service, the TLC instances that check them
and the TLAPS proofs about them. Paths below are relative to the repository's
root. `PROJECT.json` lists, in machine-readable form, the components, the
hazards, the runs, the source lines each definition stands for, and the
findings.

## 1. The system

An API process accepts images, stores the file, writes a row, and publishes a
task to Kafka. Worker processes consume tasks and make thumbnails. A sweep
deletes images whose TTL is over. Everything is asyncio: inside a process, code
interleaves at `await` only; processes share PostgreSQL, a storage volume and
Kafka.

| Component | State it keeps | Operations | What makes it correct |
|---|---|---|---|
| Upload (`use_cases/upload_image.py`) | per-request locals; table `idempotency_keys` | load record, claim, store, save, publish, complete, release | one owner per key; one answer per key; no image of somebody else's request; no work twice; no key blocked for ever |
| Processing (`use_cases/process_image.py`) | the entity in hand; `idempotency_keys` of scope `process-image` | get, mark and save, retrieve, thumbnail, store, save, failure path, completion of the key | a completed row has its thumbnail; no row stays PROCESSING; work once per key |
| Batch (`infrastructure/processing/pipeline.py`) | semaphore, results | run at most N images at once, count | the bound, no lost permit, true counts |
| Worker (`use_cases/consume_processing_tasks.py`, `worker.py`) | the message in hand | fetch, parse, process, back off and retry, dead-letter | no task is lost; attempts are bounded; every task is settled |
| Broker (`messaging/kafka_message_broker.py`) | Kafka clients, consumer position | publish, consume, commit in the background, close | at-least-once delivery; one producer |
| DLQ replay (`dlq_replay.py`) | batch, counters, committed offset | poll, skip, send, commit | commits only what it sent; respects `--limit` |
| Repository (`database/postgres_image_repository.py`) | tables `images`, `idempotency_keys` | save, get, delete expired, the four idempotency operations | concurrent saves leave a consistent row |
| Cache (`infrastructure/cache/`) | per process: entity, age and order | get, set, invalidate, evict | staleness and size are bounded |
| Storage (`storage/local_image_storage.py`) | files named by filename and content digest | store, retrieve, delete | a live row has its file, and whole |
| File names (`presentation/sanitize.py`) | none | sanitise a client's filename | safe, flat, recognisable, short enough to store |
| Retention (`use_cases/apply_retention.py`) | the batch being cleaned | delete rows, delete files | deletes expired images only, and all of them |
| Rate limiter (`presentation/api/rate_limit.py`) | timestamps per client | admit or reject | at most `max_requests` per window |
| API path (`presentation/api/`) | the request, the instruments of the metrics middleware | API key, limiter, handler, counting | counts match what happened |
| Backends (`infrastructure/processing/`, `cpp/`) | process pool | normalise, fit, resample | size within bounds, no read outside the buffer |
| Service lifecycle (`main.py`, `worker.py`, `dependencies.py`) | lazy clients, pool, engines | create on first use, signal, drain, shut down in order, restart | everything is given back; a signal ends the process |
| Configuration, logging, tracing, deployment | none that the above depends on | | |

Interactions: uploads and the API call the repository (through the cache) and
the storage; uploads and workers publish to the topic `image.processing`;
workers publish to `image.processing.dlq`; the replay job moves messages back;
workers, `POST .../process` and batches all run the processing use case on the
same rows and files; the sweep deletes rows and files under all of them.

What is hard here, and hardly reached by a unit test:

* two requests under one key between the lookup and the INSERT; exceptions
  after a commit; requests that vanish between claim and completion; a
  completion outside the `try` block;
* two runs on one image whose saves read and write the row in two statements,
  and which share one *mutable* cached entity when they run in one process;
* a file that is truncated and then filled while another run, row or download
  uses its path, or that a process leaves truncated when it dies;
* a cache fill that is overtaken by a write and its invalidation; a cached entity
  that is marked before the save that makes it so; a save that commits and
  raises, or is cancelled, before the invalidation;
* background commits ahead of processing, redelivery after an eviction, sends
  that raise although the record was written, a replay job killed mid-batch;
* files shared by equal uploads when one of them is swept, thumbnails shared by
  different uploads of one name and the same pixels, and rows that are inserted
  again by a run that loaded them before the sweep;
* publishes that race to start one producer, a start that fails or is cancelled,
  a send that then waits for ever, a `close` that raises in the middle of a
  shutdown, a child that outlives its request and the shutdown's timeout;
* members of a batch that raise while others wait for their permit; the edge of
  the rate window; requests that are cancelled while the gauge counts them.

Each is a hazard in `PROJECT.json` with the line where it bites.

## 2. Modules

Each module models one concern with every actor that touches it:

    KeyContract <== UploadIdempotency <-- UploadIdempotencyProofs <-- UploadContractProofs
        ^==== ProcessRequests <-- ProcessRequestsProofs
    TaskDelivery <-- TaskDeliveryProofs
    ImageLifecycle <-- ImageLifecycleProofs
    ServiceLifecycle <-- ServiceLifecycleProofs
    Clock <-- RateLimiter, ImageCache <-- RequestPath <-- RequestPathProofs
    Naming, Resize <-- UploadedFile <-- UploadedFileProofs

(`<==` is implemented by, `<--` extended by.) The concerns meet at narrow
points. A task is published only for a committed row (`TaskHasRow`), and a
published task is where `TaskDelivery` begins (`Upload`). A task in hand
(`processing`) is a run of kind `"process"` in `ImageLifecycle`, which returns
or raises; `TaskDelivery` and `ProcessRequests` allow both. The sweep of
`ImageLifecycle` removes rows under `UploadIdempotency`, `ProcessRequests` and
`RequestPath` at any moment. `ServiceLifecycle` stops where `TaskDelivery` says
`Stop` and crashes where it says `Crash`.

### KeyContract, UploadIdempotency, ProcessRequests

`KeyContract` is what one scope of `idempotency_keys` promises: a record is
absent, in progress or completed, and only its holder (who inserted it) settles
it, releases it, or leaves it behind. The two detailed modules implement it
(`KeepsContract`); `status` and `result` are read off the record and `holders`
are the requests between claim and completion or release. An acknowledgement
that is lost is a `Claim` that leaves no holder or a `Settle` that keeps one.

`UploadIdempotency` is `UploadImageUseCase.execute` for a set of concurrent
requests. `pc[r]` names the awaited call request `r` makes next, and one action
is one such call, since other requests run between two of them.

| State | Code |
|---|---|
| `req`, `found`, `outcome` | the command; `record.image_id`; what `execute` returns or raises |
| `record` | `idempotency_keys`, scope `upload`: status, request_hash, image_id |
| `rows`, `saved` | ids in table `images` now, and ever (history) |
| `tasks` | ids put into `image.processing` |
| `faults`, `lateAcks`, `deaths` | what the bounds and the conditional properties count |

`Load`, `FetchReplay` are `_load_idempotent_replay`; `Claim`, `Store`, `Save`,
`Publish`, `Complete` the body of `execute`; `Undo` its `except` block.
`CallFails` is a call that raises and leaves the tables alone; `CallFailsLate`
one whose transaction commits and that raises all the same; `Die` is a request
whose process dies or whose task is cancelled (`except Exception` does not catch
`CancelledError`). `Publish` never raises: the code catches its failure.
SHA-256 is taken as free of collisions: `HashUploadRequest` is the tuple of
what is hashed.

`ProcessRequests` has the same shape for `ProcessImageUseCase.execute` under the
keys of scope `process-image`, with the route's reply around it, and for the
members of one batch with its semaphore (`permits`) and its counts. The work
itself is one step that succeeds or raises; its detail is `ImageLifecycle`. The
load of the image and the completion of the key are outside the `try` block, so
a call that raises there leaves the record in progress.

### TaskDelivery

The life of a message. Kafka is external: an append-only log, a position, a
committed offset, an owner. Partitions do not interact, so there is one.
`Fetch` ... `PublishDeadLetter` are one turn of `execute_once`; `AutoCommit`,
`Assign`, `Revoke`, `Evict` are the consumer group; `Stop`, `Crash`, `Start` the
worker process; `Replay...` the job in `dlq_replay.py`, with `replay` its local
state. `handled`, `dropped`, `lost`, `resent` are history. A message is
abstracted to what the two parsers tell apart (`Forms`): the worker rejects
what is not a well-formed task, the replay job accepts anything with an
`image_id`.

### ImageLifecycle

Row, files and cached copies of an image. A run executes `ProcessImageUseCase`,
or the download of an original or a thumbnail, in some process.
`repository.save` is two steps, `SaveSelect` (the row is read, the entity copied
onto the model) and `SaveFlush` (INSERT, or UPDATE of exactly the columns that
differed), then `Invalidate`. `obj[r]` is the entity run `r` loaded; `ref[r]`
names the entity it works on, which is another run's when the cache returned
it, because the cache hands out its object and not a copy. `Raise` and `Cleanup`
are the `except` block. `SweepRows`, `SweepInvalidate`, `SweepOriginal`, `SweepThumb` are the
retention sweep; several may be under way, also of the same image if its row
came back.

`disk` holds the paths of the files that are whole: writing one is two steps, it
is truncated and then filled, and a run whose process dies in between is `"dead"`
and leaves it truncated. The storage names a file after its content and its
filename, so a payload (filename and content of an upload) *is* the path of its
original. Its thumbnail is named after the thumbnail's own bytes and
`thumb_<filename>` (`process_image.py:83`): the constant `ThumbPath` gives its
path, and nothing is assumed of it except that no thumbnail has the path of its
own original. Different uploads may share a thumbnail, and an upload may have the
path of a thumbnail. `Unshared` says that no two images have a file in common.

### RateLimiter, ImageCache, RequestPath

A request on its way through one API process. `RateLimiter` is the sliding
window of one limiter and client (`stamps` is `_requests`, `admitted` its whole
history); `ImageCache` is `InMemoryImageCache`, in which an entry expires, is
invalidated, or makes room for another. Their methods hold a lock and never
suspend, so each is one step; both read `Clock`. `RequestPath` composes them in
the order of the code: the middleware counts the request in, the API key and
the limiter may refuse it, the handler runs, the middleware counts it out. A
handler that reads goes through the cache (`Lookup`, `Query`, `Fill`). One that
processes loads the image the same way and marks what it got, which is the
entity in the cache (`Entities`: the row it was loaded from, and whether it was
marked since); then it saves when it starts, and when it has finished or failed
(`phase`). A save commits and then invalidates (`Commit`, `Invalidate`); it may
raise with or without having committed (`SaveRaises`), and the handler then
marks the entity failed and saves once more. At the end a single image is read
again for the answer. A request may be cancelled at every `await` of its
handler, also between commit and invalidation, and other processes write the
same rows. The n-th write of a row gives it the value n.

### ServiceLifecycle

One process, `role` API or worker. `EnsureProducer`, `Started`, `StartFails`
are `_ensure_producer`, which sets `_producer` before it awaits `start()`;
`Joined`, `JoinFails` the consumer's start; `Compute` uses the pool, which is created on
first use. A signal is seen by uvicorn (API) or between two messages (worker);
`Shutdown` is the `finally` block or the end of the lifespan, in its order, and
`CloseFails` skips what follows it. A request may be cancelled while it waits for
the pool, the start of the producer or a send; a cancelled start leaves
`_producer` set, as a failed one does. `SendRaises` is a send on a producer that
has not started; the code sets no timeout, so such a send may also wait for ever.
After `"closed"`, the end of the `finally` block or of the lifespan, `Exit` is the
end of the process, which comes only when its children have finished: the
interpreter joins its executors. `Restart` is the deployment's.

### Naming, Resize, UploadedFile

The pure functions, as operators. `sanitize_filename` works on classes of
characters, because it tells nothing else apart. `Only` filters a sequence; it
is `SelectSeq` written as a recursive function over positions, which a proof can
unfold. `fit_dimensions` and
`bilinear_resize_bytes` of the C++ backend are in exact arithmetic. They are
checked against reference definitions in `UploadedFile`, which follows one file
through upload, scaling and the storage of its thumbnail.

### Conventions

`...Proofs` modules hold the theorems (section 5). `MC...` modules add symmetry
sets and the instances' functions. Operators named `Mut...` are deliberate
errors, one per property, that replace the definition after them to show that
the property can fail; nothing else uses them. Every module with a state of its own
has a `TypeOK`, except `Clock`, the abstract `KeyContract` and `UploadedFile`
(there `FileInv` and `NameInv` of the proofs say what is needed). For `UploadIdempotency` a run checks it; for `ProcessRequests`,
`TaskDelivery` and `ImageLifecycle` it is a theorem and no run repeats it. For
the others TLC was run with it on an instance below; what their proofs need of
it is part of their inductive invariants.

## 3. What TLC checks

| Run | Instance | Shows |
|---|---|---|
| `upload_safety` | 3 requests, 1 key or none, 2 bodies, 2 faults, 1 death (79,724 states) | `TypeOK`, `OneOwner`, `SameAnswerUnlessLateAck`, `AnswerMatchesRequest`, `NoDuplicateWorkUnlessFault`, `InProgressIsOwned`, `TaskHasRow`, `KeepsContract` |
| `process_requests` | 3 requests with a key, without, or in a batch of concurrency 1; 2 images, 2 faults, 1 death (269 thousand) | `WorkOncePerKey`, `ReplayedMeansDone`, `InProgressIsOwned`, `PermitsBalance`, `CountsAreTrue`, `KeepsContract` |
| `delivery_workers` | 2 workers, 1 image, 1 retry, 1 crash, 2 moves (244 thousand) | `TaskAccounted`, `RetryChain`, `TaskSettles` |
| `delivery_replay` | 1 worker, 2 replay runs of limit 2, 1 malformed message (201 thousand) | `CommittedIsReplayed`, `ReplayWithinLimit` |
| `lifecycle_sharing` | 2 images, equal or different payloads, one with a TTL, 2 runs or downloads in 1 process, 1 fault, 1 crash (3.07 million) | `CompletedHasThumb`, `ServedWhole`, `OriginalAvailableUnlessShared`, `NoOrphanOriginal` |
| `lifecycle_runs` | 3 runs or downloads on 1 image in 2 processes, 1 crash (263 thousand) | `CompletedNamesThumb`, `ProcessingIsOwned` |
| `request_path` | 2 requests of 1 client, 2 images, 1 upload per window, a cache of 1 place, TTL 1, times 0 to 2, 1 foreign write (3.28 million) | `WindowBound`, `CacheBound`, `BoundedStaleness`, `CoherentUnlessOvertaken`, `MetricsUnlessCancelled` |
| `service` | an API process with 3 requests, or a worker; 3 faults (16,631) | `OneProducer`, `SendsOnRunningProducer`, `StopReleases`, `SignalEnds`, `WorkerRejoins` |
| `files` | names of up to 4 characters over 12 classes, cut off at 3; pictures of up to 6 by 6 in a box of 3 (104,470) | `SafeName`, `LettersKept`, `ShortNamesGoThrough`, `FitsBox`, `ChannelsApart` |

Bounds, and why they suffice to make the cases happen.

* Keys: two requests race for a key and a third arrives after; keys do not
  interact, so one is enough (a request may also carry none); two bodies make a
  conflict. One fault releases a key wrongly, a second hits the release. A
  batch of up to three with one permit has members that wait.
* Delivery: two workers make a redelivery; one retry makes attempts 0 and 1,
  which is every step of the retry policy; a limit of two makes batches of one
  and two records, and two replay runs make one that resumes after one that was
  cut short.
* Lifecycle: two processes have two caches, and two or three runs can share an
  entity or not. Instances with four runs and no crash, and with three runs,
  readers and a sweep in one process, were explored once without an error (5.1
  and 7.9 million states, before downloads and torn writes were added); they are
  too slow to keep. One image is enough for what its own runs do to each other,
  two for what a neighbour's runs, failures and sweep may not do. Different
  payloads have different thumbnails in these instances; where two images share
  one, `Unshared` is false and the properties promise nothing (section 4). Two
  processes with runs on and sweeps of one image at the same time, a failing call
  and a crash, were explored once for `CompletedHasThumb` and `ServedWhole` (2.90
  million states); the theorems cover them.
* Request path: two requests fill a window of one, meet its edge and overflow it;
  two images overflow one cache place; time 2 is past a TTL of 1; one foreign
  write makes every stale case. One request that processes marks the
  entity another reads or processes; three of them, with no time passing, were
  explored once (953 thousand states).
* Service: three requests are two that race for the producer and one that comes
  later; three faults are a failed start, a dead child and a failing close.
* Files: four characters hold every pair of neighbours, before and behind a
  separator, around the cut; six by six in a box of three has shrinking by whole
  and broken factors, sides that round to zero, and edges.

TLC shows the properties for these instances only; section 5 says which hold for
all.

Deadlock is checked for the two key modules, where `Quiescent` marks the only
states in which the system may stop: every request answered or dead. It is off
elsewhere: a worker without messages waits, a lifecycle or a file whose steps
are over has nothing left to do, the clock of `RequestPath` is bounded, and a
process that has left stays away unless it is restarted.

Fairness. `TaskDelivery!FairSpec`: weak fairness of each worker's turn
(`run_worker` loops; a publish is taken to return or raise), of the restart of a
worker that is down, and of the assignment of a free partition (the group
coordinator); nothing is assumed of uploads, commits, crashes, moves or
replays. `ServiceLifecycle!Fairness`: weak fairness of each task's own steps,
because the event loop runs every task that is ready, of the shutdown's steps,
and of the restart; nothing is assumed of requests, messages, signals, faults,
sends on a producer that has not started, or children nobody waits for.

The restart is what `minikube/04a-worker-deployment.yaml` guarantees, a
Deployment. `docker-compose.yml:29` has no restart policy: there a worker that
has left stays away, and `TaskSettles` and `WorkerRejoins` do not hold.

Three things are premises inside `SignalEnds` and not fairness: that messages
keep coming to a worker, that no publish waits for ever on a producer that is not
running, and, for the end of the process as against that of its shutdown, that
the children end. Liveness runs use no symmetry.

## 4. Where the code and its documents disagree

Each is a run that TLC refutes with a short trace, and a finding with the
quoted line.

| Run | What happens |
|---|---|
| `delivery_at_least_once` | the background commit covers a message as soon as it is handed out; a crash then loses it |
| `lifecycle_shared_original` | sweeping one image deletes the original another shares |
| `request_gauge` | a cancelled request stays in the gauge of requests in flight, and is not counted in the total |

Met while modelling and left without a run of their own; for those marked (t) TLC
gave a trace on a small instance. Keys:

* A call of the upload that raises after the row was committed releases the key;
  the repeated request creates a second image. `NoDuplicateWorkUnlessFault` and
  `SameAnswerUnlessLateAck` say how far the promise goes.
* `complete_idempotency_record` may commit and then raise. A second request is
  then answered from the completed record, the `except` block of the first
  deletes it, and a third request creates and returns another image.
* The completion of a `process-image` key is outside the `try` block: when it
  raises, the work is done, the record stays in progress, and every later
  request with the key is refused. In exchange `WorkOncePerKey` holds without a
  condition.
* A record left in progress, by such a call or by a request that died, is never
  released: there is no age limit, and every later request with the key gets 409.
* A process request whose key is completed, and whose image the sweep has
  removed, answers 500: the route builds a response from `None`.

Rows, files and cache:

* (t) Two different uploads of one filename and the same pixels, such as a file that
  was encoded anew, share a thumbnail; the sweep of one deletes the thumbnail of
  the other, which `docs/requirements.md:28` (FR-3.3) offers for download.
* (t) When the completing save raises, the failure path deletes the thumbnail, but
  `mark_failed` leaves its path in the entity and the row is saved with it:
  `thumbnail_available` (`docs/requirements.md:31`, FR-3.6) is true and the
  download fails.
* (t) A second run that fails, at the write or at its completing save, truncates or
  deletes the thumbnail with which the first has completed the row, although
  `README.md:71-72` asks processing to "remain idempotent".
* When the save of the failure raises as well, or the process dies, the row stays
  `PROCESSING` and no run is at work on it; a sweep that dies between the rows and
  the files leaves files nobody names. `ProcessingIsOwned` and `NoOrphanOriginal`
  are about behaviours without that.
* `docs/requirements.md:35` (FR-4.2) asks for the files to be deleted "then the
  database record"; the sweep deletes the row first.
* A run that loaded a row before the sweep inserts it again
  (`postgres_image_repository.py:25`); it is still expired, so the next sweep
  removes it.
* The saves of three concurrent runs can leave a row COMPLETED without a
  thumbnail path until the last run saves; if its process crashes first, the row
  stays so. `CompletedNamesThumb` is therefore about runs without a crash.
* The same can last where two images share their payload: the second upload
  truncates the file, or its sweep deletes it, so that two of three runs fail
  while the third completes, and their columns mix. The attempt to prove
  `CompletedNamesThumb` without the condition `Unshared` failed on this case, TLC
  gave the trace, and the property now has the condition.
* `docs/requirements.md:20` (FR-2.3) goes through `PROCESSING`; when the first
  save raises, the row goes from `PENDING` to `FAILED`.
* (t) `cached_image_repository.py:4-5`: "Write operations (save, delete) automatically
  invalidate the cache to maintain consistency". The handler marks the cached
  entity before it saves: until the invalidation, and for the TTL when the saves
  raise, readers get a status the row does not have.
* A fill that started before a write stays in the cache after the write's
  invalidation, and a save that commits and raises invalidates nothing; both
  last for the TTL (`BoundedStaleness`).
* A cache of `max_size` 0 keeps one entry (`CacheBound`).
* `presentation/sanitize.py:55` cuts names off at 255 characters ("Truncate to filesystem
  limit"), before the storage puts a hash of thirteen characters in front, and
  `thumb_` for the thumbnail. A name of 237 to 242 characters is stored and
  fails when its thumbnail is written; a longer one fails at upload. The cut may
  leave a separator at the end.

Process:

* A start that failed or was cancelled leaves `_producer` set: until the process
  ends, uploads are accepted without a task, and a worker's retries and dead
  letters are dropped. A publish on it that neither returns nor raises keeps its
  request open and with it the process, whatever signal it gets.
* A killed child breaks the pool, which is not replaced while the process is up.
* (t) After the timeout of the shutdown a child that is at work goes on, and the
  process waits for it; `CHANGELOG.md:148` says "force-cancelled on timeout".
* A worker that waits in `getone` does not see a signal until a message comes.
* A `close` that raises skips the rest of the shutdown. Also without that, an
  API process never disposes of the engine of `_session_factory`, and a worker
  never calls `shutdown_metrics`.
* (t) A request that raises counts as an error and not in the total, which
  `metrics.py:37` calls "Total HTTP requests" and `observability/middleware.py:1`
  says is recorded "for every HTTP request"; `MetricsUnlessCancelled` excepts it.

## 5. What is proved

Every invariant that a run checks is a theorem for all values of the constants.
So is the refinement of `KeyContract` by both key modules. Each theorem is of the form
`Spec => []Inv`; the refinements are `Spec => KeepsContract`.

| Module | Theorems, and the properties they state |
|---|---|
| `UploadIdempotencyProofs` | `TypeCorrect` (`TypeOK`), `Exclusion` (`OneOwner`), `Faithful` (`AnswerMatchesRequest`), `TasksHaveRows` (`TaskHasRow`), `Idempotent` (`SameAnswerUnlessLateAck`) |
| `UploadContractProofs` | `NoDuplicates` (`NoDuplicateWorkUnlessFault`), `NoStuckUpload` (`InProgressIsOwned`), `UploadsImplementContract` (`KeepsContract`) |
| `ProcessRequestsProofs` | `ProcessedOncePerKey` (`WorkOncePerKey`), `ReplaysAreEarned` (`ReplayedMeansDone`), `NoStuckRecord` (`InProgressIsOwned`), `PermitsAreKept` (`PermitsBalance`), `CountsHold` (`CountsAreTrue`), `TypesHold`, `RecordsImplementContract` (`KeepsContract`) |
| `TaskDeliveryProofs` | `DeliveryTypes`, `RetriesFormChains` (`RetryChain`), `CommitsFollowReplay` (`CommittedIsReplayed`), `ReplayIsBounded` (`ReplayWithinLimit`), `NoTaskForgotten` (`TaskAccounted`) |
| `ImageLifecycleProofs` | `LifecycleTypes`, `OriginalsStay` (`OriginalAvailableUnlessShared`), `NoOriginalIsOrphaned` (`NoOrphanOriginal`), `NoStuckProcessing` (`ProcessingIsOwned`), `CompletedRowsAreWhole` (`CompletedNamesThumb`), `CompletedRowsHaveThumbs` (`CompletedHasThumb`), `DownloadsAreWhole` (`ServedWhole`) |
| `RequestPathProofs` | `RateIsBounded` (`WindowBound`), `CacheIsBounded` (`CacheBound`), `MetricsHold` (`MetricsUnlessCancelled`), `StalenessIsBounded` (`BoundedStaleness`), `CacheIsCoherent` (`CoherentUnlessOvertaken`) |
| `ServiceLifecycleProofs` | `AtMostOneProducer` (`OneProducer`), `ProducerOutlivesSends` (`SendsOnRunningProducer`), `ShutdownReleases` (`StopReleases`) |
| `UploadedFileProofs` | `ThumbnailsFit` (`FitsBox`), `ChannelsStayApart` (`ChannelsApart`), `SafeNames` (`SafeName`), `LettersStay` (`LettersKept`), `ShortNamesPass` (`ShortNamesGoThrough`) |

Assumptions. Each module's `ASSUME`s, and nothing else: `None` is none of the
values it stands beside; limits, windows, TTLs, sizes and the bounds on faults
are natural numbers (a replay limit and a thumbnail's side are positive); a
worker's loop is one of its tasks. Three deserve a word. `ThumbAssumption`: a
thumbnail's path differs from that of its own original, because its filename is
longer by `thumb_`. `RequestsAssumption`:
the requests of `RequestPath` are finitely many, because the gauge counts them.
`PictureAssumption`: a decoded picture has positive sides, one to four channels
and a byte per channel and pixel, which Pillow guarantees. (`NameAssumption`
only says that names are sequences of the classes of characters, of any length.)
The sets of
requests, keys, images, workers and runs may have any size; in `ProcessRequestsProofs` even the batch may be infinite,
since its semaphore lets only finitely many members in. SHA-256 is injective, as
in section 2.

The arguments, and why the properties are not inductive by themselves:

* Upload, `IndInv`. That a second claim cannot succeed rests on
  `OwnerHoldsRecord` (whoever is between claim and release has a record that is
  not absent and carries its hash), and that it stays so on `OneOwner`, since
  only an owner deletes a record. `AnswerMatchesRequest` needs
  `RecordNamesUpload`, `FoundNamesUpload` (the image a request has read from a
  record that may be gone by now) and `SavedFirst`.
* Upload, `FixedInv`, on top of `IndInv`: while no completion has committed
  late, an owner's record is in progress, so the `except` block can only release
  a record nobody was answered from; two answers agree because they agree with
  one record. Section 4 gives the behaviour that makes the condition necessary.
* Upload, `KeepInv`, for the rest: inside the `try` block the record is in
  progress, the `except` block is entered only after a failing call, and a key
  that has produced an image keeps its record until then.
* Processing, `KeyInv`: once work under a key has succeeded its record stays,
  and nobody but the request that did it may change it (`WorkKeepsKey`). In
  contrast to the upload this needs no condition on faults, because the
  completion is outside the `try` block. `BatchInv` counts the members at work
  against the permits, and needs that a batch dies as a whole.
* Contract. The refinement maps a record's status and image, and the set of
  requests between claim and completion or release, to `status`, `result` and
  `holders`. Each action is shown to be one contract step of the record it
  touches, under the invariants above; all others stutter.
* Delivery, `AccountInv`. A worker that was evicted may crash with the last
  message that names a task; `Taken` says that whoever read the message again
  has left another trace of it. A replay run commits at the end of a batch,
  while what it has sent back may already be dead-lettered again; `Kept` counts
  a dead letter as waiting only while the run has not passed it. `RunInv` says
  that a run has sent back everything replayable before its next offset.
* Lifecycle, `BaseInv`: runs, cached entities and sweeps belong to images that
  were saved; only a sweep of an expired image removes a row; where no two images
  share a file, an original is on disk from its upload to its sweep. That a step
  on one image leaves the files of the others alone is `PathsApart`.
* Lifecycle, `StatusInv` and `ThumbInv`: concurrent saves mix their columns, so
  no condition on the row alone survives. The invariants promise for a row in an
  unfinished state a run that *closes* the column: it has not yet read the row
  for its last save, or it has and found the column different. That the last
  save never writes PROCESSING needs that a run past its first save has dropped
  its entity from the cache, so that nobody marks the shared entity again.
  `FilesInv`, which holds through every failing call and crash: whatever names a
  thumbnail (row, entity, pending save, download) does so after a run stored it,
  and only a run on the same image that writes it anew, or has given it up
  (`GivenUp`: it failed, or died while it wrote), has taken it away since. Such a
  run stays given up (`GivenUpStays`), and no other image's run or sweep has the
  path.
* Request path. `LimiterInv`: what a bucket remembers is the end of what it
  admitted, and what it has forgotten is outdated at its clock. `PathInv`: a
  value that was read was current at the time of the read, and an entry expires
  at most a TTL and the longest read after its value was overwritten.
  `CoherentUnlessOvertaken` follows from it case by case: whoever marks the entity
  in the cache is then about to save it, and leaves that state only through the
  invalidation, or through an exception or a cancellation that `overtaken`
  records. For the metrics the proof counts more than the property says
  (`MetricsAddUp`): the gauge holds the requests under way and the cancelled ones,
  the total those that were answered.
* Process, `ServiceInv`: the task that created the producer is the one that
  starts it; a shutdown begins when no task is under way; each phase of it adds
  to what has been given back.
* Thumbnails. `FileInv` reduces both theorems to facts about the operators of
  `Resize`: rounding a side, scaled by the box over the longer one, stays within
  the box, and the rounding errors of both sides together stay below half the
  longer one; the four corners of a target byte lie in the source and in the
  target byte's channel, their weights add up to the unit, and a weighted mean,
  cut off, stays among its values.
* Names. `NameInv` says that a file past its upload has the sanitised name, and
  was refused only for its length; the rest is about operators. `LastParts`: the
  last component is a part of the path that begins behind a slash, has none in
  it, and has no letter behind it (a letter behind it would lie in a later
  component, `HasComponent`). `Cleans`: stripping removes only what may go at
  either end, and `Collapses` shows, prefix by prefix, that the last character
  kept is a separator only if the last one read is, so that no two follow each
  other. That no step loses or moves a letter is said with the filter
  `LettersOf` of both sides (`OnlyAgrees`, `OnlyOfPart`, `OnlyOfOnly`).
  `SanitisesNothing`: every step leaves a safe name alone.

Induction over data. The library's induction theorems take an operator as a
parameter, which the installed provers cannot instantiate. `UploadedFileProofs`
states induction about a set instead (`LeastNatural`, `Induction`,
`SequenceInduction`), and uses it for what a recursive function computes: first
that a function satisfying the recursive equation exists (`FilterExists`,
`FlattenExists`), so that the `CHOOSE` behind the definition has it, then its
facts by induction over prefixes.

The inductive invariants were checked with TLC on the instances of section 3
before they were proved.

Only model-checked:

* `TaskSettles`, `SignalEnds`, `WorkerRejoins`: liveness under fairness is
  outside the prover's reach.
* That the properties refuted in section 4 do not hold.

## 6. What is not modelled

* Pillow's resampling and the image codecs, which are libraries, and the
  metadata columns. `Resize` is exact where the C++ code computes in floating
  point, so a result that is off by the rounding of one operation is not seen,
  and the SSE2 and scalar variants are one operator. Palette and CMYK pictures,
  which Pillow converts first, are not told apart from grey and four-channel ones.
* A record without a key or without a value, at which the consumer's `decode`
  raises out of the loop (`kafka_message_broker.py:118`,
  `consume_processing_tasks.py:175`): the service's own producers send none.
* A change of the thumbnail's size or of the processor between two runs on one
  image, which would give it a second thumbnail path. Two writes of one path that
  overlap have the same bytes, so the order of their blocks does not matter.
* Wording, headers, schemas, correlation ids and the mapping of errors to status
  codes, beyond success, refusal and exception; traces, logs and the parsing of
  settings; migrations and manifests.
* Listing and counting, which keep no state; `delete`, `get_expired` and `clear`,
  which no use case calls. The in-memory broker, which only tests use.
* In `RequestPath`, a sweep or a run that the same process carries out outside a
  request: its invalidation is part of `ImageLifecycle`.
* Time outside `Clock`: a TTL ends, a backoff is over, a poll interval is missed
  at any moment. That is weaker than the code and so safe for the safety
  properties.
* PostgreSQL's and Kafka's internals: a transaction's statements are atomic and
  see committed data (READ COMMITTED); a record that was acknowledged is not
  lost. Two processes that create the same file name are ordered by the file
  system.

## 7. State of the work

Done: the core modules and their runs; the contract of the keys and its two
implementations, the batch, torn writes and downloads, limiter, cache and
request path, the life of a process, names and pixels; the proofs of section 5,
which cover every invariant of the runs.

What could be added:

1. What the row of an image promises (only forward through its states while
   nothing fails and one run is at work), as an abstract specification that
   `ImageLifecycle` implements.
2. The rounding of the C++ backend's floating point, which `Resize` leaves out.
3. The liveness properties, with a prover that has fairness.

An abstract specification of the delivery (a task is open, settled or given up)
was considered and left out: its only content beyond the histories of
`TaskDelivery` is `TaskAccounted`, which is proved.

## 8. Running it

In this directory, `tlc -workers 2 -config <run>.cfg <module>` for the module
that `PROJECT.json` gives for the run, and `tlapm <module>` for each
`...Proofs.tla`.
