---------------------------- MODULE TaskDelivery ----------------------------
(***************************************************************************)
(* The path of a processing task: published by an upload, consumed by a    *)
(* worker of the consumer group (ConsumeProcessingTasksUseCase over        *)
(* KafkaMessageBroker), retried with a higher attempt number, moved to the *)
(* dead-letter topic, and brought back by the DLQ replay job.              *)
(*                                                                         *)
(* Kafka is external.  A topic is an append-only log; tasks of one image   *)
(* carry one key and so stay in one partition, and partitions do not       *)
(* interact: the model has one.  Its owner reads at "position"; aiokafka   *)
(* commits that position in the background (enable_auto_commit), and a new *)
(* owner starts from "committed".  A send may raise before or after the    *)
(* record reached the log.                                                 *)
(*                                                                         *)
(* What processing does to the image is in module ImageLifecycle: here it  *)
(* returns or raises.                                                      *)
(***************************************************************************)
EXTENDS Integers, Sequences, FiniteSets

CONSTANTS
    Workers,      \* worker processes of the consumer group
    Images,       \* image ids
    None,         \* no image, no owner
    MaxRetries,   \* retry_max_attempts, after max(..., 0)
    ReplayLimit,  \* --limit of the replay job, checked to be >= 1
    MaxForeign,   \* bound: malformed messages sent by other producers
    MaxCrashes,   \* bound: worker crashes
    MaxMoves,     \* bound: rebalances, evictions and graceful stops
    MaxReplays    \* bound: runs of the replay job

ASSUME NoneAssumption == None \notin Workers \cup Images
ASSUME ParameterAssumption == MaxRetries \in Nat /\ ReplayLimit \in Nat \ {0}
ASSUME BoundsAssumption ==
    {MaxForeign, MaxCrashes, MaxMoves, MaxReplays} \subseteq Nat

VARIABLES
    topic,        \* the log image.processing
    position,     \* records the partition's owner has taken
    committed,    \* records the group will not read again
    owner,        \* the worker the partition is assigned to
    pc,           \* what each worker is doing
    hand,         \* offset of the message each worker holds, 0 for none
    dlq,          \* the log image.processing.dlq
    dlqCommitted, \* offset committed by the replay job's group
    replay,       \* the replay job: next offset, batch end, inspected, dry_run
    published,    \* history: images whose task an upload put into the topic
    handled,      \* history: images whose processing returned
    dropped,      \* history: images whose dead letter could not be published
    lost,         \* history: images whose task was committed, then died in hand
    resent,       \* history: DLQ offsets sent back to the topic
    foreign, crashes, moves, replays   \* what the bounds count

kafka == <<topic, position, committed, owner>>
workers == <<pc, hand>>
dead == <<dlq, dlqCommitted, replay, resent, replays>>
history == <<published, handled, dropped, lost>>
counts == <<foreign, crashes, moves>>
vars == <<kafka, workers, dead, history, counts>>

(***************************************************************************)
(* What a consumer can make of a value: "task" parses; "badAttempt" names  *)
(* an image and has a malformed attempt; "badId" has an image_id that is   *)
(* no UUID; "junk" is no JSON object with an image_id.                     *)
(***************************************************************************)
Forms == {"task", "badAttempt", "badId", "junk"}

Messages == [form : Forms, image : Images \cup {None}, attempt : Nat]

Task(image, attempt) == [form |-> "task", image |-> image, attempt |-> attempt]

Malformed == [form : {"badAttempt"}, image : Images, attempt : {0}]
                \cup [form : {"badId", "junk"}, image : {None}, attempt : {0}]

Idle == [on |-> FALSE, next |-> 0, end |-> 0, inspected |-> 0, dryRun |-> FALSE]

Init ==
    /\ topic = <<>>
    /\ position = 0
    /\ committed = 0
    /\ owner = None
    /\ pc = [w \in Workers |-> "idle"]
    /\ hand = [w \in Workers |-> 0]
    /\ dlq = <<>>
    /\ dlqCommitted = 0
    /\ replay = Idle
    /\ published = {}
    /\ handled = {}
    /\ dropped = {}
    /\ lost = {}
    /\ resent = {}
    /\ foreign = 0
    /\ crashes = 0
    /\ moves = 0
    /\ replays = 0

-----------------------------------------------------------------------------
(* Producers.                                                              *)

\* UploadImageUseCase publishes {"image_id": ...} once the row is saved.  An
\* upload whose publish never reaches the log leaves no trace here.
Upload(i) ==
    /\ i \notin published
    /\ topic' = Append(topic, Task(i, 0))
    /\ published' = published \cup {i}
    /\ UNCHANGED <<position, committed, owner, workers, dead, handled, dropped, lost, counts>>

\* Another producer puts a malformed message into the topic.
ForeignPublish(m) ==
    /\ foreign < MaxForeign
    /\ foreign' = foreign + 1
    /\ topic' = Append(topic, m)
    /\ UNCHANGED <<position, committed, owner, workers, dead, history, crashes, moves>>

-----------------------------------------------------------------------------
(* One turn of execute_once.                                               *)

InHand(w) == topic[hand[w]]

Goto(w, label) == pc' = [pc EXCEPT ![w] = label]

Release(w) ==
    /\ Goto(w, "idle")
    /\ hand' = [hand EXCEPT ![w] = 0]

\* _parse_payload accepts the message.
Parses(m) == m.form = "task"

\* consume: getone returns the next record and advances the position; the value
\* is parsed at once, and a malformed one goes to the dead-letter topic.  Every record
\* has a key and a value: the service sends no other.
Fetch(w) ==
    /\ pc[w] = "idle"
    /\ owner = w
    /\ position < Len(topic)
    /\ position' = position + 1
    /\ hand' = [hand EXCEPT ![w] = position + 1]
    /\ Goto(w, IF Parses(topic[position + 1]) THEN "processing" ELSE "deadletter")
    /\ UNCHANGED <<topic, committed, owner, dead, history, counts>>

\* ProcessImageUseCase.execute returns: True, or False when the image is gone.
ProcessReturns(w) ==
    /\ pc[w] = "processing"
    /\ handled' = handled \cup {InHand(w).image}
    /\ Release(w)
    /\ UNCHANGED <<kafka, dead, published, dropped, lost, counts>>

MutMayRetry(m) == m.attempt <= MaxRetries

MayRetry(m) == m.attempt < MaxRetries

\* ProcessImageUseCase.execute raises: _handle_retry_or_dlq.
ProcessRaises(w) ==
    /\ pc[w] = "processing"
    /\ Goto(w, IF MayRetry(InHand(w)) THEN "backoff" ELSE "deadletter")
    /\ UNCHANGED <<kafka, hand, dead, history, counts>>

RetryMessage(w) == Task(InHand(w).image, InHand(w).attempt + 1)

MutPublishRetry(w) ==
    /\ pc[w] = "backoff"
    /\ topic' \in {topic, Append(topic, RetryMessage(w))}
    /\ Release(w)
    /\ UNCHANGED <<position, committed, owner, dead, history, counts>>

\* _publish_retry_message after its sleep.  A publish that raises sends the
\* message to the dead-letter topic, also when the retry did reach the log.
PublishRetry(w) ==
    /\ pc[w] = "backoff"
    /\ \/ topic' = Append(topic, RetryMessage(w)) /\ Release(w)
       \/ /\ topic' \in {topic, Append(topic, RetryMessage(w))}
          /\ Goto(w, "deadletter")
          /\ UNCHANGED hand
    /\ UNCHANGED <<position, committed, owner, dead, history, counts>>

DeadLetter(m) == [form |-> m.form, image |-> m.image]

\* _publish_dead_letter_message: when its publish raises, the error is logged
\* and the message is given up.
PublishDeadLetter(w) ==
    /\ pc[w] = "deadletter"
    /\ \/ dlq' = Append(dlq, DeadLetter(InHand(w))) /\ UNCHANGED dropped
       \/ dropped' = dropped \cup {InHand(w).image} /\ UNCHANGED dlq
    /\ Release(w)
    /\ UNCHANGED <<kafka, dlqCommitted, replay, resent, replays, published, handled, lost, counts>>

-----------------------------------------------------------------------------
(* The consumer group.                                                     *)

\* aiokafka's background task commits the owner's position, whether or not the
\* message it last handed out has been processed.
AutoCommit ==
    /\ owner # None
    /\ committed' = position
    /\ UNCHANGED <<topic, position, owner, workers, dead, history, counts>>

\* The group coordinator assigns the free partition; reading resumes from the
\* committed offset (or from the earliest record when there is none).
Assign(w) ==
    /\ owner = None
    /\ pc[w] # "down"
    /\ owner' = w
    /\ position' = committed
    /\ UNCHANGED <<topic, committed, workers, dead, history, counts>>

Move == moves < MaxMoves /\ moves' = moves + 1 /\ UNCHANGED <<foreign, crashes>>

\* A rebalance revokes the partition: the consumer commits its position first.
Revoke ==
    /\ owner # None
    /\ Move
    /\ committed' = position
    /\ owner' = None
    /\ UNCHANGED <<topic, position, workers, dead, history>>

\* The owner misses its poll interval or its session: it loses the partition
\* without a commit, and goes on with the message it holds.
Evict ==
    /\ owner # None
    /\ Move
    /\ owner' = None
    /\ UNCHANGED <<topic, position, committed, workers, dead, history>>

\* SIGTERM is seen between two messages: run_worker leaves its loop and closes
\* the broker, which commits the position.
Stop(w) ==
    /\ pc[w] = "idle"
    /\ Move
    /\ Goto(w, "down")
    /\ IF owner = w THEN committed' = position /\ owner' = None
                    ELSE UNCHANGED <<committed, owner>>
    /\ UNCHANGED <<topic, position, hand, dead, history>>

\* The worker dies with what it holds.  Its message is lost when the commit had
\* already passed it.
Crash(w) ==
    /\ pc[w] # "down"
    /\ crashes < MaxCrashes
    /\ crashes' = crashes + 1
    /\ lost' = lost \cup
         {InHand(v).image : v \in {u \in {w} : hand[u] # 0 /\ hand[u] <= committed}}
    /\ Goto(w, "down")
    /\ hand' = [hand EXCEPT ![w] = 0]
    /\ owner' = IF owner = w THEN None ELSE owner
    /\ UNCHANGED <<topic, position, committed, dead, published, handled, dropped, foreign, moves>>

\* Its supervisor starts the worker again.
Start(w) ==
    /\ pc[w] = "down"
    /\ Goto(w, "idle")
    /\ UNCHANGED <<kafka, hand, dead, history, counts>>

-----------------------------------------------------------------------------
(* The DLQ replay job: python -m src.dlq_replay.                           *)

\* _build_replay_message finds an image_id, in "payload" or in
\* "original_value"; it never looks whether the id is a UUID.
Replayable(letter) == letter.form # "junk"

ReplayMessage(letter) ==
    IF letter.form = "badId" THEN [form |-> "badId", image |-> None, attempt |-> 0]
                             ELSE Task(letter.image, 0)

ReplayStart(dryRun) ==
    /\ ~replay.on
    /\ replays < MaxReplays
    /\ replays' = replays + 1
    /\ replay' = [on |-> TRUE, next |-> dlqCommitted, end |-> dlqCommitted,
                  inspected |-> 0, dryRun |-> dryRun]
    /\ UNCHANGED <<kafka, workers, dlq, dlqCommitted, resent, history, counts>>

InBatch == replay.on /\ replay.next < replay.end

MutMaxRecords == ReplayLimit

\* max_records of getmany.
MaxRecords == ReplayLimit - replay.inspected

\* getmany returns some of the records that are there, at most max_records.
ReplayPoll ==
    /\ replay.on
    /\ replay.next = replay.end
    /\ replay.inspected < ReplayLimit
    /\ \E end \in replay.next + 1 .. Len(dlq) :
         /\ end <= replay.next + MaxRecords
         /\ replay' = [replay EXCEPT !.end = end]
    /\ UNCHANGED <<kafka, workers, dlq, dlqCommitted, resent, replays, history, counts>>

MutBatchDone(next) == dlqCommitted' = IF replay.dryRun THEN dlqCommitted ELSE replay.end

\* The commit after the last record of a batch, skipped by a dry run.
BatchDone(next) ==
    dlqCommitted' = IF next = replay.end /\ ~replay.dryRun THEN replay.end ELSE dlqCommitted

\* One record of the batch: skipped, only reported, or sent.  The commit that
\* follows the last one either succeeds or raises, which ends the job.
ReplayRecord ==
    /\ InBatch
    /\ LET letter == dlq[replay.next + 1]
           sends == Replayable(letter) /\ ~replay.dryRun
       IN  IF sends
             THEN /\ topic' = Append(topic, ReplayMessage(letter))
                  /\ resent' = resent \cup {replay.next + 1}
             ELSE UNCHANGED <<topic, resent>>
    /\ \/ /\ BatchDone(replay.next + 1)
          /\ replay' = [replay EXCEPT !.next = @ + 1, !.inspected = @ + 1]
       \/ /\ replay.next + 1 = replay.end
          /\ ~replay.dryRun
          /\ replay' = Idle
          /\ UNCHANGED dlqCommitted
    /\ UNCHANGED <<position, committed, owner, workers, dlq, replays, history, counts>>

\* send_and_wait raises, with the record in the log or not, or the job is
\* killed: it stops without a commit.
ReplayAborts ==
    /\ InBatch
    /\ ~replay.dryRun
    /\ \/ UNCHANGED topic
       \/ /\ Replayable(dlq[replay.next + 1])
          /\ topic' = Append(topic, ReplayMessage(dlq[replay.next + 1]))
    /\ replay' = Idle
    /\ UNCHANGED <<position, committed, owner, workers, dlq, dlqCommitted, resent, replays, history, counts>>

\* The limit is reached, or getmany times out with nothing.
ReplayEnds ==
    /\ replay.on
    /\ replay.next = replay.end
    /\ replay' = Idle
    /\ UNCHANGED <<kafka, workers, dlq, dlqCommitted, resent, replays, history, counts>>

ReplayStep == ReplayPoll \/ ReplayRecord \/ ReplayAborts \/ ReplayEnds

-----------------------------------------------------------------------------
ExecuteOnce(w) ==
    \/ Fetch(w)
    \/ ProcessReturns(w)
    \/ ProcessRaises(w)
    \/ PublishRetry(w)
    \/ PublishDeadLetter(w)

Next ==
    \/ \E i \in Images : Upload(i)
    \/ \E m \in Malformed : ForeignPublish(m)
    \/ \E w \in Workers :
         \/ ExecuteOnce(w)
         \/ Assign(w)
         \/ Stop(w)
         \/ Crash(w)
         \/ Start(w)
    \/ AutoCommit
    \/ Revoke
    \/ Evict
    \/ \E dryRun \in BOOLEAN : ReplayStart(dryRun)
    \/ ReplayStep

Spec == Init /\ [][Next]_vars

(***************************************************************************)
(* Workers run, the coordinator assigns a free partition, and a dead       *)
(* worker is restarted.  Nothing is assumed of uploads, commits, crashes   *)
(* or replays.                                                             *)
(***************************************************************************)
FairSpec ==
    /\ Spec
    /\ \A w \in Workers : WF_vars(ExecuteOnce(w)) /\ WF_vars(Start(w))
    /\ WF_vars(\E w \in Workers : Assign(w))

-----------------------------------------------------------------------------
(* Properties.                                                             *)

\* Every variable is in the range the code gives it.
TypeOK ==
    /\ topic \in Seq(Messages)
    /\ committed \in 0 .. Len(topic)
    /\ position \in committed .. Len(topic)
    /\ owner \in Workers \cup {None}
    /\ pc \in [Workers -> {"idle", "processing", "backoff", "deadletter", "down"}]
    /\ hand \in [Workers -> 0 .. Len(topic)]
    /\ dlq \in Seq([form : Forms, image : Images \cup {None}])
    /\ dlqCommitted \in 0 .. Len(dlq)
    /\ replay \in [on : BOOLEAN, next : 0 .. Len(dlq), end : 0 .. Len(dlq),
                   inspected : Nat, dryRun : BOOLEAN]
    /\ published \subseteq Images
    /\ handled \subseteq Images
    /\ dropped \subseteq Images \cup {None}
    /\ lost \subseteq Images \cup {None}
    /\ resent \subseteq 1 .. Len(dlq)
    /\ {foreign, crashes, moves, replays} \subseteq Nat

\* Offsets from here on will be read again or for the first time.
Frontier == IF owner = None THEN committed ELSE position

Names(message, i) == message.form \in {"task", "badAttempt"} /\ message.image = i

\* Somewhere in the system a message for image i is still alive.
Pending(i) ==
    \/ \E o \in Frontier + 1 .. Len(topic) : Names(topic[o], i)
    \/ \E w \in Workers : hand[w] # 0 /\ Names(InHand(w), i)

DeadLettered(i) == \E d \in dlqCommitted + 1 .. Len(dlq) : Names(dlq[d], i)

\* A task that was published is pending, has been processed, waits in the
\* dead-letter topic, or is one of the two kinds the code gives up: its dead
\* letter could not be published, or it was committed and its worker crashed.
\* Retries, redelivery after an eviction, ambiguous sends and replay runs that
\* are cut short never lose a task.
TaskAccounted ==
    \A i \in published \ (handled \cup dropped \cup lost) : Pending(i) \/ DeadLettered(i)

\* README.md:70: "Delivery semantics for the Kafka pipeline are at-least-once":
\* a published task whose dead letter could be written is processed, pending or
\* dead-lettered.
AtLeastOnce ==
    \A i \in published \ (handled \cup dropped) : Pending(i) \/ DeadLettered(i)

\* Every retry in the topic descends from the previous attempt of the same
\* image, published before it, and no attempt exceeds retry_max_attempts.
RetryChain ==
    \A o \in 1 .. Len(topic) :
        topic[o].attempt > 0 =>
            /\ topic[o].attempt <= MaxRetries
            /\ \E p \in 1 .. o - 1 :
                 topic[p] = Task(topic[o].image, topic[o].attempt - 1)

\* The replay job commits a dead letter only after it was sent back to the
\* topic, unless it cannot be replayed; a dry run commits nothing.
CommittedIsReplayed ==
    \A d \in 1 .. dlqCommitted : Replayable(dlq[d]) => d \in resent

\* One run of the replay job inspects at most --limit records, even while its
\* own output is failing again and coming back to the dead-letter topic.
ReplayWithinLimit ==
    /\ replay.inspected <= ReplayLimit
    /\ replay.inspected + (replay.end - replay.next) <= ReplayLimit

\* Every published task is settled: processed, dead-lettered or given up.
TaskSettles ==
    \A i \in Images :
        i \in published ~>
            (i \in handled \cup dropped \cup lost \/ \E d \in 1 .. Len(dlq) : Names(dlq[d], i))
=============================================================================
