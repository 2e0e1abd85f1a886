------------------------- MODULE TaskDeliveryProofs -------------------------
(***************************************************************************)
(* Proofs about TaskDelivery, for any number of workers, images, retries,  *)
(* crashes, rebalances, malformed messages and replay runs.                *)
(*                                                                         *)
(* TaskAccounted is not inductive, for two reasons.  A worker that was     *)
(* evicted may crash with the only message in hand that TaskAccounted can  *)
(* name; Taken says that the owner who has read that message again since   *)
(* has left another one.  And a replay run commits only at the end of a    *)
(* batch, while the tasks it has sent back may have been consumed and even *)
(* dead-lettered again; Kept counts a dead letter as waiting only while    *)
(* the run has not passed it.                                              *)
(***************************************************************************)
EXTENDS TaskDelivery, TLAPS

\* A worker holds a message while it works on it; only a parsed one is
\* processed, and only one with attempts left is retried.
WorkerInv ==
    \A w \in Workers :
        /\ hand[w] = 0 <=> pc[w] \in {"idle", "down"}
        /\ pc[w] \in {"processing", "backoff"} => Parses(InHand(w))
        /\ pc[w] = "backoff" => MayRetry(InHand(w))

NamesImages ==
    /\ \A o \in 1 .. Len(topic) : topic[o].form \in {"task", "badAttempt"} => topic[o].image \in Images
    /\ \A d \in 1 .. Len(dlq) : dlq[d].form \in {"task", "badAttempt"} => dlq[d].image \in Images

\* A run that is not a dry run has sent back everything before its next offset.
ReplayInv ==
    /\ ~replay.on => replay = Idle
    /\ replay.next <= replay.end
    /\ replay.on /\ ~replay.dryRun =>
          /\ dlqCommitted <= replay.next
          /\ \A d \in 1 .. replay.next : Replayable(dlq[d]) => d \in resent

StateInv == TypeOK /\ WorkerInv /\ NamesImages

\* Dead letters beyond this offset have not been sent back by the run under way.
DlqFrontier == IF replay.on /\ ~replay.dryRun THEN replay.next ELSE dlqCommitted

Waiting(i) == \E d \in DlqFrontier + 1 .. Len(dlq) : Names(dlq[d], i)

Unsettled == published \ (handled \cup dropped \cup lost)

Kept == \A i \in Unsettled : Pending(i) \/ Waiting(i)

OwnerHolds(i) == hand[owner] # 0 /\ Names(topic[hand[owner]], i)
Ahead(i) == \E o \in position + 1 .. Len(topic) : Names(topic[o], i)

\* What the owner has read since the last commit it still holds, or it has left
\* another message for the image.
Taken ==
    owner # None =>
        \A i \in Unsettled, o \in committed + 1 .. position :
            Names(topic[o], i) => Ahead(i) \/ OwnerHolds(i) \/ Waiting(i)

-----------------------------------------------------------------------------
(* Logs.                                                                   *)

LEMMA AppendFacts ==
    ASSUME NEW S, NEW s \in Seq(S), NEW e \in S
    PROVE  /\ Append(s, e) \in Seq(S)
           /\ Len(s) \in Nat
           /\ Len(Append(s, e)) = Len(s) + 1
           /\ \A o \in 1 .. Len(s) : Append(s, e)[o] = s[o] /\ s[o] \in S
           /\ Append(s, e)[Len(s) + 1] = e
OBVIOUS

Letters == [form : Forms, image : Images \cup {None}]

\* What may come to the end of the topic: an upload, a malformed message, a retry
\* of a task that is there, or what the replay job makes of a dead letter.
Publishable(m) ==
    /\ m \in Messages
    /\ m.form \in {"task", "badAttempt"} => m.image \in Images
    /\ m.attempt > 0 =>
          /\ m.attempt <= MaxRetries
          /\ \E p \in 1 .. Len(topic) : topic[p] = Task(m.image, m.attempt - 1)

TopicStep == topic' = topic \/ \E m \in Messages : Publishable(m) /\ topic' = Append(topic, m)

\* A log keeps what it has.
Grown ==
    /\ topic' \in Seq(Messages)
    /\ Len(topic) \in Nat /\ Len(topic') \in Nat /\ Len(topic) <= Len(topic')
    /\ \A o \in 1 .. Len(topic) : topic'[o] = topic[o]

LEMMA TopicGrows ==
    ASSUME topic \in Seq(Messages), TopicStep
    PROVE  Grown
<1>1. CASE topic' = topic
  BY <1>1 DEF Grown
<1>2. ASSUME NEW m \in Messages, topic' = Append(topic, m) PROVE Grown
  BY <1>2, AppendFacts DEF Grown
<1> QED
  BY <1>1, <1>2 DEF TopicStep

LEMMA HeldMessage ==
    ASSUME StateInv, NEW w \in Workers, hand[w] # 0
    PROVE  /\ hand[w] \in 1 .. Len(topic)
           /\ InHand(w) \in Messages
           /\ InHand(w).form \in {"task", "badAttempt"} => InHand(w).image \in Images
<1>1. hand[w] \in 1 .. Len(topic) /\ topic \in Seq(Messages)
  BY DEF StateInv, TypeOK
<1> QED
  BY <1>1 DEF InHand, StateInv, NamesImages

LEMMA TaskType ==
    ASSUME NEW i \in Images, NEW a \in Nat
    PROVE  Task(i, a) \in Messages /\ Task(i, a).image = i /\ Task(i, a).attempt = a
           /\ Task(i, a).form = "task"
BY DEF Task, Messages, Forms

LEMMA TaskShape ==
    ASSUME NEW m \in Messages, m.form = "task"
    PROVE  m = Task(m.image, m.attempt) /\ m.attempt \in Nat
BY DEF Task, Messages

LEMMA RetryIsPublishable ==
    ASSUME StateInv, NEW w \in Workers, pc[w] = "backoff"
    PROVE  Publishable(RetryMessage(w)) /\ Names(RetryMessage(w), InHand(w).image)
<1>1. hand[w] # 0 /\ Parses(InHand(w)) /\ MayRetry(InHand(w))
  BY DEF StateInv, WorkerInv
<1>2. /\ hand[w] \in 1 .. Len(topic)
      /\ InHand(w) \in Messages
      /\ InHand(w).image \in Images
  BY <1>1, HeldMessage DEF Parses
<1>3. InHand(w) = Task(InHand(w).image, InHand(w).attempt) /\ InHand(w).attempt \in Nat
  <2>1. InHand(w).form = "task"
    BY <1>1 DEF Parses
  <2> QED
    BY <1>2, <2>1, TaskShape
<1>4. RetryMessage(w) \in Messages /\ RetryMessage(w).image = InHand(w).image
      /\ RetryMessage(w).attempt = InHand(w).attempt + 1 /\ RetryMessage(w).form = "task"
  BY <1>2, <1>3, TaskType DEF RetryMessage
<1>5. RetryMessage(w).attempt <= MaxRetries /\ RetryMessage(w).attempt - 1 = InHand(w).attempt
  BY <1>1, <1>3, <1>4, ParameterAssumption DEF MayRetry
<1>6. \E p \in 1 .. Len(topic) : topic[p] = Task(RetryMessage(w).image, RetryMessage(w).attempt - 1)
  BY <1>2, <1>3, <1>4, <1>5 DEF InHand
<1> QED
  BY <1>2, <1>4, <1>5, <1>6 DEF Publishable, Names

LEMMA ReplayIsPublishable ==
    ASSUME StateInv, NEW d \in 1 .. Len(dlq), Replayable(dlq[d])
    PROVE  /\ Publishable(ReplayMessage(dlq[d]))
           /\ \A i : Names(dlq[d], i) => Names(ReplayMessage(dlq[d]), i)
<1>1. dlq[d] \in Letters /\ (dlq[d].form \in {"task", "badAttempt"} => dlq[d].image \in Images)
  <2>1. dlq \in Seq(Letters)
    BY DEF StateInv, TypeOK, Letters
  <2>2. dlq[d] \in Letters
    BY <2>1
  <2> QED
    BY <2>2 DEF StateInv, NamesImages
<1>2. CASE dlq[d].form = "badId"
  BY <1>2 DEF ReplayMessage, Publishable, Messages, Forms, Names
<1>3. CASE dlq[d].form # "badId"
  <2>1. dlq[d].image \in Images /\ ReplayMessage(dlq[d]) = Task(dlq[d].image, 0)
    BY <1>1, <1>3 DEF Replayable, Letters, Forms, ReplayMessage
  <2> QED
    BY <2>1, TaskType DEF Publishable, Names
<1> QED
  BY <1>2, <1>3

\* Every step of the system that touches the topic appends one publishable message.
LEMMA StepsPublish ==
    ASSUME StateInv, [Next]_vars
    PROVE  TopicStep
<1>1. ASSUME NEW i \in Images, Upload(i) PROVE TopicStep
  BY <1>1, TaskType DEF Upload, TopicStep, Publishable
<1>2. ASSUME NEW m \in Malformed, ForeignPublish(m) PROVE TopicStep
  <2>1. m \in Messages /\ m.attempt = 0 /\ (m.form \in {"task", "badAttempt"} => m.image \in Images)
    BY DEF Malformed, Messages, Forms
  <2> QED
    BY <1>2, <2>1 DEF ForeignPublish, TopicStep, Publishable
<1>3. ASSUME NEW w \in Workers, PublishRetry(w) PROVE TopicStep
  BY <1>3, RetryIsPublishable DEF PublishRetry, TopicStep, Publishable
<1>4. CASE ReplayRecord \/ ReplayAborts
  <2>1. replay.next + 1 \in 1 .. Len(dlq)
    BY <1>4 DEF ReplayRecord, ReplayAborts, InBatch, StateInv, TypeOK
  <2>2. CASE Replayable(dlq[replay.next + 1])
    BY <1>4, <2>1, <2>2, ReplayIsPublishable DEF ReplayRecord, ReplayAborts, TopicStep, Publishable
  <2>3. CASE ~Replayable(dlq[replay.next + 1])
    BY <1>4, <2>3 DEF ReplayRecord, ReplayAborts, TopicStep
  <2> QED
    BY <2>2, <2>3
<1>5. CASE ReplayPoll \/ ReplayEnds \/ \E dryRun \in BOOLEAN : ReplayStart(dryRun)
  BY <1>5 DEF ReplayPoll, ReplayEnds, ReplayStart, TopicStep, kafka
<1>6. ASSUME NEW w \in Workers,
             Fetch(w) \/ ProcessReturns(w) \/ ProcessRaises(w) \/ PublishDeadLetter(w)
      PROVE  TopicStep
  BY <1>6 DEF Fetch, ProcessReturns, ProcessRaises, PublishDeadLetter, TopicStep, kafka
<1>7. ASSUME NEW w \in Workers, Assign(w) \/ Stop(w) \/ Crash(w) \/ Start(w) PROVE TopicStep
  BY <1>7 DEF Assign, Stop, Crash, Start, TopicStep, kafka
<1>8. CASE AutoCommit \/ Revoke \/ Evict \/ UNCHANGED vars
  BY <1>8 DEF AutoCommit, Revoke, Evict, vars, TopicStep, kafka
<1> QED
  BY <1>1, <1>2, <1>3, <1>4, <1>5, <1>6, <1>7, <1>8 DEF Next, ExecuteOnce, ReplayStep

\* The dead-letter topic grows by the message a worker holds.
DlqStep ==
    \/ dlq' = dlq
    \/ \E w \in Workers : hand[w] # 0 /\ dlq' = Append(dlq, DeadLetter(InHand(w)))

DlqGrown ==
    /\ dlq' \in Seq(Letters)
    /\ Len(dlq) \in Nat /\ Len(dlq') \in Nat /\ Len(dlq) <= Len(dlq')
    /\ \A d \in 1 .. Len(dlq) : dlq'[d] = dlq[d]

LEMMA StepsDeadLetter ==
    ASSUME StateInv, [Next]_vars
    PROVE  DlqStep
<1>1. ASSUME NEW w \in Workers, PublishDeadLetter(w) PROVE DlqStep
  <2>1. hand[w] # 0
    BY <1>1 DEF PublishDeadLetter, StateInv, WorkerInv
  <2> QED
    BY <1>1, <2>1 DEF PublishDeadLetter, DlqStep
<1>2. CASE \E i \in Images : Upload(i)
  BY <1>2 DEF Upload, DlqStep, dead
<1>3. CASE \E m \in Malformed : ForeignPublish(m)
  BY <1>3 DEF ForeignPublish, DlqStep, dead
<1>4. ASSUME NEW w \in Workers, Fetch(w) \/ ProcessReturns(w) \/ ProcessRaises(w) \/ PublishRetry(w)
      PROVE  DlqStep
  BY <1>4 DEF Fetch, ProcessReturns, ProcessRaises, PublishRetry, DlqStep, dead
<1>5. ASSUME NEW w \in Workers, Assign(w) \/ Stop(w) \/ Crash(w) \/ Start(w) PROVE DlqStep
  BY <1>5 DEF Assign, Stop, Crash, Start, DlqStep, dead
<1>6. CASE AutoCommit \/ Revoke \/ Evict \/ UNCHANGED vars
  BY <1>6 DEF AutoCommit, Revoke, Evict, vars, DlqStep, dead
<1>7. CASE ReplayStep \/ \E dryRun \in BOOLEAN : ReplayStart(dryRun)
  BY <1>7 DEF ReplayStep, ReplayPoll, ReplayRecord, ReplayAborts, ReplayEnds, ReplayStart, DlqStep
<1> QED
  BY <1>1, <1>2, <1>3, <1>4, <1>5, <1>6, <1>7 DEF Next, ExecuteOnce

LEMMA LetterType ==
    ASSUME NEW m \in Messages
    PROVE  DeadLetter(m) \in Letters /\ DeadLetter(m).form = m.form /\ DeadLetter(m).image = m.image
BY DEF DeadLetter, Messages, Letters

LEMMA LogsGrow ==
    ASSUME StateInv, [Next]_vars
    PROVE  Grown /\ DlqGrown /\ NamesImages'
<1>0. TopicStep /\ DlqStep /\ topic \in Seq(Messages) /\ dlq \in Seq(Letters)
  BY StepsPublish, StepsDeadLetter DEF StateInv, TypeOK, Letters
<1>1. Grown
  BY <1>0, TopicGrows
<1>2. \A o \in 1 .. Len(topic') :
        topic'[o].form \in {"task", "badAttempt"} => topic'[o].image \in Images
  <2>1. CASE topic' = topic
    BY <2>1 DEF StateInv, NamesImages
  <2>2. ASSUME NEW m \in Messages, Publishable(m), topic' = Append(topic, m),
               NEW o \in 1 .. Len(topic'), topic'[o].form \in {"task", "badAttempt"}
        PROVE  topic'[o].image \in Images
    <3>1. CASE o \in 1 .. Len(topic)
      BY <1>0, <2>2, <3>1, AppendFacts DEF StateInv, NamesImages
    <3>2. CASE o = Len(topic) + 1
      BY <1>0, <2>2, <3>2, AppendFacts DEF Publishable
    <3> QED
      BY <1>0, <2>2, <3>1, <3>2, AppendFacts
  <2> QED
    BY <1>0, <2>1, <2>2 DEF TopicStep
<1>3. DlqGrown /\ \A d \in 1 .. Len(dlq') :
        dlq'[d].form \in {"task", "badAttempt"} => dlq'[d].image \in Images
  <2>1. CASE dlq' = dlq
    BY <1>0, <2>1 DEF StateInv, NamesImages, DlqGrown
  <2>2. ASSUME NEW w \in Workers, hand[w] # 0, dlq' = Append(dlq, DeadLetter(InHand(w)))
        PROVE  DlqGrown /\ \A d \in 1 .. Len(dlq') :
                  dlq'[d].form \in {"task", "badAttempt"} => dlq'[d].image \in Images
    <3>1. PICK l \in Letters : l = DeadLetter(InHand(w)) /\ (l.form \in {"task", "badAttempt"} => l.image \in Images)
      BY <2>2, HeldMessage, LetterType
    <3>2. dlq' = Append(dlq, l)
      BY <2>2, <3>1
    <3>3. DlqGrown
      BY <1>0, <3>2, AppendFacts DEF DlqGrown
    <3>4. ASSUME NEW d \in 1 .. Len(dlq'), dlq'[d].form \in {"task", "badAttempt"}
          PROVE  dlq'[d].image \in Images
      <4>1. CASE d \in 1 .. Len(dlq)
        BY <1>0, <3>2, <3>4, <4>1, AppendFacts DEF StateInv, NamesImages
      <4>2. CASE d = Len(dlq) + 1
        BY <1>0, <3>1, <3>2, <3>4, <4>2, AppendFacts
      <4> QED
        BY <1>0, <3>2, <4>1, <4>2, AppendFacts
    <3> QED
      BY <3>3, <3>4
  <2> QED
    BY <1>0, <2>1, <2>2 DEF DlqStep
<1> QED
  BY <1>1, <1>2, <1>3 DEF NamesImages

-----------------------------------------------------------------------------
(* StateInv.                                                               *)

LEMMA InitStateInv == Init => StateInv
<1> SUFFICES ASSUME Init PROVE StateInv
  OBVIOUS
<1>1. TypeOK
  BY DEF Init, TypeOK, Idle
<1> QED
  BY <1>1 DEF Init, StateInv, WorkerInv, NamesImages

\* The offsets of the consumer group, the workers and what they hold.
GroupType ==
    /\ committed \in 0 .. Len(topic)
    /\ position \in committed .. Len(topic)
    /\ owner \in Workers \cup {None}
    /\ pc \in [Workers -> {"idle", "processing", "backoff", "deadletter", "down"}]
    /\ hand \in [Workers -> 0 .. Len(topic)]

ReplayType ==
    /\ dlqCommitted \in 0 .. Len(dlq)
    /\ replay \in [on : BOOLEAN, next : 0 .. Len(dlq), end : 0 .. Len(dlq),
                   inspected : Nat, dryRun : BOOLEAN]
    /\ resent \subseteq 1 .. Len(dlq)

HistoryType ==
    /\ published \subseteq Images
    /\ handled \subseteq Images
    /\ dropped \subseteq Images \cup {None}
    /\ lost \subseteq Images \cup {None}
    /\ {foreign, crashes, moves, replays} \subseteq Nat

LEMMA TypeParts ==
    TypeOK <=> /\ topic \in Seq(Messages) /\ dlq \in Seq(Letters)
               /\ GroupType /\ ReplayType /\ HistoryType
BY DEF TypeOK, Letters, GroupType, ReplayType, HistoryType

\* A step that leaves the consumer group and its workers alone.
LEMMA QuietWorkers ==
    ASSUME StateInv, Grown, UNCHANGED <<position, committed, owner, pc, hand>>
    PROVE  GroupType' /\ WorkerInv'
<1>1. GroupType
  BY TypeParts DEF StateInv
<1>2. GroupType'
  BY <1>1 DEF GroupType, Grown
<1>3. \A w \in Workers : hand[w] # 0 => InHand(w)' = InHand(w)
  BY <1>1 DEF GroupType, Grown, InHand
<1> QED
  BY <1>2, <1>3 DEF StateInv, WorkerInv

LEMMA WorkerSteps ==
    ASSUME StateInv, Grown, NEW w \in Workers, ExecuteOnce(w)
    PROVE  GroupType' /\ WorkerInv'
<1>0. GroupType /\ \A v \in Workers : hand[v] # 0 => topic'[hand[v]] = topic[hand[v]]
  BY TypeParts DEF StateInv, GroupType, Grown
<1>1. CASE Fetch(w)
  <2>1. GroupType'
    BY <1>0, <1>1 DEF Fetch, Goto, GroupType, Grown
  <2>2. WorkerInv'
    BY <1>0, <1>1 DEF Fetch, Goto, GroupType, Grown, StateInv, WorkerInv, InHand
  <2> QED
    BY <2>1, <2>2
<1>2. CASE ProcessReturns(w) \/ PublishDeadLetter(w)
  <2>1. GroupType'
    BY <1>0, <1>2 DEF ProcessReturns, PublishDeadLetter, Release, Goto, GroupType, Grown, kafka
  <2>2. WorkerInv'
    BY <1>0, <1>2 DEF ProcessReturns, PublishDeadLetter, Release, Goto, GroupType, Grown, kafka,
                      StateInv, WorkerInv, InHand
  <2> QED
    BY <2>1, <2>2
<1>3. CASE ProcessRaises(w)
  <2>1. GroupType'
    BY <1>0, <1>3 DEF ProcessRaises, Goto, GroupType, kafka
  <2>2. WorkerInv'
    BY <1>0, <1>3 DEF ProcessRaises, Goto, GroupType, kafka, StateInv, WorkerInv, InHand
  <2> QED
    BY <2>1, <2>2
<1>4. CASE PublishRetry(w)
  <2>1. \/ Release(w)
        \/ Goto(w, "deadletter") /\ hand' = hand
    BY <1>4 DEF PublishRetry
  <2>2. UNCHANGED <<position, committed, owner>> /\ pc[w] = "backoff"
    BY <1>4 DEF PublishRetry
  <2>3. GroupType'
    BY <1>0, <2>1, <2>2 DEF Release, Goto, GroupType, Grown
  <2>4. WorkerInv'
    BY <1>0, <2>1, <2>2 DEF Release, Goto, GroupType, StateInv, WorkerInv, InHand
  <2> QED
    BY <2>3, <2>4
<1> QED
  BY <1>1, <1>2, <1>3, <1>4 DEF ExecuteOnce

LEMMA GroupSteps ==
    ASSUME StateInv, Grown,
           \/ \E w \in Workers : Assign(w) \/ Stop(w) \/ Crash(w) \/ Start(w)
           \/ AutoCommit \/ Revoke \/ Evict
    PROVE  GroupType' /\ WorkerInv'
<1>0. GroupType /\ \A v \in Workers : hand[v] # 0 => topic'[hand[v]] = topic[hand[v]]
  BY TypeParts DEF StateInv, GroupType, Grown
<1>1. GroupType'
  BY <1>0 DEF Assign, Stop, Crash, Start, AutoCommit, Revoke, Evict, Goto, GroupType, kafka, workers
<1>2. ASSUME NEW w \in Workers, Stop(w) \/ Crash(w) \/ Start(w) PROVE WorkerInv'
  BY <1>0, <1>2 DEF Stop, Crash, Start, Goto, GroupType, kafka, StateInv, WorkerInv, InHand
<1>3. CASE AutoCommit \/ Revoke \/ Evict \/ \E w \in Workers : Assign(w)
  <2>1. UNCHANGED <<pc, hand, topic>>
    BY <1>3 DEF Assign, AutoCommit, Revoke, Evict, workers
  <2>2. \A v \in Workers : InHand(v)' = InHand(v) /\ pc'[v] = pc[v] /\ hand'[v] = hand[v]
    BY <2>1 DEF InHand
  <2> QED
    BY <1>1, <2>1, <2>2 DEF StateInv, WorkerInv
<1>4. WorkerInv'
  <2>1. CASE \E w \in Workers : Assign(w) \/ Stop(w) \/ Crash(w) \/ Start(w)
    <3>1. PICK w \in Workers : Assign(w) \/ Stop(w) \/ Crash(w) \/ Start(w)
      BY <2>1
    <3> QED
      BY <1>2, <1>3, <3>1
  <2>2. CASE AutoCommit \/ Revoke \/ Evict
    BY <1>3, <2>2
  <2> QED
    BY <2>1, <2>2
<1> QED
  BY <1>1, <1>4

LEMMA GroupInv ==
    ASSUME StateInv, [Next]_vars
    PROVE  GroupType' /\ WorkerInv'
<1>0. Grown
  BY LogsGrow
<1>1. CASE \/ \E i \in Images : Upload(i)
           \/ \E m \in Malformed : ForeignPublish(m)
           \/ \E dryRun \in BOOLEAN : ReplayStart(dryRun)
           \/ ReplayStep
           \/ UNCHANGED vars
  <2>1. UNCHANGED <<position, committed, owner, pc, hand>>
    <3>1. CASE \E i \in Images : Upload(i)
      BY <3>1 DEF Upload, workers
    <3>2. CASE \E m \in Malformed : ForeignPublish(m)
      BY <3>2 DEF ForeignPublish, workers
    <3>3. CASE \E dryRun \in BOOLEAN : ReplayStart(dryRun)
      BY <3>3 DEF ReplayStart, kafka, workers
    <3>4. CASE ReplayStep \/ UNCHANGED vars
      BY <3>4 DEF ReplayStep, ReplayPoll, ReplayRecord, ReplayAborts, ReplayEnds, vars, kafka, workers
    <3> QED
      BY <1>1, <3>1, <3>2, <3>3, <3>4
  <2> QED
    BY <1>0, <2>1, QuietWorkers
<1>2. CASE \E w \in Workers : ExecuteOnce(w)
  BY <1>0, <1>2, WorkerSteps
<1>3. CASE \/ \E w \in Workers : Assign(w) \/ Stop(w) \/ Crash(w) \/ Start(w)
           \/ AutoCommit \/ Revoke \/ Evict
  BY <1>0, <1>3, GroupSteps
<1> QED
  BY <1>1, <1>2, <1>3 DEF Next

\* Only the replay job moves its offsets.
LEMMA QuietReplay ==
    ASSUME [Next]_vars, ~(ReplayStep \/ \E dryRun \in BOOLEAN : ReplayStart(dryRun))
    PROVE  UNCHANGED <<dlqCommitted, replay, resent>>
<1>1. CASE \E i \in Images : Upload(i)
  BY <1>1 DEF Upload, dead
<1>2. CASE \E m \in Malformed : ForeignPublish(m)
  BY <1>2 DEF ForeignPublish, dead
<1>3. CASE \E w \in Workers : ExecuteOnce(w)
  BY <1>3 DEF ExecuteOnce, Fetch, ProcessReturns, ProcessRaises, PublishRetry, PublishDeadLetter, dead
<1>4. CASE \E w \in Workers : Assign(w) \/ Stop(w) \/ Crash(w) \/ Start(w)
  BY <1>4 DEF Assign, Stop, Crash, Start, dead
<1>5. CASE AutoCommit \/ Revoke \/ Evict \/ UNCHANGED vars
  BY <1>5 DEF AutoCommit, Revoke, Evict, vars, dead
<1> QED
  BY <1>1, <1>2, <1>3, <1>4, <1>5 DEF Next

LEMMA IdleType ==
    ASSUME NEW n \in Nat
    PROVE  Idle \in [on : BOOLEAN, next : 0 .. n, end : 0 .. n, inspected : Nat, dryRun : BOOLEAN]
BY DEF Idle

LEMMA ReplayTypeInv ==
    ASSUME StateInv, [Next]_vars
    PROVE  ReplayType'
<1>0. DlqGrown /\ ReplayType
  BY LogsGrow, TypeParts DEF StateInv
<1>1. CASE UNCHANGED <<dlqCommitted, replay, resent>>
  BY <1>0, <1>1 DEF ReplayType, DlqGrown
<1>2. CASE ReplayStep \/ \E dryRun \in BOOLEAN : ReplayStart(dryRun)
  <2>0. dlq' = dlq /\ Len(dlq) \in Nat
    BY <1>0, <1>2 DEF ReplayStep, ReplayPoll, ReplayRecord, ReplayAborts, ReplayEnds, ReplayStart, DlqGrown
  <2>1. ASSUME NEW dryRun \in BOOLEAN, ReplayStart(dryRun) PROVE ReplayType'
    BY <1>0, <2>0, <2>1 DEF ReplayType, ReplayStart
  <2>2. CASE ReplayPoll
    BY <1>0, <2>0, <2>2 DEF ReplayType, ReplayPoll
  <2>3. CASE ReplayRecord
    <3>1. replay.next + 1 \in 1 .. Len(dlq) /\ replay.end \in 0 .. Len(dlq)
      BY <1>0, <2>0, <2>3 DEF ReplayType, ReplayRecord, InBatch
    <3>2. resent' \subseteq 1 .. Len(dlq)
      BY <1>0, <2>3, <3>1 DEF ReplayType, ReplayRecord
    <3>3. dlqCommitted' \in 0 .. Len(dlq)
      BY <1>0, <2>3, <3>1 DEF ReplayType, ReplayRecord, BatchDone
    <3>4. replay' \in [on : BOOLEAN, next : 0 .. Len(dlq), end : 0 .. Len(dlq),
                       inspected : Nat, dryRun : BOOLEAN]
      <4>1. CASE replay' = Idle
        BY <2>0, <4>1, IdleType
      <4>2. CASE replay' = [replay EXCEPT !.next = @ + 1, !.inspected = @ + 1]
        <5>1. replay \in [on : BOOLEAN, next : 0 .. Len(dlq), end : 0 .. Len(dlq),
                          inspected : Nat, dryRun : BOOLEAN]
          BY <1>0 DEF ReplayType
        <5>2. replay.next + 1 \in 0 .. Len(dlq) /\ replay.inspected + 1 \in Nat
          BY <2>0, <3>1, <5>1
        <5> QED
          BY <4>2, <5>1, <5>2
      <4> QED
        BY <2>3, <4>1, <4>2 DEF ReplayRecord
    <3> QED
      BY <2>0, <3>2, <3>3, <3>4 DEF ReplayType
  <2>4. CASE ReplayAborts \/ ReplayEnds
    <3>1. replay' = Idle /\ UNCHANGED <<dlqCommitted, resent>>
      BY <2>4 DEF ReplayAborts, ReplayEnds
    <3> QED
      BY <1>0, <2>0, <3>1, IdleType DEF ReplayType
  <2> QED
    BY <1>2, <2>1, <2>2, <2>3, <2>4 DEF ReplayStep
<1>3. CASE ~(ReplayStep \/ \E dryRun \in BOOLEAN : ReplayStart(dryRun))
  <2>1. UNCHANGED <<dlqCommitted, replay, resent>>
    BY <1>3, QuietReplay
  <2> QED
    BY <1>1, <2>1
<1> QED
  BY <1>2, <1>3

LEMMA HistoryInv ==
    ASSUME StateInv, [Next]_vars
    PROVE  HistoryType'
<1>0. HistoryType
  BY TypeParts DEF StateInv
<1>1. \A w \in Workers : hand[w] # 0 => InHand(w).image \in Images \cup {None}
  BY HeldMessage DEF Messages
<1>2. CASE \E i \in Images : Upload(i)
  BY <1>0, <1>2 DEF HistoryType, Upload, dead, counts
<1>3. CASE \E m \in Malformed : ForeignPublish(m)
  BY <1>0, <1>3 DEF HistoryType, ForeignPublish, dead, history
<1>4. ASSUME NEW w \in Workers, ExecuteOnce(w) PROVE HistoryType'
  <2>1. CASE ProcessReturns(w)
    <3>1. InHand(w).image \in Images
      BY <2>1, HeldMessage DEF ProcessReturns, StateInv, WorkerInv, Parses
    <3> QED
      BY <1>0, <2>1, <3>1 DEF HistoryType, ProcessReturns, dead, counts
  <2>2. CASE PublishDeadLetter(w)
    <3>1. InHand(w).image \in Images \cup {None}
      BY <1>1, <2>2 DEF PublishDeadLetter, StateInv, WorkerInv
    <3> QED
      BY <1>0, <2>2, <3>1 DEF HistoryType, PublishDeadLetter, counts
  <2>3. CASE Fetch(w) \/ ProcessRaises(w) \/ PublishRetry(w)
    BY <1>0, <2>3 DEF HistoryType, Fetch, ProcessRaises, PublishRetry, dead, history, counts
  <2> QED
    BY <1>4, <2>1, <2>2, <2>3 DEF ExecuteOnce
<1>5. ASSUME NEW w \in Workers, Crash(w) PROVE HistoryType'
  <2>1. lost' \subseteq Images \cup {None}
    BY <1>0, <1>1, <1>5 DEF HistoryType, Crash
  <2> QED
    BY <1>0, <1>5, <2>1 DEF HistoryType, Crash, dead
<1>6. ASSUME NEW w \in Workers, Assign(w) \/ Stop(w) \/ Start(w) PROVE HistoryType'
  BY <1>0, <1>6 DEF HistoryType, Assign, Stop, Start, Move, dead, history, counts
<1>7. CASE AutoCommit \/ Revoke \/ Evict \/ UNCHANGED vars
  BY <1>0, <1>7 DEF HistoryType, AutoCommit, Revoke, Evict, Move, vars, dead, history, counts
<1>8. CASE ReplayStep \/ \E dryRun \in BOOLEAN : ReplayStart(dryRun)
  BY <1>0, <1>8 DEF HistoryType, ReplayStep, ReplayPoll, ReplayRecord, ReplayAborts, ReplayEnds,
                    ReplayStart, history, counts
<1> QED
  BY <1>2, <1>3, <1>4, <1>5, <1>6, <1>7, <1>8 DEF Next

LEMMA NextStateInv == StateInv /\ [Next]_vars => StateInv'
<1> SUFFICES ASSUME StateInv, [Next]_vars PROVE StateInv'
  OBVIOUS
<1>1. TypeOK'
  <2>1. topic' \in Seq(Messages) /\ dlq' \in Seq(Letters)
    BY LogsGrow DEF Grown, DlqGrown
  <2> QED
    BY <2>1, GroupInv, ReplayTypeInv, HistoryInv
       DEF TypeOK, Letters, GroupType, ReplayType, HistoryType
<1> QED
  BY <1>1, LogsGrow, GroupInv DEF StateInv

LEMMA SpecStateInv == Spec => []StateInv
BY InitStateInv, NextStateInv, PTL DEF Spec

\* The offsets of both logs stay in order, and every log, worker and replay run
\* in the range the code gives it, for any bounds.
THEOREM DeliveryTypes == Spec => []TypeOK
BY SpecStateInv, PTL DEF StateInv

-----------------------------------------------------------------------------
\* A retry carries the next attempt of a task that is in the topic already, and
\* no attempt exceeds retry_max_attempts, across redeliveries, ambiguous sends,
\* crashes and replays.
THEOREM RetriesFormChains == Spec => []RetryChain
<1>1. Init => RetryChain
  BY DEF Init, RetryChain
<1>2. StateInv /\ RetryChain /\ [Next]_vars => RetryChain'
  <2> SUFFICES ASSUME StateInv, RetryChain, [Next]_vars,
                      NEW o \in 1 .. Len(topic'), topic'[o].attempt > 0
               PROVE  /\ topic'[o].attempt <= MaxRetries
                      /\ \E p \in 1 .. o - 1 : topic'[p] = Task(topic'[o].image, topic'[o].attempt - 1)
    BY DEF RetryChain
  <2>0. TopicStep /\ Grown /\ topic \in Seq(Messages)
    BY StepsPublish, LogsGrow DEF StateInv, TypeOK
  <2>1. CASE o \in 1 .. Len(topic)
    <3>1. topic'[o] = topic[o]
      BY <2>0, <2>1 DEF Grown
    <3>2. PICK p \in 1 .. o - 1 : topic[p] = Task(topic[o].image, topic[o].attempt - 1)
      BY <2>1, <3>1 DEF RetryChain
    <3>3. topic'[p] = topic[p]
      BY <2>0, <2>1 DEF Grown
    <3> QED
      BY <2>1, <3>1, <3>2, <3>3 DEF RetryChain
  <2>2. CASE o \notin 1 .. Len(topic)
    <3>1. PICK m \in Messages : Publishable(m) /\ topic' = Append(topic, m)
      BY <2>0, <2>2 DEF TopicStep
    <3>2. o = Len(topic) + 1 /\ topic'[o] = m /\ Len(topic) \in Nat
      BY <2>0, <2>2, <3>1, AppendFacts
    <3>3. m.attempt <= MaxRetries
      BY <3>1, <3>2 DEF Publishable
    <3>4. PICK p \in 1 .. Len(topic) : topic[p] = Task(m.image, m.attempt - 1)
      BY <3>1, <3>2 DEF Publishable
    <3>5. topic'[p] = topic[p] /\ p \in 1 .. o - 1
      BY <2>0, <3>2 DEF Grown
    <3> QED
      BY <3>2, <3>3, <3>4, <3>5
  <2> QED
    BY <2>1, <2>2
<1> QED
  BY <1>1, <1>2, SpecStateInv, PTL DEF Spec

-----------------------------------------------------------------------------
(* The replay job.                                                         *)

ReplayRecords == [on : BOOLEAN, next : 0 .. Len(dlq), end : 0 .. Len(dlq),
                  inspected : Nat, dryRun : BOOLEAN]

RunInv == ReplayInv /\ CommittedIsReplayed /\ ReplayWithinLimit

LEMMA ReplayTypes ==
    ASSUME StateInv
    PROVE  /\ replay \in ReplayRecords
           /\ Len(dlq) \in Nat
           /\ dlqCommitted \in 0 .. Len(dlq)
           /\ resent \subseteq 1 .. Len(dlq)
<1>1. dlq \in Seq(Letters)
  BY DEF StateInv, TypeOK, Letters
<1> QED
  BY <1>1 DEF StateInv, TypeOK, ReplayRecords

LEMMA IdleFields == ~Idle.on /\ Idle.next = 0 /\ Idle.end = 0 /\ Idle.inspected = 0
BY DEF Idle

\* A run that ends, for whatever reason, leaves the committed offset where it was.
LEMMA RunEnds ==
    ASSUME StateInv, RunInv, replay' = Idle, UNCHANGED <<dlq, dlqCommitted>>,
           resent \subseteq resent'
    PROVE  RunInv'
<1>1. ReplayInv' /\ ReplayWithinLimit'
  BY IdleFields, ParameterAssumption DEF ReplayInv, ReplayWithinLimit
<1>2. CommittedIsReplayed'
  BY DEF RunInv, CommittedIsReplayed
<1> QED
  BY <1>1, <1>2 DEF RunInv

LEMMA RunStarts ==
    ASSUME StateInv, RunInv, NEW dryRun \in BOOLEAN, ReplayStart(dryRun)
    PROVE  RunInv'
<1>1. UNCHANGED <<dlq, dlqCommitted, resent>>
  BY DEF ReplayStart
<1>2. /\ replay'.on /\ replay'.next = dlqCommitted /\ replay'.end = dlqCommitted
      /\ replay'.inspected = 0
  BY DEF ReplayStart
<1>3. dlqCommitted \in Nat /\ ReplayLimit \in Nat
  BY ReplayTypes, ParameterAssumption
<1>4. CommittedIsReplayed'
  BY <1>1 DEF RunInv, CommittedIsReplayed
<1>5. ReplayInv'
  BY <1>1, <1>2, <1>3 DEF RunInv, ReplayInv, CommittedIsReplayed
<1>6. ReplayWithinLimit'
  BY <1>2, <1>3 DEF ReplayWithinLimit
<1> QED
  BY <1>4, <1>5, <1>6 DEF RunInv

LEMMA RunPolls ==
    ASSUME StateInv, RunInv, ReplayPoll
    PROVE  RunInv'
<1>1. UNCHANGED <<dlq, dlqCommitted, resent>> /\ replay.on /\ replay.next = replay.end
  BY DEF ReplayPoll
<1>2. PICK end \in replay.next + 1 .. Len(dlq) :
        /\ end <= replay.next + MaxRecords
        /\ replay' = [replay EXCEPT !.end = end]
  BY DEF ReplayPoll
<1>3. /\ replay'.on = replay.on /\ replay'.next = replay.next /\ replay'.end = end
      /\ replay'.inspected = replay.inspected /\ replay'.dryRun = replay.dryRun
  BY <1>2, ReplayTypes DEF ReplayRecords
<1>4. replay.next \in Nat /\ replay.inspected \in Nat /\ end \in Int /\ ReplayLimit \in Nat
  BY <1>2, ReplayTypes, ParameterAssumption DEF ReplayRecords
<1>5. ReplayInv'
  BY <1>1, <1>3, <1>4 DEF RunInv, ReplayInv
<1>6. ReplayWithinLimit'
  BY <1>2, <1>3, <1>4 DEF RunInv, ReplayWithinLimit, MaxRecords
<1> QED
  BY <1>1, <1>5, <1>6 DEF RunInv, CommittedIsReplayed

LEMMA RunAdvances ==
    ASSUME StateInv, RunInv, ReplayRecord
    PROVE  RunInv'
<1>1. dlq' = dlq /\ replay.on /\ replay.next < replay.end
  BY DEF ReplayRecord, InBatch
<1>2. /\ replay.next \in Nat /\ replay.end \in Nat /\ replay.inspected \in Nat
      /\ Len(dlq) \in Nat /\ dlqCommitted \in Nat /\ replay.end <= Len(dlq)
      /\ ReplayLimit \in Nat
  BY ReplayTypes, ParameterAssumption DEF ReplayRecords
<1>3. resent \subseteq resent'
  BY DEF ReplayRecord
<1>4. ~replay.dryRun /\ Replayable(dlq[replay.next + 1]) => replay.next + 1 \in resent'
  BY DEF ReplayRecord
<1>5. CASE replay' = Idle /\ UNCHANGED dlqCommitted
  BY <1>1, <1>3, <1>5, RunEnds
<1>6. CASE /\ BatchDone(replay.next + 1)
           /\ replay' = [replay EXCEPT !.next = @ + 1, !.inspected = @ + 1]
  <2>1. /\ replay'.on = replay.on /\ replay'.next = replay.next + 1 /\ replay'.end = replay.end
        /\ replay'.inspected = replay.inspected + 1 /\ replay'.dryRun = replay.dryRun
    BY <1>6, ReplayTypes DEF ReplayRecords
  <2>2. ~replay.dryRun => \A d \in 1 .. replay.next + 1 : Replayable(dlq[d]) => d \in resent'
    <3> SUFFICES ASSUME ~replay.dryRun, NEW d \in 1 .. replay.next + 1, Replayable(dlq[d])
                 PROVE  d \in resent'
      OBVIOUS
    <3>1. CASE d = replay.next + 1
      BY <1>4, <3>1
    <3>2. CASE d # replay.next + 1
      BY <1>1, <1>2, <1>3, <3>2 DEF RunInv, ReplayInv
    <3> QED
      BY <3>1, <3>2
  <2>3. /\ dlqCommitted' \in {dlqCommitted, replay.end}
        /\ dlqCommitted' # dlqCommitted => ~replay.dryRun /\ dlqCommitted' = replay.next + 1
    BY <1>6 DEF BatchDone
  <2>4. CommittedIsReplayed'
    BY <1>1, <1>3, <2>2, <2>3 DEF RunInv, CommittedIsReplayed
  <2>5. ReplayInv'
    <3>1. replay'.on /\ ~replay'.dryRun =>
             /\ dlqCommitted' <= replay'.next
             /\ \A d \in 1 .. replay'.next : Replayable(dlq'[d]) => d \in resent'
      BY <1>1, <1>2, <2>1, <2>2, <2>3 DEF RunInv, ReplayInv
    <3>2. replay'.on /\ replay'.next <= replay'.end
      BY <1>1, <1>2, <2>1
    <3> QED
      BY <3>1, <3>2 DEF ReplayInv
  <2>6. ReplayWithinLimit'
    BY <1>1, <1>2, <2>1 DEF RunInv, ReplayWithinLimit
  <2> QED
    BY <2>4, <2>5, <2>6 DEF RunInv
<1> QED
  BY <1>5, <1>6 DEF ReplayRecord

LEMMA NextRunInv == StateInv /\ RunInv /\ [Next]_vars => RunInv'
<1> SUFFICES ASSUME StateInv, RunInv, [Next]_vars PROVE RunInv'
  OBVIOUS
<1>1. CASE ReplayStep
  <2>1. CASE ReplayAborts \/ ReplayEnds
    <3>1. replay' = Idle /\ UNCHANGED <<dlq, dlqCommitted, resent>>
      BY <2>1 DEF ReplayAborts, ReplayEnds
    <3> QED
      BY <3>1, RunEnds
  <2> QED
    BY <1>1, <2>1, RunPolls, RunAdvances DEF ReplayStep
<1>2. CASE \E dryRun \in BOOLEAN : ReplayStart(dryRun)
  BY <1>2, RunStarts
<1>3. CASE ~(ReplayStep \/ \E dryRun \in BOOLEAN : ReplayStart(dryRun))
  <2>1. UNCHANGED <<dlqCommitted, replay, resent>>
    BY <1>3, QuietReplay
  <2>2. DlqGrown
    BY LogsGrow
  <2>3. replay.next \in 0 .. Len(dlq) /\ dlqCommitted \in 0 .. Len(dlq)
    BY ReplayTypes DEF ReplayRecords
  <2>4. \A d \in 1 .. Len(dlq) : dlq'[d] = dlq[d]
    BY <2>2 DEF DlqGrown
  <2>5. Len(dlq) \in Nat
    BY ReplayTypes
  <2>6. CommittedIsReplayed'
    BY <2>1, <2>3, <2>4, <2>5 DEF RunInv, CommittedIsReplayed
  <2>7. ReplayInv'
    BY <2>1, <2>3, <2>4, <2>5 DEF RunInv, ReplayInv
  <2>8. ReplayWithinLimit'
    BY <2>1 DEF RunInv, ReplayWithinLimit
  <2> QED
    BY <2>6, <2>7, <2>8 DEF RunInv
<1> QED
  BY <1>1, <1>2, <1>3

LEMMA InitRunInv == Init => RunInv
BY IdleFields, ParameterAssumption DEF Init, RunInv, ReplayInv, CommittedIsReplayed, ReplayWithinLimit

LEMMA SpecRunInv == Spec => []RunInv
BY InitRunInv, NextRunInv, SpecStateInv, PTL DEF Spec

\* However replay runs are cut short and started again, the offset the replay
\* job commits never passes a dead letter that could be replayed and was not
\* sent back to the topic.
THEOREM CommitsFollowReplay == Spec => []CommittedIsReplayed
BY SpecRunInv, PTL DEF RunInv

\* No run inspects more than --limit records, whatever the batches getmany
\* returns and however fast its own output comes back to the dead-letter topic.
THEOREM ReplayIsBounded == Spec => []ReplayWithinLimit
BY SpecRunInv, PTL DEF RunInv

-----------------------------------------------------------------------------
(* No task is forgotten.                                                   *)

InTopic(i) == \E o \in Frontier + 1 .. Len(topic) : Names(topic[o], i)
Held(w, i) == hand[w] # 0 /\ Names(topic[hand[w]], i)

AccountInv == Kept /\ Taken

LEMMA PendingMeans ==
    ASSUME NEW i
    PROVE  Pending(i) <=> InTopic(i) \/ \E w \in Workers : Held(w, i)
BY DEF Pending, InTopic, Held, InHand

LEMMA OffsetsInOrder ==
    ASSUME StateInv
    PROVE  /\ committed \in Nat /\ position \in Nat /\ Len(topic) \in Nat
           /\ Frontier \in Nat /\ committed <= Frontier /\ Frontier <= position
           /\ position <= Len(topic)
           /\ DlqFrontier \in Nat /\ Len(dlq) \in Nat /\ DlqFrontier <= Len(dlq)
<1>1. committed \in Nat /\ position \in Nat /\ Len(topic) \in Nat
      /\ committed <= position /\ position <= Len(topic)
  BY DEF StateInv, TypeOK
<1>2. DlqFrontier \in 0 .. Len(dlq) /\ Len(dlq) \in Nat
  BY ReplayTypes DEF ReplayRecords, DlqFrontier
<1> QED
  BY <1>1, <1>2 DEF Frontier

LEMMA NextOffsetsInOrder ==
    ASSUME StateInv'
    PROVE  /\ committed' \in Nat /\ position' \in Nat /\ Len(topic') \in Nat
           /\ Frontier' \in Nat /\ committed' <= Frontier' /\ Frontier' <= position'
           /\ position' <= Len(topic')
           /\ DlqFrontier' \in Nat /\ Len(dlq') \in Nat /\ DlqFrontier' <= Len(dlq')
<1>1. committed' \in Nat /\ position' \in Nat /\ Len(topic') \in Nat
      /\ committed' <= position' /\ position' <= Len(topic')
  BY DEF StateInv, TypeOK
<1>2. dlq' \in Seq(Letters)
  BY DEF StateInv, TypeOK, Letters
<1>3. DlqFrontier' \in 0 .. Len(dlq') /\ Len(dlq') \in Nat
  BY <1>2 DEF StateInv, TypeOK, DlqFrontier
<1> QED
  BY <1>1, <1>3 DEF Frontier

\* What growing logs keep.
LEMMA LogsKeep ==
    ASSUME StateInv, StateInv', Grown, DlqGrown, NEW i
    PROVE  /\ Frontier' <= Frontier /\ InTopic(i) => InTopic(i)'
           /\ position' <= position /\ Ahead(i) => Ahead(i)'
           /\ DlqFrontier' <= DlqFrontier /\ Waiting(i) => Waiting(i)'
           /\ Ahead(i)' => InTopic(i)'
           /\ \A w \in Workers : hand'[w] = hand[w] /\ Held(w, i) => Held(w, i)'
<1>0. /\ \A o \in 1 .. Len(topic) : topic'[o] = topic[o]
      /\ Len(topic) <= Len(topic')
  BY DEF Grown
<1>1. /\ \A d \in 1 .. Len(dlq) : dlq'[d] = dlq[d]
      /\ Len(dlq) <= Len(dlq')
  BY DEF DlqGrown
<1>2. ASSUME Frontier' <= Frontier, InTopic(i) PROVE InTopic(i)'
  <2>1. PICK o \in Frontier + 1 .. Len(topic) : Names(topic[o], i)
    BY <1>2 DEF InTopic
  <2>2. o \in Frontier' + 1 .. Len(topic') /\ topic'[o] = topic[o]
    BY <1>0, <1>2, OffsetsInOrder, NextOffsetsInOrder
  <2> QED
    BY <2>1, <2>2 DEF InTopic, Names
<1>3. ASSUME position' <= position, Ahead(i) PROVE Ahead(i)'
  <2>1. PICK o \in position + 1 .. Len(topic) : Names(topic[o], i)
    BY <1>3 DEF Ahead
  <2>2. o \in position' + 1 .. Len(topic') /\ topic'[o] = topic[o]
    BY <1>0, <1>3, OffsetsInOrder, NextOffsetsInOrder
  <2> QED
    BY <2>1, <2>2 DEF Ahead, Names
<1>4. ASSUME DlqFrontier' <= DlqFrontier, Waiting(i) PROVE Waiting(i)'
  <2>1. PICK d \in DlqFrontier + 1 .. Len(dlq) : Names(dlq[d], i)
    BY <1>4 DEF Waiting
  <2>2. d \in DlqFrontier' + 1 .. Len(dlq') /\ dlq'[d] = dlq[d]
    BY <1>1, <1>4, OffsetsInOrder, NextOffsetsInOrder, SMTT(40)
  <2> QED
    BY <2>1, <2>2 DEF Waiting, Names
<1>5. ASSUME Ahead(i)' PROVE InTopic(i)'
  <2>1. PICK o \in position' + 1 .. Len(topic') : Names(topic'[o], i)
    BY <1>5 DEF Ahead, Names
  <2>2. o \in Frontier' + 1 .. Len(topic')
    BY NextOffsetsInOrder
  <2> QED
    BY <2>1, <2>2 DEF InTopic, Names
<1>6. ASSUME NEW w \in Workers, hand'[w] = hand[w], Held(w, i) PROVE Held(w, i)'
  <2>1. hand[w] \in 1 .. Len(topic)
    BY <1>6, HeldMessage DEF Held
  <2> QED
    BY <1>0, <1>6, <2>1 DEF Held, Names
<1> QED
  BY <1>2, <1>3, <1>4, <1>5, <1>6

\* The accounting of one image, in the next state.
KeptFor(i) == InTopic(i) \/ Waiting(i) \/ \E w \in Workers : Held(w, i)
TakenFor(i) ==
    owner # None =>
        \A o \in committed + 1 .. position :
            Names(topic[o], i) => Ahead(i) \/ Held(owner, i) \/ Waiting(i)

LEMMA ByImage == AccountInv <=> \A i \in Unsettled : KeptFor(i) /\ TakenFor(i)
BY DEF AccountInv, Kept, Taken, KeptFor, TakenFor, OwnerHolds, Held, Pending, InTopic, InHand

LEMMA ByImageNext == AccountInv' <=> \A i \in Unsettled' : KeptFor(i)' /\ TakenFor(i)'
BY DEF AccountInv, Kept, Taken, KeptFor, TakenFor, OwnerHolds, Held, Pending, InTopic, InHand

\* A step after which no offset the accounting counts from is further on, and
\* what every worker holds is the same.
LEMMA QuietStep ==
    ASSUME StateInv, StateInv', Grown, DlqGrown, NEW i, KeptFor(i), TakenFor(i),
           UNCHANGED hand, Frontier' <= Frontier, DlqFrontier' <= DlqFrontier,
           \/ UNCHANGED <<position, committed, owner>>
           \/ owner' = None
           \/ committed' = position'
    PROVE  KeptFor(i)' /\ TakenFor(i)'
<1>1. KeptFor(i)'
  BY LogsKeep DEF KeptFor
<1>2. CASE UNCHANGED <<position, committed, owner>>
  <2>1. CASE owner = None
    BY <1>1, <1>2, <2>1 DEF TakenFor
  <2>2. CASE owner # None
    <3>1. PICK v \in Workers : v = owner /\ v = owner'
      BY <1>2, <2>2 DEF StateInv, TypeOK
    <3>2. ASSUME NEW o \in committed' + 1 .. position', Names(topic'[o], i)
          PROVE  Ahead(i)' \/ Held(v, i)' \/ Waiting(i)'
      <4>1. o \in committed + 1 .. position /\ topic'[o] = topic[o]
        BY <1>2, OffsetsInOrder DEF Grown
      <4>2. Ahead(i) \/ Held(v, i) \/ Waiting(i)
        BY <2>2, <3>1, <3>2, <4>1 DEF TakenFor, Names
      <4>3. position' <= position /\ hand'[v] = hand[v]
        BY <1>2, OffsetsInOrder
      <4> QED
        BY <4>2, <4>3, LogsKeep
    <3>3. TakenFor(i)'
      BY <3>1, <3>2 DEF TakenFor, Names, Held
    <3> QED
      BY <1>1, <3>3
  <2> QED
    BY <2>1, <2>2
<1>3. CASE owner' = None
  BY <1>1, <1>3 DEF TakenFor
<1>4. CASE committed' = position'
  <2>1. committed' + 1 .. position' = {}
    BY <1>4, NextOffsetsInOrder
  <2> QED
    BY <1>1, <2>1 DEF TakenFor
<1> QED
  BY <1>2, <1>3, <1>4

LEMMA AppendedIsAhead ==
    ASSUME StateInv, StateInv', NEW m \in Messages, topic' = Append(topic, m),
           position' = position, NEW i, Names(m, i)
    PROVE  Ahead(i)' /\ InTopic(i)'
<1>1. topic \in Seq(Messages)
  BY DEF StateInv, TypeOK
<1>2. Len(topic') = Len(topic) + 1 /\ topic'[Len(topic) + 1] = m
  BY <1>1, AppendFacts
<1>3. Len(topic) + 1 \in position' + 1 .. Len(topic')
  BY <1>2, OffsetsInOrder
<1>4. Len(topic) + 1 \in Frontier' + 1 .. Len(topic')
  BY <1>3, NextOffsetsInOrder
<1>5. Names(topic'[Len(topic) + 1], i)
  BY <1>2
<1> QED
  BY <1>3, <1>4, <1>5 DEF Ahead, InTopic, Names

\* A worker lets its message go, after leaving another one for every image that
\* is still unsettled.
LEMMA ReleaseStep ==
    ASSUME StateInv, StateInv', Grown, DlqGrown, NEW i, KeptFor(i), TakenFor(i),
           NEW w \in Workers, hand' = [hand EXCEPT ![w] = 0],
           UNCHANGED <<position, committed, owner>>, DlqFrontier' <= DlqFrontier,
           Held(w, i) => Ahead(i)' \/ Waiting(i)'
    PROVE  KeptFor(i)' /\ TakenFor(i)'
<1>0. Frontier' <= Frontier /\ position' <= position
  BY OffsetsInOrder DEF Frontier
<1>1. \A v \in Workers : v # w => hand'[v] = hand[v]
  BY DEF StateInv, TypeOK
<1>2. \A v \in Workers : Held(v, i) => Held(v, i)' \/ Ahead(i)' \/ Waiting(i)'
  BY <1>1, LogsKeep
<1>3. KeptFor(i)'
  BY <1>0, <1>2, LogsKeep DEF KeptFor
<1>4. CASE owner = None
  BY <1>3, <1>4 DEF TakenFor
<1>5. CASE owner # None
  <2>1. PICK v \in Workers : v = owner /\ v = owner'
    BY <1>5 DEF StateInv, TypeOK
  <2>2. ASSUME NEW o \in committed' + 1 .. position', Names(topic'[o], i)
        PROVE  Ahead(i)' \/ Held(v, i)' \/ Waiting(i)'
    <3>1. o \in committed + 1 .. position /\ topic'[o] = topic[o]
      BY OffsetsInOrder DEF Grown
    <3>2. Ahead(i) \/ Held(v, i) \/ Waiting(i)
      BY <1>5, <2>1, <2>2, <3>1 DEF TakenFor, Names
    <3> QED
      BY <1>0, <1>2, <3>2, LogsKeep
  <2>3. TakenFor(i)'
    BY <2>1, <2>2 DEF TakenFor, Names, Held
  <2> QED
    BY <1>3, <2>3
<1> QED
  BY <1>4, <1>5

LEMMA FetchStep ==
    ASSUME StateInv, StateInv', NEW i, KeptFor(i), TakenFor(i), NEW w \in Workers, Fetch(w)
    PROVE  KeptFor(i)' /\ TakenFor(i)'
<1>0. /\ owner = w /\ owner' = w /\ topic' = topic /\ committed' = committed
      /\ position' = position + 1 /\ position + 1 \in 1 .. Len(topic)
  BY OffsetsInOrder DEF Fetch
<1>1. /\ UNCHANGED <<dlq, dlqCommitted, replay>>
      /\ hand' = [hand EXCEPT ![w] = position + 1]
  BY DEF Fetch, dead
<1>2. hand[w] = 0 /\ hand'[w] = position + 1 /\ \A v \in Workers : v # w => hand'[v] = hand[v]
  BY <1>1 DEF Fetch, StateInv, TypeOK, WorkerInv
<1>3. Names(topic[position + 1], i) => Held(w, i)'
  BY <1>0, <1>2, OffsetsInOrder DEF Held, Names
<1>4. \A v \in Workers : Held(v, i) => Held(v, i)'
  BY <1>0, <1>2 DEF Held, Names
<1>5. Waiting(i) => Waiting(i)'
  BY <1>1 DEF Waiting, DlqFrontier, Names
<1>6. w # None /\ Frontier = position /\ Frontier' = position + 1
  BY <1>0, NoneAssumption DEF Frontier
<1>7. Ahead(i) => Ahead(i)' \/ Held(w, i)'
  <2> SUFFICES ASSUME NEW o \in position + 1 .. Len(topic), Names(topic[o], i)
               PROVE  Ahead(i)' \/ Held(w, i)'
    BY DEF Ahead
  <2>1. CASE o = position + 1
    BY <1>3, <2>1
  <2>2. CASE o # position + 1
    <3>1. o \in position' + 1 .. Len(topic')
      BY <1>0, <2>2, OffsetsInOrder
    <3> QED
      BY <1>0, <3>1 DEF Ahead, Names
  <2> QED
    BY <2>1, <2>2
<1>8. InTopic(i) => Ahead(i)
  BY <1>6 DEF InTopic, Ahead
<1>9. Ahead(i)' => InTopic(i)'
  BY <1>0, <1>6 DEF InTopic, Ahead, Names
<1>10. KeptFor(i)'
  BY <1>4, <1>5, <1>7, <1>8, <1>9 DEF KeptFor
<1>11. ASSUME NEW o \in committed' + 1 .. position', Names(topic'[o], i)
       PROVE  Ahead(i)' \/ Held(w, i)' \/ Waiting(i)'
  <2>1. CASE o = position + 1
    BY <1>0, <1>3, <1>11, <2>1
  <2>2. CASE o # position + 1
    <3>1. o \in committed + 1 .. position
      BY <1>0, <2>2, OffsetsInOrder
    <3>2. Ahead(i) \/ Held(w, i) \/ Waiting(i)
      BY <1>0, <1>6, <1>11, <3>1 DEF TakenFor, Names
    <3> QED
      BY <1>4, <1>5, <1>7, <3>2
  <2> QED
    BY <2>1, <2>2
<1>12. TakenFor(i)'
  BY <1>0, <1>11 DEF TakenFor, Names, Held
<1> QED
  BY <1>10, <1>12

\* What a crashed worker held is lost when it was committed, will be read again
\* when it was not, and when another worker has read it again already, Taken
\* says where the image is now.
LEMMA CrashStep ==
    ASSUME StateInv, StateInv', NEW i \in Unsettled', KeptFor(i), TakenFor(i),
           NEW w \in Workers, Crash(w)
    PROVE  KeptFor(i)' /\ TakenFor(i)'
<1>0. /\ UNCHANGED <<topic, position, committed, dlq, dlqCommitted, replay>>
      /\ hand' = [hand EXCEPT ![w] = 0]
      /\ owner' = IF owner = w THEN None ELSE owner
  BY DEF Crash, dead
<1>1. Grown /\ DlqGrown
  BY <1>0 DEF StateInv, TypeOK, Grown, DlqGrown, Letters
<1>2. Frontier' <= Frontier /\ position' <= position /\ DlqFrontier' <= DlqFrontier
  BY <1>0, OffsetsInOrder DEF Frontier, DlqFrontier
<1>3. \A v \in Workers : v # w => hand'[v] = hand[v]
  BY <1>0 DEF StateInv, TypeOK
<1>4. /\ Ahead(i) => Ahead(i)' /\ InTopic(i)'
      /\ InTopic(i) => InTopic(i)'
      /\ Waiting(i) => Waiting(i)'
      /\ \A v \in Workers : v # w /\ Held(v, i) => Held(v, i)'
  BY <1>1, <1>2, <1>3, LogsKeep
<1>5. Held(w, i) => hand[w] > committed /\ hand[w] \in 1 .. Len(topic)
  <2> SUFFICES ASSUME Held(w, i) PROVE hand[w] > committed /\ hand[w] \in 1 .. Len(topic)
    OBVIOUS
  <2>1. hand[w] # 0 /\ InHand(w).image = i /\ hand[w] \in 1 .. Len(topic)
    BY HeldMessage DEF Held, Names, InHand
  <2>2. CASE hand[w] <= committed
    <3>1. i \in lost'
      BY <2>1, <2>2 DEF Crash
    <3> QED
      BY <3>1 DEF Unsettled
  <2> QED
    BY <2>1, <2>2, OffsetsInOrder
<1>6. ASSUME Held(w, i) PROVE KeptFor(i)'
  <2>1. CASE owner' = None
    <3>1. hand[w] \in Frontier' + 1 .. Len(topic')
      BY <1>0, <1>5, <1>6, <2>1, OffsetsInOrder DEF Frontier
    <3>2. Names(topic'[hand[w]], i)
      BY <1>0, <1>6 DEF Held
    <3>3. PICK o \in Frontier' + 1 .. Len(topic') : Names(topic'[o], i)
      BY <3>1, <3>2
    <3> QED
      BY <3>3 DEF KeptFor, InTopic, Names
  <2>2. CASE owner' # None
    <3>1. PICK v \in Workers : v = owner /\ v # w
      BY <1>0, <2>2 DEF StateInv, TypeOK
    <3>2. CASE hand[w] > position
      <4>1. hand[w] \in position + 1 .. Len(topic)
        BY <1>5, <1>6, <3>2, OffsetsInOrder
      <4>2. Ahead(i)
        BY <1>6, <4>1 DEF Ahead, Held
      <4> QED
        BY <1>4, <4>2 DEF KeptFor
    <3>3. CASE ~(hand[w] > position)
      <4>1. hand[w] \in committed + 1 .. position
        BY <1>5, <1>6, <3>3, OffsetsInOrder
      <4>2. Ahead(i) \/ Held(v, i) \/ Waiting(i)
        BY <1>0, <1>6, <2>2, <3>1, <4>1 DEF TakenFor, Held
      <4> QED
        BY <1>4, <3>1, <4>2 DEF KeptFor
    <3> QED
      BY <3>2, <3>3
  <2> QED
    BY <2>1, <2>2
<1>7. KeptFor(i)'
  BY <1>4, <1>6 DEF KeptFor
<1>8. CASE owner' = None
  BY <1>7, <1>8 DEF TakenFor
<1>9. CASE owner' # None
  <2>1. PICK v \in Workers : v = owner /\ v = owner' /\ v # w
    BY <1>0, <1>9 DEF StateInv, TypeOK
  <2>2. ASSUME NEW o \in committed' + 1 .. position', Names(topic'[o], i)
        PROVE  Ahead(i)' \/ Held(v, i)' \/ Waiting(i)'
    <3>1. Ahead(i) \/ Held(v, i) \/ Waiting(i)
      BY <1>0, <1>9, <2>1, <2>2 DEF TakenFor
    <3> QED
      BY <1>4, <2>1, <3>1
  <2>3. TakenFor(i)'
    BY <2>1, <2>2 DEF TakenFor, Names, Held
  <2> QED
    BY <1>7, <2>3
<1> QED
  BY <1>8, <1>9

\* The replay job passes a dead letter only by sending it back, unless it names
\* no image.
LEMMA ReplayStepKeeps ==
    ASSUME StateInv, StateInv', RunInv, Grown, DlqGrown, NEW i, KeptFor(i), TakenFor(i),
           ReplayRecord
    PROVE  KeptFor(i)' /\ TakenFor(i)'
<1>0. UNCHANGED <<position, committed, owner, hand, dlq>>
  BY DEF ReplayRecord, workers
<1>1. Frontier' <= Frontier /\ position' <= position
  BY <1>0, OffsetsInOrder DEF Frontier
<1>2. CASE DlqFrontier' <= DlqFrontier
  BY <1>0, <1>1, <1>2, QuietStep
<1>3. CASE ~(DlqFrontier' <= DlqFrontier)
  <2>1. /\ replay.on /\ replay.next + 1 \in 1 .. Len(dlq)
        /\ replay.next \in Nat /\ replay.end \in Nat /\ dlqCommitted \in Nat
    BY ReplayTypes DEF ReplayRecord, InBatch, ReplayRecords
  <2>2. ~(replay' = Idle /\ UNCHANGED dlqCommitted)
    BY <1>3, <2>1, IdleFields DEF DlqFrontier, RunInv, ReplayInv
  <2>3. /\ BatchDone(replay.next + 1)
        /\ replay' = [replay EXCEPT !.next = @ + 1, !.inspected = @ + 1]
    BY <2>2 DEF ReplayRecord
  <2>4. replay'.on = replay.on /\ replay'.next = replay.next + 1 /\ replay'.dryRun = replay.dryRun
    BY <2>3, ReplayTypes DEF ReplayRecords
  <2>5. ~replay.dryRun /\ DlqFrontier = replay.next /\ DlqFrontier' = replay.next + 1
    BY <1>3, <2>1, <2>3, <2>4 DEF DlqFrontier, BatchDone
  <2>6. Names(dlq[replay.next + 1], i) => Ahead(i)' /\ InTopic(i)'
    <3> SUFFICES ASSUME Names(dlq[replay.next + 1], i) PROVE Ahead(i)' /\ InTopic(i)'
      OBVIOUS
    <3>1. Replayable(dlq[replay.next + 1])
      BY DEF Names, Replayable
    <3>2. PICK m \in Messages : m = ReplayMessage(dlq[replay.next + 1]) /\ Names(m, i)
      BY <2>1, <3>1, ReplayIsPublishable DEF Publishable
    <3>3. topic' = Append(topic, m)
      BY <2>5, <3>1, <3>2 DEF ReplayRecord
    <3> QED
      BY <1>0, <3>2, <3>3, AppendedIsAhead
  <2>7. Waiting(i) => Waiting(i)' \/ (Ahead(i)' /\ InTopic(i)')
    <3> SUFFICES ASSUME NEW d \in DlqFrontier + 1 .. Len(dlq), Names(dlq[d], i)
                 PROVE  Waiting(i)' \/ (Ahead(i)' /\ InTopic(i)')
      BY DEF Waiting
    <3>1. CASE d = replay.next + 1
      BY <2>6, <3>1
    <3>2. CASE d # replay.next + 1
      <4>1. d \in DlqFrontier' + 1 .. Len(dlq')
        BY <1>0, <2>1, <2>5, <3>2, OffsetsInOrder
      <4>2. Names(dlq'[d], i)
        BY <1>0
      <4> QED
        BY <4>1, <4>2 DEF Waiting, Names
    <3> QED
      BY <3>1, <3>2
  <2>8. \A v \in Workers : Held(v, i) => Held(v, i)'
    BY <1>0, LogsKeep
  <2>9. KeptFor(i)'
    BY <1>1, <2>7, <2>8, LogsKeep DEF KeptFor
  <2>10. CASE owner = None
    BY <1>0, <2>9, <2>10 DEF TakenFor
  <2>11. CASE owner # None
    <3>1. PICK v \in Workers : v = owner /\ v = owner'
      BY <1>0, <2>11 DEF StateInv, TypeOK
    <3>2. ASSUME NEW o \in committed' + 1 .. position', Names(topic'[o], i)
          PROVE  Ahead(i)' \/ Held(v, i)' \/ Waiting(i)'
      <4>1. o \in committed + 1 .. position /\ topic'[o] = topic[o]
        BY <1>0, OffsetsInOrder DEF Grown
      <4>2. Ahead(i) \/ Held(v, i) \/ Waiting(i)
        BY <2>11, <3>1, <3>2, <4>1 DEF TakenFor, Names
      <4> QED
        BY <1>1, <2>7, <2>8, <4>2, LogsKeep
    <3>3. TakenFor(i)'
      BY <3>1, <3>2 DEF TakenFor, Names, Held
    <3> QED
      BY <2>9, <3>3
  <2> QED
    BY <2>10, <2>11
<1> QED
  BY <1>2, <1>3

\* Every image that is unsettled after a step was so before, or was just uploaded.
LEMMA SettledStays ==
    ASSUME [Next]_vars, NEW i \in Unsettled', i \notin Unsettled
    PROVE  i \in Images /\ Upload(i)
<1>1. CASE \E j \in Images : Upload(j)
  <2>1. PICK j \in Images : Upload(j)
    BY <1>1
  <2>2. i = j
    BY <2>1 DEF Upload, Unsettled
  <2> QED
    BY <2>1, <2>2
<1>2. CASE \E m \in Malformed : ForeignPublish(m)
  BY <1>2 DEF ForeignPublish, history, Unsettled
<1>3. CASE \E w \in Workers : ExecuteOnce(w)
  BY <1>3 DEF ExecuteOnce, Fetch, ProcessReturns, ProcessRaises, PublishRetry, PublishDeadLetter,
              history, Unsettled
<1>4. CASE \E w \in Workers : Assign(w) \/ Stop(w) \/ Crash(w) \/ Start(w)
  BY <1>4 DEF Assign, Stop, Crash, Start, history, Unsettled
<1>5. CASE AutoCommit \/ Revoke \/ Evict \/ UNCHANGED vars
  BY <1>5 DEF AutoCommit, Revoke, Evict, vars, history, Unsettled
<1>6. CASE ReplayStep \/ \E dryRun \in BOOLEAN : ReplayStart(dryRun)
  BY <1>6 DEF ReplayStep, ReplayPoll, ReplayRecord, ReplayAborts, ReplayEnds, ReplayStart,
              history, Unsettled
<1> QED
  BY <1>1, <1>2, <1>3, <1>4, <1>5, <1>6 DEF Next

LEMMA ExecuteOnceKeeps ==
    ASSUME StateInv, StateInv', Grown, DlqGrown, NEW i \in Unsettled', KeptFor(i), TakenFor(i),
           NEW w \in Workers, ExecuteOnce(w)
    PROVE  KeptFor(i)' /\ TakenFor(i)'
<1>1. CASE Fetch(w)
  BY <1>1, FetchStep
<1>2. CASE ProcessRaises(w)
  <2>1. UNCHANGED <<position, committed, owner, hand, dlqCommitted, replay>>
    BY <1>2 DEF ProcessRaises, kafka, dead
  <2>2. Frontier' <= Frontier /\ DlqFrontier' <= DlqFrontier
    BY <2>1, OffsetsInOrder DEF Frontier, DlqFrontier
  <2> QED
    BY <2>1, <2>2, QuietStep
<1>3. CASE ProcessReturns(w)
  <2>1. /\ UNCHANGED <<position, committed, owner, dlqCommitted, replay>>
        /\ hand' = [hand EXCEPT ![w] = 0]
    BY <1>3 DEF ProcessReturns, Release, kafka, dead
  <2>2. DlqFrontier' <= DlqFrontier
    BY <2>1, OffsetsInOrder DEF DlqFrontier
  <2>3. ~Held(w, i)
    BY <1>3 DEF ProcessReturns, Unsettled, Held, Names, InHand
  <2> QED
    BY <2>1, <2>2, <2>3, ReleaseStep
<1>4. CASE PublishRetry(w)
  <2>0. UNCHANGED <<position, committed, owner, dlqCommitted, replay>>
    BY <1>4 DEF PublishRetry, dead
  <2>1. Frontier' <= Frontier /\ DlqFrontier' <= DlqFrontier
    BY <2>0, OffsetsInOrder DEF Frontier, DlqFrontier
  <2>2. CASE UNCHANGED hand
    BY <2>0, <2>1, <2>2, QuietStep
  <2>3. CASE topic' = Append(topic, RetryMessage(w)) /\ Release(w)
    <3>1. Held(w, i) => Ahead(i)'
      <4> SUFFICES ASSUME Held(w, i) PROVE Ahead(i)'
        OBVIOUS
      <4>1. PICK m \in Messages : m = RetryMessage(w) /\ Names(m, i)
        BY <1>4, RetryIsPublishable DEF PublishRetry, Publishable, Held, Names, InHand
      <4> QED
        BY <2>0, <2>3, <4>1, AppendedIsAhead
    <3>2. hand' = [hand EXCEPT ![w] = 0]
      BY <2>3 DEF Release
    <3> QED
      BY <2>0, <2>1, <3>1, <3>2, ReleaseStep
  <2> QED
    BY <1>4, <2>2, <2>3 DEF PublishRetry
<1>5. CASE PublishDeadLetter(w)
  <2>1. /\ UNCHANGED <<position, committed, owner, dlqCommitted, replay>>
        /\ hand' = [hand EXCEPT ![w] = 0]
    BY <1>5 DEF PublishDeadLetter, Release, kafka
  <2>2. DlqFrontier' = DlqFrontier
    BY <2>1 DEF DlqFrontier
  <2>3. Held(w, i) => Waiting(i)'
    <3> SUFFICES ASSUME Held(w, i) PROVE Waiting(i)'
      OBVIOUS
    <3>1. hand[w] # 0 /\ Names(InHand(w), i) /\ InHand(w) \in Messages
      BY HeldMessage DEF Held, InHand
    <3>2. i \notin dropped'
      BY DEF Unsettled
    <3>3. PICK l \in Letters : l = DeadLetter(InHand(w)) /\ Names(l, i)
      BY <3>1, LetterType DEF Names
    <3>4. dlq' = Append(dlq, l)
      BY <1>5, <3>1, <3>2, <3>3 DEF PublishDeadLetter, Names
    <3>5. dlq \in Seq(Letters)
      BY DEF StateInv, TypeOK, Letters
    <3>6. Len(dlq') = Len(dlq) + 1 /\ dlq'[Len(dlq) + 1] = l
      BY <3>4, <3>5, AppendFacts
    <3>7. Len(dlq) + 1 \in DlqFrontier' + 1 .. Len(dlq')
      BY <2>2, <3>6, OffsetsInOrder
    <3>8. Names(dlq'[Len(dlq) + 1], i)
      BY <3>3, <3>6
    <3> QED
      BY <3>7, <3>8 DEF Waiting, Names
  <2>4. DlqFrontier' <= DlqFrontier
    BY <2>2, OffsetsInOrder
  <2> QED
    BY <2>1, <2>3, <2>4, ReleaseStep
<1> QED
  BY <1>1, <1>2, <1>3, <1>4, <1>5 DEF ExecuteOnce

LEMMA NextAccountInv == StateInv /\ RunInv /\ AccountInv /\ [Next]_vars => AccountInv'
<1> SUFFICES ASSUME StateInv, RunInv, AccountInv, [Next]_vars, NEW i \in Unsettled'
             PROVE  KeptFor(i)' /\ TakenFor(i)'
  BY ByImageNext
<1>0. StateInv' /\ Grown /\ DlqGrown
  BY NextStateInv, LogsGrow
<1>1. CASE i \notin Unsettled
  <2>1. i \in Images /\ Upload(i)
    BY <1>1, SettledStays
  <2>2. PICK m \in Messages : m = Task(i, 0) /\ Names(m, i)
    BY <2>1, TaskType DEF Names
  <2>3. topic' = Append(topic, m) /\ position' = position
    BY <2>1, <2>2 DEF Upload
  <2>4. Ahead(i)' /\ InTopic(i)'
    BY <1>0, <2>2, <2>3, AppendedIsAhead
  <2> QED
    BY <2>4 DEF KeptFor, TakenFor
<1>2. CASE i \in Unsettled
  <2>0. KeptFor(i) /\ TakenFor(i)
    BY <1>2, ByImage
  <2>1. ASSUME UNCHANGED <<position, committed, owner, hand, dlqCommitted, replay>>
        PROVE  KeptFor(i)' /\ TakenFor(i)'
    <3>1. Frontier' <= Frontier /\ DlqFrontier' <= DlqFrontier
      BY <2>1, OffsetsInOrder DEF Frontier, DlqFrontier
    <3> QED
      BY <1>0, <2>0, <2>1, <3>1, QuietStep
  <2>2. CASE \E j \in Images : Upload(j)
    BY <2>1, <2>2 DEF Upload, workers, dead
  <2>3. CASE \E m \in Malformed : ForeignPublish(m)
    BY <2>1, <2>3 DEF ForeignPublish, workers, dead
  <2>4. CASE \E w \in Workers : ExecuteOnce(w)
    BY <1>0, <2>0, <2>4, ExecuteOnceKeeps
  <2>5. CASE \E w \in Workers : Crash(w)
    BY <1>0, <2>0, <2>5, CrashStep
  <2>6. CASE UNCHANGED vars \/ \E w \in Workers : Start(w)
    BY <2>1, <2>6 DEF Start, vars, kafka, workers, dead
  <2>7. CASE \/ AutoCommit \/ Revoke \/ Evict
             \/ \E w \in Workers : Assign(w) \/ Stop(w)
    <3>1. UNCHANGED <<hand, dlqCommitted, replay>>
      BY <2>7 DEF AutoCommit, Revoke, Evict, Assign, Stop, workers, dead
    <3>2. DlqFrontier' <= DlqFrontier
      BY <3>1, OffsetsInOrder DEF DlqFrontier
    <3>3. /\ Frontier' <= Frontier
          /\ \/ UNCHANGED <<position, committed, owner>>
             \/ owner' = None
             \/ committed' = position'
      BY <2>7, OffsetsInOrder, NoneAssumption DEF AutoCommit, Revoke, Evict, Assign, Stop, Frontier
    <3> QED
      BY <1>0, <2>0, <3>1, <3>2, <3>3, QuietStep
  <2>8. CASE ReplayRecord
    BY <1>0, <2>0, <2>8, ReplayStepKeeps
  <2>9. CASE \/ ReplayPoll \/ ReplayAborts \/ ReplayEnds
             \/ \E dryRun \in BOOLEAN : ReplayStart(dryRun)
    <3>1. UNCHANGED <<position, committed, owner, hand, dlqCommitted>>
      BY <2>9 DEF ReplayPoll, ReplayAborts, ReplayEnds, ReplayStart, kafka, workers
    <3>2. DlqFrontier' <= DlqFrontier
      <4>0. replay \in ReplayRecords /\ dlqCommitted \in Nat /\ replay.next \in Nat
        BY ReplayTypes DEF ReplayRecords
      <4>1. CASE ReplayPoll
        BY <3>1, <4>0, <4>1 DEF ReplayPoll, ReplayRecords, DlqFrontier
      <4>2. CASE ReplayAborts \/ ReplayEnds
        <5>1. replay' = Idle
          BY <4>2 DEF ReplayAborts, ReplayEnds
        <5> QED
          BY <3>1, <4>0, <5>1, IdleFields DEF DlqFrontier, RunInv, ReplayInv
      <4>3. ASSUME NEW dryRun \in BOOLEAN, ReplayStart(dryRun) PROVE DlqFrontier' <= DlqFrontier
        <5>1. replay'.next = dlqCommitted /\ ~replay.on
          BY <4>3 DEF ReplayStart
        <5> QED
          BY <3>1, <4>0, <5>1 DEF DlqFrontier
      <4> QED
        BY <2>9, <4>1, <4>2, <4>3
    <3>3. Frontier' <= Frontier
      BY <3>1, OffsetsInOrder DEF Frontier
    <3> QED
      BY <1>0, <2>0, <3>1, <3>2, <3>3, QuietStep
  <2> QED
    BY <2>2, <2>3, <2>4, <2>5, <2>6, <2>7, <2>8, <2>9 DEF Next, ReplayStep
<1> QED
  BY <1>1, <1>2

LEMMA InitAccountInv == Init => AccountInv
BY DEF Init, AccountInv, Kept, Taken, Unsettled

LEMMA KeptMeansAccounted ==
    StateInv /\ RunInv /\ AccountInv => TaskAccounted
<1> SUFFICES ASSUME StateInv, RunInv, AccountInv, NEW i \in Unsettled, ~Pending(i)
             PROVE  DeadLettered(i)
  BY DEF TaskAccounted, Unsettled
<1>1. PICK d \in DlqFrontier + 1 .. Len(dlq) : Names(dlq[d], i)
  BY DEF AccountInv, Kept, Waiting
<1>2. dlqCommitted <= DlqFrontier /\ dlqCommitted \in Nat
  BY ReplayTypes DEF DlqFrontier, RunInv, ReplayInv
<1> QED
  BY <1>1, <1>2, OffsetsInOrder DEF DeadLettered

\* A published task is pending, processed, in the dead-letter topic, or given up
\* in one of the two ways the code has: crashes, evictions, redelivery, sends
\* that fail ambiguously and replay runs cut short lose no other task, for any
\* number of workers, retries, crashes, rebalances and replays.
THEOREM NoTaskForgotten == Spec => []TaskAccounted
BY InitAccountInv, NextAccountInv, KeptMeansAccounted, SpecStateInv, SpecRunInv, PTL DEF Spec

=============================================================================
