----------------------- MODULE ServiceLifecycleProofs -----------------------
(***************************************************************************)
(* Proofs about ServiceLifecycle, for any number of tasks and faults, in   *)
(* an API process and in a worker.                                         *)
(*                                                                         *)
(* None of the three properties is inductive by itself.  That one producer *)
(* is running at most rests on which task may be starting it, and on the   *)
(* shutdown beginning only when no task is under way (TasksInv).  That a   *)
(* stopped process has released everything is built up phase by phase      *)
(* (ReleaseInv).                                                           *)
(***************************************************************************)
EXTENDS ServiceLifecycle, TLAPS

Labels == {"idle", "loop", "join", "getone", "compute", "wait", "publish", "start", "send"}

Ranges ==
    /\ role \in {"api", "worker"}
    /\ pc \in [Tasks -> Labels]
    /\ tries \in [Tasks -> {0, 1}]
    /\ handle \in Tasks \cup {None}
    /\ started \subseteq Tasks

\* The shutdown begins when no task is under way, and a worker has one task only.
TasksInv ==
    /\ phase # "up" => \A t \in Tasks : pc[t] = "idle"
    /\ role = "worker" => \A t \in Tasks : pc[t] # "idle" => t = Loop
    /\ \A t \in Tasks : pc[t] \in {"loop", "join", "getone"} => role = "worker"

\* The task that created the producer is the one that starts it.
ProducerInv ==
    /\ started \subseteq {handle}
    /\ \A t \in Tasks : pc[t] = "start" => handle = t
    /\ \A t \in Tasks : pc[t] = "send" => handle # None
    /\ handle # None => handle \in started \/ startFailed \/ \E u \in Tasks : pc[u] = "start"

\* What each phase of the shutdown has given back when it is over.
ProducerGone == handle = None /\ started = {}
ConsumerGone == consumer = "none" /\ (role = "api" => "metrics" \notin held)
PoolGone == pool = "none"

ReleaseInv ==
    /\ held \subseteq {"engine", "metrics", "requests"}
    /\ role = "worker" => "requests" \notin held
    /\ ~Closed => "engine" \in held
    /\ phase \in {"consumer", "executor", "await", "dispose"} => ProducerGone
    /\ phase \in {"executor", "await", "dispose"} => ConsumerGone
    /\ phase = "await" => pool = "none"
    /\ phase = "dispose" => PoolGone
    /\ Closed =>
          \/ raised /\ "engine" \in held
          \/ ProducerGone /\ ConsumerGone /\ PoolGone /\ "engine" \notin held

ServiceInv == Ranges /\ TasksInv /\ ProducerInv /\ ReleaseInv

LEMMA NextRanges == ServiceInv /\ [Next]_vars => Ranges'
<1> SUFFICES ASSUME ServiceInv, [Next]_vars PROVE Ranges'
  OBVIOUS
<1> USE LoopAssumption DEF ServiceInv, Ranges, Labels, ProducerInv
<1>1. ASSUME NEW t \in Tasks, Consume(t) PROVE Ranges'
  BY <1>1 DEF Consume, Iterate, Joined, GetOne, Goto, tasks, producer, resources, process
<1>2. ASSUME NEW t \in Tasks, Compute(t) PROVE Ranges'
  BY <1>2 DEF Compute, Submit, Computed, Broken, Recover, Done, Goto, tasks, producer,
     resources, process
<1>3. ASSUME NEW t \in Tasks, EnsureProducer(t) \/ Started(t) PROVE Ranges'
  BY <1>3 DEF EnsureProducer, Started, Goto, tasks, producer, resources, process
<1>4. ASSUME NEW t \in Tasks, Sent(t) \/ SendRaises(t) PROVE Ranges'
  BY <1>4 DEF Sent, SendRaises, GiveUp, Done, Goto, tasks, producer, resources, process
<1>5. ASSUME NEW t \in Tasks, KafkaFails(t) PROVE Ranges'
  BY <1>5 DEF KafkaFails, JoinFails, GetOneFails, StartFails, SendFails, SendRaises, GiveUp, Done, Goto,
     Fault, tasks, producer, resources, process
<1>6. ASSUME NEW t \in Tasks, Arrive(t) \/ Cancel(t) \/ StrayEnds(t) PROVE Ranges'
  BY <1>6 DEF Arrive, Cancel, StrayEnds, Goto, tasks, producer, resources, process
<1>7. CASE Drain \/ StopProducer \/ StopConsumer
  BY <1>7 DEF Drain, StopProducer, StopConsumer, tasks, producer, resources, process
<1>8. CASE DetachPool \/ AwaitPool \/ Dispose \/ Exit
  BY <1>8 DEF DetachPool, AwaitPool, Dispose, Exit, tasks, producer, resources, process
<1>9. CASE CloseFails \/ ChildDies
  BY <1>9 DEF CloseFails, ChildDies, Fault, tasks, producer, resources, process
<1>10. CASE Restart
  BY <1>10 DEF Restart, FirstLabels, OpenedAtStart, tasks, producer, resources, process
<1>11. CASE Signal \/ MessageArrives \/ UNCHANGED vars
  BY <1>11 DEF Signal, MessageArrives, vars, tasks, producer, resources, process
<1> QED
  BY <1>1, <1>2, <1>3, <1>4, <1>5, <1>6, <1>7, <1>8, <1>9, <1>10, <1>11 DEF Next, Publish, Shutdown

\* A worker's task leaves its loop only when the process shuts down, and an API
\* process shuts down only when every request is answered.
LEMMA NextTasks == ServiceInv /\ [Next]_vars => TasksInv'
<1> SUFFICES ASSUME ServiceInv, [Next]_vars PROVE TasksInv'
  OBVIOUS
<1> USE LoopAssumption DEF ServiceInv, Ranges, Labels, TasksInv
<1>1. ASSUME NEW t \in Tasks, Consume(t) PROVE TasksInv'
  BY <1>1 DEF Consume, Iterate, Joined, GetOne, Goto, tasks, process
<1>2. ASSUME NEW t \in Tasks, Compute(t) PROVE TasksInv'
  BY <1>2 DEF Compute, Submit, Computed, Broken, Recover, Done, Goto, tasks, process
<1>3. ASSUME NEW t \in Tasks, EnsureProducer(t) \/ Started(t) PROVE TasksInv'
  BY <1>3 DEF EnsureProducer, Started, Goto, tasks, process
<1>4. ASSUME NEW t \in Tasks, Sent(t) \/ SendRaises(t) PROVE TasksInv'
  BY <1>4 DEF Sent, SendRaises, GiveUp, Done, Goto, tasks, process
<1>5. ASSUME NEW t \in Tasks, KafkaFails(t) PROVE TasksInv'
  BY <1>5 DEF KafkaFails, JoinFails, GetOneFails, StartFails, SendFails, SendRaises, GiveUp, Done, Goto,
     Fault, tasks, process
<1>6. ASSUME NEW t \in Tasks, Arrive(t) \/ Cancel(t) \/ StrayEnds(t) PROVE TasksInv'
  BY <1>6 DEF Arrive, Cancel, StrayEnds, Goto, tasks, process
<1>7. CASE Drain \/ StopProducer \/ StopConsumer
  BY <1>7 DEF Drain, StopProducer, StopConsumer, tasks, process
<1>8. CASE DetachPool \/ AwaitPool \/ Dispose \/ Exit
  BY <1>8 DEF DetachPool, AwaitPool, Dispose, Exit, tasks, process
<1>9. CASE CloseFails \/ ChildDies
  BY <1>9 DEF CloseFails, ChildDies, Fault, tasks, process
<1>10. CASE Restart
  BY <1>10 DEF Restart, FirstLabels, OpenedAtStart, tasks, process
<1>11. CASE Signal \/ MessageArrives \/ UNCHANGED vars
  BY <1>11 DEF Signal, MessageArrives, vars, tasks, process
<1> QED
  BY <1>1, <1>2, <1>3, <1>4, <1>5, <1>6, <1>7, <1>8, <1>9, <1>10, <1>11 DEF Next, Publish, Shutdown

\* A producer is created when there is none, so that none is running then; only
\* the task that created it may start it, and close stops it when no task is left.
LEMMA NextProducer == ServiceInv /\ [Next]_vars => ProducerInv'
<1> SUFFICES ASSUME ServiceInv, [Next]_vars PROVE ProducerInv'
  OBVIOUS
<1> USE LoopAssumption DEF ServiceInv, Ranges, Labels, TasksInv, ProducerInv
<1>1. ASSUME NEW t \in Tasks, Consume(t) PROVE ProducerInv'
  BY <1>1 DEF Consume, Iterate, Joined, GetOne, Goto, tasks, producer, resources, process
<1>2. ASSUME NEW t \in Tasks, Compute(t) PROVE ProducerInv'
  BY <1>2 DEF Compute, Submit, Computed, Broken, Recover, Done, Goto, tasks, producer,
     resources, process
<1>3. ASSUME NEW t \in Tasks, EnsureProducer(t) \/ Started(t) PROVE ProducerInv'
  BY <1>3 DEF EnsureProducer, Started, Goto, tasks, producer, resources, process
<1>4. ASSUME NEW t \in Tasks, Sent(t) \/ SendRaises(t) PROVE ProducerInv'
  BY <1>4 DEF Sent, SendRaises, GiveUp, Done, Goto, tasks, producer, resources, process
<1>5. ASSUME NEW t \in Tasks, KafkaFails(t) PROVE ProducerInv'
  BY <1>5 DEF KafkaFails, JoinFails, GetOneFails, StartFails, SendFails, SendRaises, GiveUp, Done, Goto,
     Fault, tasks, producer, resources, process
<1>6. ASSUME NEW t \in Tasks, Arrive(t) \/ Cancel(t) \/ StrayEnds(t) PROVE ProducerInv'
  BY <1>6 DEF Arrive, Cancel, StrayEnds, Goto, tasks, producer, resources, process
<1>7. CASE Drain \/ StopProducer \/ StopConsumer
  BY <1>7 DEF Drain, StopProducer, StopConsumer, tasks, producer, resources, process
<1>8. CASE DetachPool \/ AwaitPool \/ Dispose \/ Exit
  BY <1>8 DEF DetachPool, AwaitPool, Dispose, Exit, tasks, producer, resources, process
<1>9. CASE CloseFails \/ ChildDies
  BY <1>9 DEF CloseFails, ChildDies, Fault, tasks, producer, resources, process
<1>10. CASE Restart
  BY <1>10 DEF Restart, FirstLabels, OpenedAtStart, tasks, producer, resources, process
<1>11. CASE Signal \/ MessageArrives \/ UNCHANGED vars
  BY <1>11 DEF Signal, MessageArrives, vars, tasks, producer, resources, process
<1> QED
  BY <1>1, <1>2, <1>3, <1>4, <1>5, <1>6, <1>7, <1>8, <1>9, <1>10, <1>11 DEF Next, Publish, Shutdown

\* No task is left to create anything again once a phase has given it back.
LEMMA NextRelease == ServiceInv /\ [Next]_vars => ReleaseInv'
<1> SUFFICES ASSUME ServiceInv, [Next]_vars PROVE ReleaseInv'
  OBVIOUS
<1> USE LoopAssumption DEF ServiceInv, Ranges, TasksInv, ProducerInv, ReleaseInv, ProducerGone, ConsumerGone, PoolGone, Closed
<1>1. ASSUME NEW t \in Tasks, Consume(t) PROVE ReleaseInv'
  BY <1>1 DEF Consume, Iterate, Joined, GetOne, Goto, process, producer, resources, tasks
<1>2. ASSUME NEW t \in Tasks, Compute(t) PROVE ReleaseInv'
  BY <1>2 DEF Compute, Submit, Computed, Broken, Recover, Done, Goto, process, producer,
     resources, tasks
<1>3. ASSUME NEW t \in Tasks, EnsureProducer(t) \/ Started(t) PROVE ReleaseInv'
  BY <1>3 DEF EnsureProducer, Started, Goto, process, producer, resources, tasks
<1>4. ASSUME NEW t \in Tasks, Sent(t) \/ SendRaises(t) PROVE ReleaseInv'
  BY <1>4 DEF Sent, SendRaises, GiveUp, Done, Goto, process, producer, resources, tasks
<1>5. ASSUME NEW t \in Tasks, KafkaFails(t) PROVE ReleaseInv'
  BY <1>5 DEF KafkaFails, JoinFails, GetOneFails, StartFails, SendFails, SendRaises, GiveUp, Done, Goto,
     Fault, process, producer, resources, tasks
<1>6. ASSUME NEW t \in Tasks, Arrive(t) \/ Cancel(t) \/ StrayEnds(t) PROVE ReleaseInv'
  BY <1>6 DEF Arrive, Cancel, StrayEnds, Goto, process, producer, resources, tasks
<1>7. CASE Drain \/ StopProducer \/ StopConsumer
  BY <1>7 DEF Drain, StopProducer, StopConsumer, process, producer, resources, tasks
<1>8. CASE DetachPool \/ AwaitPool \/ Dispose \/ Exit
  BY <1>8 DEF DetachPool, AwaitPool, Dispose, Exit, process, producer, resources, tasks
<1>9. CASE CloseFails \/ ChildDies
  BY <1>9 DEF CloseFails, ChildDies, Fault, process, producer, resources, tasks
<1>10. CASE Restart
  BY <1>10 DEF Restart, FirstLabels, OpenedAtStart, process, producer, resources, tasks
<1>11. CASE Signal \/ MessageArrives \/ UNCHANGED vars
  BY <1>11 DEF Signal, MessageArrives, vars, process, producer, resources, tasks
<1> QED
  BY <1>1, <1>2, <1>3, <1>4, <1>5, <1>6, <1>7, <1>8, <1>9, <1>10, <1>11 DEF Next, Publish, Shutdown

LEMMA InitServiceInv == Init => ServiceInv
BY LoopAssumption
   DEF Init, FirstLabels, OpenedAtStart, ServiceInv, Ranges, Labels, TasksInv, ProducerInv, ReleaseInv, Closed

LEMMA SpecServiceInv == Spec => []ServiceInv
<1>1. ServiceInv /\ [Next]_vars => ServiceInv'
  BY NextRanges, NextTasks, NextProducer, NextRelease DEF ServiceInv
<1> QED
  BY <1>1, InitServiceInv, PTL DEF Spec

\* However many publishes race through _ensure_producer, and whatever Kafka call
\* fails, no producer runs that close would not stop.
THEOREM AtMostOneProducer == Spec => []OneProducer
<1>1. ServiceInv => OneProducer
  BY DEF ServiceInv, ProducerInv, OneProducer
<1> QED
  BY <1>1, SpecServiceInv, PTL

\* A publish meets a producer that is not running only during its start, or after
\* a start that failed or was cancelled: close never takes it away under a request.
THEOREM ProducerOutlivesSends == Spec => []SendsOnRunningProducer
<1>1. ServiceInv => SendsOnRunningProducer
  BY DEF ServiceInv, ProducerInv, SendsOnRunningProducer
<1> QED
  BY <1>1, SpecServiceInv, PTL

\* Whatever order requests, signals, faults and restarts come in, a process that
\* shuts down without an exception of close has given back its Kafka clients, its pool
\* and the engine it opened at the start.
THEOREM ShutdownReleases == Spec => []StopReleases
<1>1. ServiceInv => StopReleases
  <2> SUFFICES ASSUME ServiceInv, Closed, ~(raised /\ "engine" \in held)
               PROVE  /\ handle = None /\ started = {}
                      /\ consumer = "none"
                      /\ pool = "none"
                      /\ held \subseteq (IF role = "api" THEN {"requests"} ELSE {"metrics"})
    BY DEF StopReleases
  <2>1. ProducerGone /\ ConsumerGone /\ PoolGone /\ "engine" \notin held
    BY DEF ServiceInv, ReleaseInv
  <2>2. held \subseteq (IF role = "api" THEN {"requests"} ELSE {"metrics"})
    BY <2>1 DEF ServiceInv, Ranges, ReleaseInv, ConsumerGone
  <2> QED
    BY <2>1, <2>2 DEF ProducerGone, ConsumerGone, PoolGone
<1> QED
  BY <1>1, SpecServiceInv, PTL

=============================================================================
