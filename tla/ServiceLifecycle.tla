-------------------------- MODULE ServiceLifecycle --------------------------
(***************************************************************************)
(* The life of one process of the service, an API process or a Kafka       *)
(* worker: the clients and the process pool it creates on first use, the   *)
(* signal that ends it, and the order in which it gives everything back.   *)
(*                                                                         *)
(* A task is a request under way in an API process, or the worker's loop.  *)
(* Uvicorn is external: after a signal it takes no request, waits for      *)
(* those under way, however long, and then leaves the lifespan.  So is     *)
(* aiokafka: a send on a producer that has not started waits for it, and   *)
(* for ever, or raises, if its start has failed.  So is CPython: the       *)
(* process ends when the last child of its pool has ended.                 *)
(***************************************************************************)
EXTENDS Naturals

CONSTANTS
    Tasks,          \* requests that may be under way together
    Loop,           \* the one task of a worker
    MaxFaults,      \* bound: Kafka calls that fail, pool children that die
    None

ASSUME LoopAssumption == Loop \in Tasks /\ None \notin Tasks /\ MaxFaults \in Nat

VARIABLES
    role,           \* "api" or "worker"
    phase,          \* "up", or where the shutdown is
    signalled,      \* SIGTERM or SIGINT has arrived
    raised,         \* the process is leaving with an exception
    pc,             \* where each task is
    tries,          \* what a worker publishes instead if a publish fails
    handle,         \* _producer, named after the task that created it
    started,        \* producers that have started and not been stopped
    startFailed,    \* history: the start of this life's producer raised or was cancelled
    consumer,       \* _consumer
    pool,           \* _executor
    jobs,           \* tasks whose work runs in a pool child
    held,           \* engines and the metrics provider
    pending,        \* the worker's partitions have a message to fetch
    faults

tasks == <<pc, tries>>
producer == <<handle, started, startFailed>>
resources == <<producer, consumer, pool, jobs, held>>
process == <<role, signalled, raised>>
vars == <<process, phase, tasks, resources, pending, faults>>

\* The tasks of a process that has just come up, and what it holds.
FirstLabels(r) == [t \in Tasks |-> IF r = "worker" /\ t = Loop THEN "loop" ELSE "idle"]
OpenedAtStart == {"engine", "metrics"}

Init ==
    /\ role \in {"api", "worker"}
    /\ phase = "up"
    /\ signalled = FALSE
    /\ raised = FALSE
    /\ pc = FirstLabels(role)
    /\ tries = [t \in Tasks |-> 0]
    /\ handle = None
    /\ started = {}
    /\ startFailed = FALSE
    /\ consumer = "none"
    /\ pool = "none"
    /\ jobs = {}
    /\ held = OpenedAtStart
    /\ pending = FALSE
    /\ faults = 0

Goto(t, label) == pc' = [pc EXCEPT ![t] = label]

\* A request is answered; the worker turns to its next message.
Done(t) == Goto(t, IF role = "api" THEN "idle" ELSE "loop")

Fault == faults < MaxFaults /\ faults' = faults + 1

-----------------------------------------------------------------------------
(* Requests and the worker's loop.                                         *)

\* The first request builds the engine of _session_factory, the second one of an
\* API process.
Arrive(t) ==
    /\ role = "api" /\ phase = "up" /\ ~signalled
    /\ pc[t] = "idle" /\ t \notin jobs
    /\ \/ Goto(t, "publish")
       \/ Goto(t, "compute")
    /\ held' = held \cup {"requests"}
    /\ UNCHANGED <<process, phase, tries, producer, consumer, pool, jobs, pending, faults>>

\* while not shutdown.is_set(): the next message, or the finally block.
Iterate(t) ==
    /\ pc[t] = "loop"
    /\ IF signalled
         THEN /\ phase' = "producer"
              /\ Goto(t, "idle")
              /\ UNCHANGED consumer
         ELSE /\ UNCHANGED phase
              /\ IF consumer = "none"
                   THEN consumer' = "starting" /\ Goto(t, "join")
                   ELSE Goto(t, "getone") /\ UNCHANGED consumer
    /\ UNCHANGED <<process, tries, producer, pool, jobs, held, pending, faults>>

\* _ensure_consumer
Joined(t) ==
    /\ pc[t] = "join"
    /\ consumer' = "up"
    /\ Goto(t, "getone")
    /\ UNCHANGED <<process, phase, tries, producer, pool, jobs, held, pending, faults>>

MutJoinFails(t) ==
    /\ pc[t] = "join"
    /\ Fault
    /\ consumer' = "broken"
    /\ Goto(t, "loop")
    /\ UNCHANGED <<process, phase, tries, producer, pool, jobs, held, pending>>

\* The start of the consumer is outside consume's try: the exception leaves the
\* loop, and the process.
JoinFails(t) ==
    /\ pc[t] = "join"
    /\ Fault
    /\ consumer' = "broken"
    /\ raised' = TRUE
    /\ phase' = "producer"
    /\ Goto(t, "idle")
    /\ UNCHANGED <<role, signalled, tries, producer, pool, jobs, held, pending>>

\* getone blocks until there is a message, whatever signal arrives.  A message
\* that does not parse is dead-lettered without being processed.
GetOne(t) ==
    /\ pc[t] = "getone" /\ consumer = "up"
    /\ pending
    /\ pending' = FALSE
    /\ \/ Goto(t, "compute")
       \/ Goto(t, "publish")
    /\ UNCHANGED <<process, phase, tries, resources, faults>>

\* consume returns None.
GetOneFails(t) ==
    /\ pc[t] = "getone"
    /\ Fault
    /\ Goto(t, "loop")
    /\ UNCHANGED <<process, phase, tries, resources, pending>>

-----------------------------------------------------------------------------
(* The process pool.                                                       *)

\* What a failed computation leads to: the request fails; the worker publishes a
\* retry, with the dead letter to fall back on, or the dead letter at once.
Recover(t) ==
    IF role = "api"
      THEN Done(t) /\ UNCHANGED tries
      ELSE \E n \in {0, 1} : Goto(t, "publish") /\ tries' = [tries EXCEPT ![t] = n]

\* run_in_executor(get_executor(...)): a broken pool is kept and raises at once.
Submit(t) ==
    /\ pc[t] = "compute"
    /\ IF pool = "broken"
         THEN Recover(t) /\ UNCHANGED <<pool, jobs>>
         ELSE /\ pool' = "up"
              /\ jobs' = jobs \cup {t}
              /\ Goto(t, "wait")
              /\ UNCHANGED tries
    /\ UNCHANGED <<process, phase, producer, consumer, held, pending, faults>>

\* The child returns a result, or the exception of an unreadable image.
Computed(t) ==
    /\ pc[t] = "wait" /\ t \in jobs
    /\ jobs' = jobs \ {t}
    /\ \/ Done(t) /\ UNCHANGED tries
       \/ Recover(t)
    /\ UNCHANGED <<process, phase, producer, consumer, pool, held, pending, faults>>

\* The pool is broken: what it was working on raises.
Broken(t) ==
    /\ pc[t] = "wait" /\ t \notin jobs
    /\ Recover(t)
    /\ UNCHANGED <<process, phase, resources, pending, faults>>

\* The server cancels a request, whose client has gone say; a child works on, and
\* _producer keeps the object whose start was cut short.
Cancel(t) ==
    /\ role = "api"
    /\ pc[t] \in {"wait", "start", "send"}
    /\ startFailed' = (startFailed \/ pc[t] = "start")
    /\ Goto(t, "idle")
    /\ UNCHANGED <<process, phase, tries, handle, started, consumer, pool, jobs, held, pending, faults>>

\* A child finishes work nobody waits for any more.
StrayEnds(t) ==
    /\ pc[t] # "wait" /\ t \in jobs
    /\ jobs' = jobs \ {t}
    /\ UNCHANGED <<process, phase, tasks, producer, consumer, pool, held, pending, faults>>

\* A child is killed, for want of memory say: BrokenProcessPool for every job.
ChildDies ==
    /\ pool = "up"
    /\ Fault
    /\ pool' = "broken"
    /\ jobs' = {}
    /\ UNCHANGED <<process, phase, tasks, producer, consumer, held, pending>>

-----------------------------------------------------------------------------
(* The producer.                                                           *)

MutEnsureProducer(t) ==
    /\ pc[t] = "publish"
    /\ IF handle = None
         THEN started' = started \cup {t}
         ELSE UNCHANGED started
    /\ Goto(t, "send")
    /\ UNCHANGED <<process, phase, tries, handle, startFailed, consumer, pool, jobs, held, pending, faults>>

MutUnstarted(t) ==
    /\ pc[t] = "publish"
    /\ handle' = IF handle = None THEN t ELSE handle
    /\ Goto(t, "send")
    /\ UNCHANGED <<process, phase, tries, started, startFailed, consumer, pool, jobs, held, pending, faults>>

\* _ensure_producer assigns _producer and then awaits its start: a publish that
\* comes meanwhile finds it assigned.
EnsureProducer(t) ==
    /\ pc[t] = "publish"
    /\ IF handle = None
         THEN handle' = t /\ Goto(t, "start")
         ELSE Goto(t, "send") /\ UNCHANGED handle
    /\ UNCHANGED <<process, phase, tries, started, startFailed, consumer, pool, jobs, held, pending, faults>>

Started(t) ==
    /\ pc[t] = "start"
    /\ started' = started \cup {handle}
    /\ Goto(t, "send")
    /\ UNCHANGED <<process, phase, tries, handle, startFailed, consumer, pool, jobs, held, pending, faults>>

\* A publish that raises is logged; in the worker the dead letter takes its place.
GiveUp(t) ==
    /\ tries' = [tries EXCEPT ![t] = 0]
    /\ IF tries[t] = 1 THEN Goto(t, "publish") ELSE Done(t)

\* _producer keeps the object whose start raised.
StartFails(t) ==
    /\ pc[t] = "start"
    /\ Fault
    /\ startFailed' = TRUE
    /\ GiveUp(t)
    /\ UNCHANGED <<process, phase, handle, started, consumer, pool, jobs, held, pending>>

Sent(t) ==
    /\ pc[t] = "send" /\ handle \in started
    /\ Done(t)
    /\ tries' = [tries EXCEPT ![t] = 0]
    /\ UNCHANGED <<process, phase, resources, pending, faults>>

SendFails(t) ==
    /\ pc[t] = "send" /\ handle \in started
    /\ Fault
    /\ GiveUp(t)
    /\ UNCHANGED <<process, phase, resources, pending>>

\* A send on a producer that has not started raises.  publish sets no timeout:
\* nothing says that it must.
SendRaises(t) ==
    /\ pc[t] = "send" /\ handle \notin started
    /\ GiveUp(t)
    /\ UNCHANGED <<process, phase, resources, pending, faults>>

-----------------------------------------------------------------------------
(* The end.                                                                *)

Signal ==
    /\ ~signalled /\ phase # "exited"
    /\ signalled' = TRUE
    /\ UNCHANGED <<role, raised, phase, tasks, resources, pending, faults>>

\* Uvicorn has answered every request and resumes the lifespan.
Drain ==
    /\ role = "api" /\ phase = "up" /\ signalled
    /\ \A t \in Tasks : pc[t] = "idle"
    /\ phase' = "producer"
    /\ UNCHANGED <<process, tasks, resources, pending, faults>>

\* KafkaMessageBroker.close: the producer, then the consumer.
StopProducer ==
    /\ phase = "producer"
    /\ handle' = None
    /\ started' = started \ {handle}
    /\ phase' = "consumer"
    /\ UNCHANGED <<process, tasks, startFailed, consumer, pool, jobs, held, pending, faults>>

\* A worker does not call shutdown_metrics.
StopConsumer ==
    /\ phase = "consumer"
    /\ consumer' = "none"
    /\ held' = IF role = "api" THEN held \ {"metrics"} ELSE held
    /\ phase' = "executor"
    /\ UNCHANGED <<process, tasks, producer, pool, jobs, pending, faults>>

\* Neither the finally block nor the lifespan catches an exception of close: the
\* steps after it are skipped.
CloseFails ==
    /\ \/ phase = "producer" /\ handle # None
       \/ phase = "consumer" /\ consumer # "none"
    /\ Fault
    /\ raised' = TRUE
    /\ phase' = "closed"
    /\ UNCHANGED <<role, signalled, tasks, resources, pending>>

\* async_shutdown_executor forgets the pool and waits for its children ...
DetachPool ==
    /\ phase = "executor"
    /\ pool' = "none"
    /\ phase' = IF pool = "none" THEN "dispose" ELSE "await"
    /\ UNCHANGED <<process, tasks, producer, consumer, jobs, held, pending, faults>>

MutAwaitPool ==
    /\ phase = "await"
    /\ jobs = {}
    /\ phase' = "dispose"
    /\ UNCHANGED <<process, tasks, resources, pending, faults>>

\* ... but no longer than _SHUTDOWN_TIMEOUT_SECONDS: then cancel_futures drops the
\* work that no child has taken, and what a child is at goes on.
AwaitPool ==
    /\ phase = "await"
    /\ jobs' \in SUBSET jobs
    /\ phase' = "dispose"
    /\ UNCHANGED <<process, tasks, producer, consumer, pool, held, pending, faults>>

MutDispose ==
    /\ phase = "dispose"
    /\ held' = held \ {"requests"}
    /\ phase' = "closed"
    /\ UNCHANGED <<process, tasks, producer, consumer, pool, jobs, pending, faults>>

Dispose ==
    /\ phase = "dispose"
    /\ held' = held \ {"engine"}
    /\ phase' = "closed"
    /\ UNCHANGED <<process, tasks, producer, consumer, pool, jobs, pending, faults>>

\* The interpreter joins the threads and children of its executors before it ends.
Exit ==
    /\ phase = "closed"
    /\ jobs = {}
    /\ phase' = "exited"
    /\ UNCHANGED <<process, tasks, resources, pending, faults>>

\* The container of a process that left with an exception is started again, by the
\* Deployments of minikube/ (docker-compose.yml has no restart policy).
Restart ==
    /\ phase = "exited" /\ raised /\ ~signalled
    /\ phase' = "up"
    /\ raised' = FALSE
    /\ pc' = FirstLabels(role)
    /\ tries' = [t \in Tasks |-> 0]
    /\ handle' = None
    /\ started' = {}
    /\ startFailed' = FALSE
    /\ consumer' = "none"
    /\ pool' = "none"
    /\ jobs' = {}
    /\ held' = OpenedAtStart
    /\ UNCHANGED <<role, signalled, pending, faults>>

\* Kafka has a message for this worker.
MessageArrives ==
    /\ role = "worker" /\ ~pending
    /\ pending' = TRUE
    /\ UNCHANGED <<process, phase, tasks, resources, faults>>

-----------------------------------------------------------------------------
Consume(t) == Iterate(t) \/ Joined(t) \/ GetOne(t)

Compute(t) == Submit(t) \/ Computed(t) \/ Broken(t)

Publish(t) == EnsureProducer(t) \/ Started(t) \/ Sent(t)

KafkaFails(t) ==
    JoinFails(t) \/ GetOneFails(t) \/ StartFails(t) \/ SendFails(t) \/ SendRaises(t)

Shutdown == Drain \/ StopProducer \/ StopConsumer \/ DetachPool \/ AwaitPool \/ Dispose \/ Exit

Next ==
    \/ \E t \in Tasks :
         \/ Arrive(t) \/ Consume(t) \/ Compute(t) \/ Publish(t)
         \/ Cancel(t) \/ StrayEnds(t) \/ KafkaFails(t)
    \/ Shutdown \/ CloseFails \/ ChildDies \/ Signal \/ Restart \/ MessageArrives

\* A task goes on, calls of a Kafka client that is running return or raise, a
\* computation somebody waits for ends, and a container is restarted.  Nothing is said
\* of signals, requests, messages, faults, sends on a producer that has not started,
\* or work whose request was cancelled.
Fairness ==
    /\ \A t \in Tasks : WF_vars(Consume(t)) /\ WF_vars(Compute(t)) /\ WF_vars(Publish(t))
    /\ WF_vars(Shutdown)
    /\ WF_vars(Restart)

Spec == Init /\ [][Next]_vars /\ Fairness

-----------------------------------------------------------------------------
(* Properties.                                                             *)

\* Every variable is in the range the code gives it.
TypeOK ==
    /\ role \in {"api", "worker"}
    /\ phase \in {"up", "producer", "consumer", "executor", "await", "dispose", "closed", "exited"}
    /\ {signalled, raised, startFailed, pending} \subseteq BOOLEAN
    /\ pc \in [Tasks -> {"idle", "loop", "join", "getone", "compute", "wait",
                          "publish", "start", "send"}]
    /\ tries \in [Tasks -> {0, 1}]
    /\ handle \in Tasks \cup {None}
    /\ started \cup jobs \subseteq Tasks
    /\ consumer \in {"none", "starting", "up", "broken"}
    /\ pool \in {"none", "up", "broken"}
    /\ held \subseteq {"engine", "metrics", "requests"}
    /\ faults \in 0..MaxFaults

\* However many publishes race to start it, a process has one producer, the one
\* that close will stop: none is left running without a reference to it.
OneProducer == started \subseteq {handle}

\* A publish gets hold of a producer that is not running only while another one
\* starts it, or after its start failed or was cancelled earlier in this life of the
\* process.
SendsOnRunningProducer ==
    \A t \in Tasks :
        pc[t] = "send" /\ handle \notin started =>
            startFailed \/ \E u \in Tasks : pc[u] = "start"

Closed == phase \in {"closed", "exited"}

\* A process that has shut down, and did not have to skip steps because close raised,
\* has given back both Kafka clients, the pool and the engine it opened at the start.
\* What stays: the engine of _session_factory in an API process, the metrics provider
\* in a worker.
StopReleases ==
    Closed =>
        \/ raised /\ "engine" \in held
        \/ /\ handle = None /\ started = {}
           /\ consumer = "none"
           /\ pool = "none"
           /\ held \subseteq (IF role = "api" THEN {"requests"} ELSE {"metrics"})

\* The publish waits on a producer that is not running.
Waiting(t) == pc[t] = "send" /\ handle \notin started

\* A signal makes a process shut down even if a child never ends or close raises, and
\* the process ends if its children do: an API process, and a worker to which messages
\* keep coming (one whose topic stays empty waits in getone for ever), as long as no
\* publish waits for ever on a producer whose start has failed.
SignalEnds ==
    /\ role = "api" \/ []<>pending
    /\ \A t \in Tasks : []<>~Waiting(t)
    => /\ signalled ~> Closed
       /\ <>[](jobs = {}) => (signalled ~> phase = "exited")

\* A worker that could not join its group is restarted and joins it once Kafka is
\* back, unless it is told to stop.
WorkerRejoins == consumer = "broken" ~> (consumer = "up" \/ signalled)
=============================================================================
