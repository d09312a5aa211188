------------------------------ MODULE Handoff ------------------------------
(***************************************************************************)
(* The bounded handoff between the gRPC classify handlers and the          *)
(* dedicated inference executor threads: instrumentation/reference/src/    *)
(* handoff.rs, with the handler of grpc/classify.rs that calls it and the  *)
(* executor gauges of metrics.rs that it feeds.                            *)
(*                                                                         *)
(* One step of the model is one atomic operation of the code: a semaphore  *)
(* acquisition, one fetch_add/fetch_sub/fetch_max/store, one channel       *)
(* operation, one oneshot send.  A handler runs one request at a time and  *)
(* then may run another one.  A request carries no data: what matters is   *)
(* who holds a permit, what is queued, what is counted, and which status   *)
(* the handler returns.                                                    *)
(***************************************************************************)
EXTENDS Naturals, Sequences, FiniteSets

CONSTANTS
    Handlers,        \* the classify handler tasks (the RPCs in progress)
    Workers,         \* the executor threads
    Bound,           \* parse_queue_bound: the total admitted work allowed
    UsizeMax,        \* the counters wrap: they are AtomicUsize
    ClientsMayCancel,\* may a client drop its RPC while the handler awaits?
    ForwardMayPanic, \* may service.classify panic in the executor thread?
    Orphan,          \* a job whose handler is gone (its oneshot receiver dropped)
    Nobody           \* no job, no worker

ASSUME HandoffAssumption ==
    /\ IsFiniteSet(Handlers)
    /\ IsFiniteSet(Workers) /\ Workers # {}   \* workers.max(1)
    /\ Bound \in Nat \ {0}                    \* zero fails closed
    /\ UsizeMax \in Nat /\ UsizeMax > Bound
    /\ ClientsMayCancel \in BOOLEAN
    /\ ForwardMayPanic \in BOOLEAN
    /\ Orphan \notin Handlers /\ Nobody \notin Handlers /\ Orphan # Nobody
    /\ Nobody \notin Workers

VARIABLES
    permits,    \* available permits of the admission semaphore
    queue,      \* the mpsc channel: jobs, each named by its handler (or Orphan)
    current,    \* InferenceExecutor.current
    max,        \* InferenceExecutor.max
    gauge,      \* metrics executor.current_admitted, as exported
    metricMax,  \* metrics executor.max_admitted, as exported
    receiving,  \* the worker that holds the receiver's mutex, or Nobody
    pc,         \* where each handler is
    seen,       \* the count a handler read in its fetch_add / fetch_sub (0: none)
    outcome,    \* the status of the handler's last finished request
    wpc,        \* where each worker is
    job,        \* the job each worker runs, or Nobody
    prev        \* the count a worker read in its fetch_sub (0: none)

handlerVars == <<pc, seen, outcome>>
workerVars  == <<wpc, job, prev, receiving>>
countVars   == <<current, max, gauge, metricMax>>
vars == <<permits, queue, countVars, handlerVars, workerVars>>

Outcomes == {"none", "ok", "invalid_argument", "resource_exhausted",
             "unavailable", "cancelled"}
HandlerStates == {"idle", "acquire", "count", "store", "metric_max", "max",
                  "send", "uncount", "unstore", "awaiting", "answered"}
WorkerStates == {"lock", "receive", "forward", "responded", "counted",
                 "recorded", "unwinding", "exiting", "dead"}

\* The receiving half of the channel lives as long as one worker does.
Open == \E w \in Workers : wpc[w] # "dead"

TypeOK ==
    /\ permits \in 0..Bound
    /\ queue \in Seq(Handlers \cup {Orphan})
    /\ current \in Nat /\ max \in Nat /\ gauge \in Nat /\ metricMax \in Nat
    /\ receiving \in Workers \cup {Nobody}
    /\ pc \in [Handlers -> HandlerStates]
    /\ seen \in [Handlers -> Nat]
    /\ outcome \in [Handlers -> Outcomes]
    /\ wpc \in [Workers -> WorkerStates]
    /\ job \in [Workers -> Handlers \cup {Orphan, Nobody}]
    /\ prev \in [Workers -> Nat]

Init ==
    /\ permits = Bound
    /\ queue = <<>>
    /\ current = 0 /\ max = 0 /\ gauge = 0 /\ metricMax = 0
    /\ receiving = Nobody
    /\ pc = [h \in Handlers |-> "idle"]
    /\ seen = [h \in Handlers |-> 0]
    /\ outcome = [h \in Handlers |-> "none"]
    /\ wpc = [w \in Workers |-> "lock"]
    /\ job = [w \in Workers |-> Nobody]
    /\ prev = [w \in Workers |-> 0]

Larger(a, b) == IF a > b THEN a ELSE b
Saturating1(n) == IF n = 0 THEN 0 ELSE n - 1         \* saturating_sub(1)
FetchSub(n) == IF n = 0 THEN UsizeMax ELSE n - 1     \* fetch_sub(1) wraps
FetchAdd(n) == IF n = UsizeMax THEN 0 ELSE n + 1     \* fetch_add(1) wraps

HandlerStep(h, from, to) == pc[h] = from /\ pc' = [pc EXCEPT ![h] = to]
WorkerStep(w, from, to) == wpc[w] = from /\ wpc' = [wpc EXCEPT ![w] = to]
Finish(h, from, status) ==
    HandlerStep(h, from, "idle") /\ outcome' = [outcome EXCEPT ![h] = status]

-----------------------------------------------------------------------------
(* The handler: classify, then try_enqueue.                                *)

\* A request arrives that names only the served signal.
Call(h) ==
    /\ HandlerStep(h, "idle", "acquire")
    /\ outcome' = [outcome EXCEPT ![h] = "none"]
    /\ UNCHANGED <<permits, queue, countVars, seen, workerVars>>

\* A request arrives that names another signal: refused before admission.
RejectSignal(h) ==
    /\ Finish(h, "idle", "invalid_argument")
    /\ UNCHANGED <<permits, queue, countVars, seen, workerVars>>

\* Seeded fault: admission does not look at the semaphore.
AcquireUnchecked(h) ==
    /\ HandlerStep(h, "acquire", "count")
    /\ permits' = Saturating1(permits)
    /\ UNCHANGED <<queue, countVars, seen, outcome, workerVars>>

\* Seeded fault: a job becomes visible to the executor without being counted.
AcquireUncounted(h) ==
    /\ permits > 0
    /\ HandlerStep(h, "acquire", "max")
    /\ permits' = permits - 1
    /\ UNCHANGED <<queue, countVars, seen, outcome, workerVars>>


AcquirePermit(h) ==
    /\ permits > 0
    /\ HandlerStep(h, "acquire", "count")
    /\ permits' = permits - 1
    /\ UNCHANGED <<queue, countVars, seen, outcome, workerVars>>

NoPermit(h) ==
    /\ permits = 0
    /\ Finish(h, "acquire", "resource_exhausted")
    /\ UNCHANGED <<permits, queue, countVars, seen, workerVars>>

\* current.fetch_add(1) + 1
CountJob(h) ==
    /\ HandlerStep(h, "count", "store")
    /\ current' = FetchAdd(current)
    /\ seen' = [seen EXCEPT ![h] = current + 1]
    /\ UNCHANGED <<permits, queue, max, gauge, metricMax, outcome, workerVars>>

\* metrics.record_admitted(n): first the store, then the fetch_max.
StoreAdmitted(h) ==
    /\ HandlerStep(h, "store", "metric_max")
    /\ gauge' = seen[h]
    /\ UNCHANGED <<permits, queue, current, max, metricMax, seen, outcome, workerVars>>

RaiseMetricMax(h) ==
    /\ HandlerStep(h, "metric_max", "max")
    /\ metricMax' = Larger(metricMax, seen[h])
    /\ UNCHANGED <<permits, queue, current, max, gauge, seen, outcome, workerVars>>

RaiseMax(h) ==
    /\ HandlerStep(h, "max", "send")
    /\ max' = Larger(max, seen[h])
    /\ UNCHANGED <<permits, queue, current, gauge, metricMax, seen, outcome, workerVars>>

\* sender.try_send: the channel has room for Bound jobs.
Send(h) ==
    /\ Open /\ Len(queue) < Bound
    /\ HandlerStep(h, "send", "awaiting")
    /\ queue' = Append(queue, h)
    /\ seen' = [seen EXCEPT ![h] = 0]
    /\ UNCHANGED <<permits, countVars, outcome, workerVars>>

\* try_send hands the job back; dropping it releases the permit at once.
SendFails(h) ==
    /\ ~(Open /\ Len(queue) < Bound)
    /\ HandlerStep(h, "send", "uncount")
    /\ permits' = permits + 1
    /\ UNCHANGED <<queue, countVars, seen, outcome, workerVars>>

UncountJob(h) ==
    /\ HandlerStep(h, "uncount", "unstore")
    /\ seen' = [seen EXCEPT ![h] = current]
    /\ current' = FetchSub(current)
    /\ UNCHANGED <<permits, queue, max, gauge, metricMax, outcome, workerVars>>

StoreUncounted(h) ==
    /\ Finish(h, "unstore", "resource_exhausted")
    /\ gauge' = Saturating1(seen[h])
    /\ seen' = [seen EXCEPT ![h] = 0]
    /\ UNCHANGED <<permits, queue, current, max, metricMax, workerVars>>

\* The handler wakes with the result its oneshot delivered.
Return(h) ==
    /\ HandlerStep(h, "answered", "idle")
    /\ UNCHANGED <<permits, queue, countVars, seen, outcome, workerVars>>

\* The client gives up while the handler awaits: the handler's future is
\* dropped with its oneshot receiver, and the job goes on without it.
Cancel(h) ==
    LET orphaned(x) == IF x = h THEN Orphan ELSE x IN
    /\ ClientsMayCancel
    /\ pc[h] \in {"awaiting", "answered"}
    /\ pc' = [pc EXCEPT ![h] = "idle"]
    /\ outcome' = [outcome EXCEPT ![h] = "cancelled"]
    /\ queue' = [i \in DOMAIN queue |-> orphaned(queue[i])]
    /\ job' = [w \in Workers |-> orphaned(job[w])]
    /\ UNCHANGED <<permits, countVars, seen, wpc, prev, receiving>>

-----------------------------------------------------------------------------
(* The executor threads.                                                   *)

\* The receiver is behind a mutex, held while the worker blocks in recv.
LockReceiver(w) ==
    /\ receiving = Nobody
    /\ WorkerStep(w, "lock", "receive")
    /\ receiving' = w
    /\ UNCHANGED <<permits, queue, countVars, handlerVars, job, prev>>

\* Seeded fault: the worker peeks at the oldest job and leaves it queued.
ReceivePeeks(w) ==
    /\ receiving = w /\ queue # <<>>
    /\ WorkerStep(w, "receive", "forward")
    /\ job' = [job EXCEPT ![w] = Head(queue)]
    /\ receiving' = Nobody
    /\ UNCHANGED <<permits, queue, countVars, handlerVars, prev>>

\* Seeded fault: the permit covers the queue only, not the forward.
ReceiveReleases(w) ==
    /\ receiving = w /\ queue # <<>>
    /\ WorkerStep(w, "receive", "forward")
    /\ job' = [job EXCEPT ![w] = Head(queue)]
    /\ queue' = Tail(queue)
    /\ receiving' = Nobody
    /\ permits' = permits + 1
    /\ UNCHANGED <<countVars, handlerVars, prev>>

\* blocking_recv yields the oldest job; the scope ends and unlocks.
Receive(w) ==
    /\ receiving = w /\ queue # <<>>
    /\ WorkerStep(w, "receive", "forward")
    /\ job' = [job EXCEPT ![w] = Head(queue)]
    /\ queue' = Tail(queue)
    /\ receiving' = Nobody
    /\ UNCHANGED <<permits, countVars, handlerVars, prev>>

\* What their oneshots deliver to those of the handlers that still listen.
Deliver(hs, status) ==
    LET told == {h \in hs : pc[h] = "awaiting"} IN
    /\ pc' = [h \in Handlers |-> IF h \in told THEN "answered" ELSE pc[h]]
    /\ outcome' = [h \in Handlers |-> IF h \in told THEN status ELSE outcome[h]]

HandlersOf(jobs) == jobs \cap Handlers

\* The forward ends, with a result or an error, and the result is sent.
Respond(w) ==
    /\ WorkerStep(w, "forward", "responded")
    /\ \E status \in {"ok", "unavailable", "resource_exhausted"} :
          Deliver(HandlersOf({job[w]}), status)
    /\ job' = [job EXCEPT ![w] = Orphan]
    /\ UNCHANGED <<permits, queue, countVars, seen, prev, receiving>>

\* current.fetch_sub(1)
CountDone(w) ==
    /\ WorkerStep(w, "responded", "counted")
    /\ prev' = [prev EXCEPT ![w] = current]
    /\ current' = FetchSub(current)
    /\ UNCHANGED <<permits, queue, max, gauge, metricMax, handlerVars, job, receiving>>

\* metrics.record_completed(previous.saturating_sub(1))
RecordDone(w) ==
    /\ WorkerStep(w, "counted", "recorded")
    /\ gauge' = Saturating1(prev[w])
    /\ UNCHANGED <<permits, queue, current, max, metricMax, handlerVars, job, prev, receiving>>

\* Seeded fault: the permit is forgotten and never comes back.
DropJobLeaks(w) ==
    /\ WorkerStep(w, "recorded", "lock")
    /\ job' = [job EXCEPT ![w] = Nobody]
    /\ prev' = [prev EXCEPT ![w] = 0]
    /\ UNCHANGED <<permits, queue, countVars, handlerVars, receiving>>

\* The job, with its permit, goes out of scope at the end of the loop body.
DropJob(w) ==
    /\ WorkerStep(w, "recorded", "lock")
    /\ permits' = permits + 1
    /\ job' = [job EXCEPT ![w] = Nobody]
    /\ prev' = [prev EXCEPT ![w] = 0]
    /\ UNCHANGED <<queue, countVars, handlerVars, receiving>>

\* The forward panics.  The thread unwinds: the job's oneshot sender is
\* dropped, then its permit, then the thread's handle on the receiver.
\* `current` is not decremented.
Panic(w) ==
    /\ ForwardMayPanic
    /\ WorkerStep(w, "forward", "unwinding")
    /\ Deliver(HandlersOf({job[w]}), "unavailable")
    /\ job' = [job EXCEPT ![w] = Orphan]
    /\ UNCHANGED <<permits, queue, countVars, seen, prev, receiving>>

\* Seeded fault: a panic leaks the permit.
UnwindLeaks(w) ==
    /\ WorkerStep(w, "unwinding", "exiting")
    /\ job' = [job EXCEPT ![w] = Nobody]
    /\ UNCHANGED <<permits, queue, countVars, handlerVars, prev, receiving>>


UnwindPermit(w) ==
    /\ WorkerStep(w, "unwinding", "exiting")
    /\ permits' = permits + 1
    /\ job' = [job EXCEPT ![w] = Nobody]
    /\ UNCHANGED <<queue, countVars, handlerVars, prev, receiving>>

\* Seeded fault: the queued jobs outlive the last worker unanswered.
ExitSilently(w) ==
    /\ WorkerStep(w, "exiting", "dead")
    /\ UNCHANGED <<permits, queue, countVars, handlerVars, job, prev, receiving>>

\* The last thread out drops the receiver: the channel closes and the jobs
\* still in it are dropped, each with its oneshot sender and its permit.
Exit(w) ==
    LET last == \A v \in Workers \ {w} : wpc[v] = "dead"
        dropped == IF last THEN queue ELSE <<>> IN
    /\ WorkerStep(w, "exiting", "dead")
    /\ Deliver(HandlersOf({dropped[i] : i \in DOMAIN dropped}), "unavailable")
    /\ permits' = permits + Len(dropped)
    /\ queue' = IF last THEN <<>> ELSE queue
    /\ UNCHANGED <<countVars, seen, job, prev, receiving>>

-----------------------------------------------------------------------------
\* What a handler does of its own accord once a request has arrived.
HandlerProgress(h) ==
    \/ AcquirePermit(h) \/ NoPermit(h) \/ CountJob(h) \/ StoreAdmitted(h)
    \/ RaiseMetricMax(h) \/ RaiseMax(h) \/ Send(h) \/ SendFails(h)
    \/ UncountJob(h) \/ StoreUncounted(h) \/ Return(h)

HandlerNext(h) == Call(h) \/ RejectSignal(h) \/ Cancel(h) \/ HandlerProgress(h)

WorkerNext(w) ==
    \/ LockReceiver(w) \/ Receive(w) \/ Respond(w) \/ CountDone(w)
    \/ RecordDone(w) \/ DropJob(w) \/ Panic(w) \/ UnwindPermit(w) \/ Exit(w)

Next == (\E h \in Handlers : HandlerNext(h)) \/ (\E w \in Workers : WorkerNext(w))

Spec == Init /\ [][Next]_vars

\* The runtime keeps polling every handler, and the operating system keeps
\* scheduling every thread; a forward ends.  Nothing makes a client call.
Fairness ==
    /\ \A h \in Handlers : WF_vars(HandlerProgress(h))
    /\ \A w \in Workers : WF_vars(WorkerNext(w))

FairSpec == Spec /\ Fairness

-----------------------------------------------------------------------------
(* Properties.                                                             *)

AdmittingStates == {"count", "store", "metric_max", "max", "send"}
CountingStates  == {"store", "metric_max", "max", "send", "uncount"}
HoldingStates   == {"forward", "responded", "counted", "recorded", "unwinding"}
UncountedStates == {"forward", "responded"}

Admitting == {h \in Handlers : pc[h] \in AdmittingStates}
Counting  == {h \in Handlers : pc[h] \in CountingStates}
Holding   == {w \in Workers : wpc[w] \in HoldingStates}
Uncounted == {w \in Workers : wpc[w] \in UncountedStates}

\* Every permit is either available, or held by exactly one job on its way
\* into the channel, in it, or in a worker's hands: none is lost or released
\* twice, whatever is cancelled and whatever panics (handoff.rs: the permit
\* moves into the job).
PermitsConserved ==
    permits + Cardinality(Admitting) + Len(queue) + Cardinality(Holding) = Bound

\* The count is incremented before the job is visible to the executor, so it
\* always equals the jobs counted and not yet done, and no fetch_sub can wrap
\* it (the comment of try_enqueue).  A panic leaks a count, so only without.
CountExact ==
    ~ForwardMayPanic =>
        current = Cardinality(Counting) + Len(queue) + Cardinality(Uncounted)

\* In-flight plus queued work, as both maxima record it, never exceeds the
\* bound (the doc of InferenceExecutor.max and of max_admitted).
AdmittedWithinBound ==
    ~ForwardMayPanic => current <= Bound /\ max <= Bound /\ metricMax <= Bound

\* A request whose handler waits has exactly one job, queued or in a worker,
\* and no other request has any: what is refused or answered never runs again.
OneJobPerWaiter ==
    \A h \in Handlers :
        Cardinality({i \in DOMAIN queue : queue[i] = h})
            + Cardinality({w \in Workers : job[w] = h})
          = IF pc[h] = "awaiting" THEN 1 ELSE 0

\* The semaphore, not the channel, is the admission limit: a job that got a
\* permit always fits, so try_enqueue's undo path is dead unless every worker is.
ChannelHasRoom ==
    ~ForwardMayPanic =>
        \A h \in Handlers : pc[h] = "send" => Open /\ Len(queue) < Bound

\* The work of other requests that a newcomer may find in its way.
InTheWay(h) == {g \in Handlers \ {h} : pc[g] \in AdmittingStates \cup {"awaiting"}}

\* The work of nobody: a permit outlives its request if the client is gone, and
\* for a moment if the request is answered.
Leftover ==
    Cardinality({i \in DOMAIN queue : queue[i] = Orphan})
        + Cardinality({w \in Workers : wpc[w] \in HoldingStates /\ job[w] = Orphan})

\* A request is refused only at the bound: Bound permits are with other requests
\* in progress, with abandoned ones and with those just answered
\* (DEFAULT_QUEUE_BOUND's comment: normal concurrency is never rejected).
RefusedOnlyAtBound ==
    \A h \in Handlers :
        pc[h] = "acquire" /\ permits = 0 => Cardinality(InTheWay(h)) + Leftover = Bound

\* Nothing is being admitted, queued or run.
AtRest ==
    /\ queue = <<>>
    /\ \A h \in Handlers : pc[h] = "idle"
    /\ \A w \in Workers : wpc[w] \in {"lock", "receive"}

\* The exported gauge "Current in-flight plus queued requests" is 0 when
\* there are none: each worker stores what it read, and the last store wins.
GaugeExactAtRest == AtRest => gauge = current

\* A request that is admitted is answered: by its forward, or, when the last
\* worker dies, by the loss of its job (grpc/classify.rs: the await on respond).
EveryWaiterAnswered ==
    \A h \in Handlers : pc[h] = "awaiting" ~> pc[h] # "awaiting"
=============================================================================
