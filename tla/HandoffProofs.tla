--------------------------- MODULE HandoffProofs ---------------------------
(***************************************************************************)
(* Machine-checked proofs about Handoff, for every set of handlers and     *)
(* workers and every bound.                                                *)
(*                                                                         *)
(* Permits: the type invariant is not inductive alone (permits could pass  *)
(* Bound), so it is proved together with PermitsConserved.  Every step     *)
(* moves one thread, and MoveCount says what one move does to the number   *)
(* of threads inside a set of states.                                      *)
(*                                                                         *)
(* Counters: without panics, CountInv adds that nothing is undone and no   *)
(* thread is dead, that the count is exact, and that every count read on   *)
(* the way to the maxima is within the bound.                              *)
(*                                                                         *)
(* Jobs: JobsInv says where the job of each waiting handler is, as places  *)
(* and not as counts, so that a step is a matter of first-order logic; the *)
(* counts of the properties follow from it at the end.                     *)
(***************************************************************************)
EXTENDS HandoffRefinement, ThreadCount, SequenceTheorems

\* The counts a conservation law talks about are natural numbers.
LEMMA CountsAreNat ==
    ASSUME TypeOK
    PROVE  /\ Cardinality(Admitting) \in Nat /\ Cardinality(Counting) \in Nat
           /\ Cardinality(Holding) \in Nat /\ Cardinality(Uncounted) \in Nat
           /\ Len(queue) \in Nat
<1>1. /\ Admitting \subseteq Handlers /\ Counting \subseteq Handlers
      /\ Holding \subseteq Workers /\ Uncounted \subseteq Workers
  BY DEF Admitting, Counting, Holding, Uncounted
<1>2. IsFiniteSet(Handlers) /\ IsFiniteSet(Workers)
  BY HandoffAssumption DEF HandoffAssumption
<1>3. Len(queue) \in Nat
  BY LenProperties DEF TypeOK
<1> QED BY <1>1, <1>2, <1>3, FS_Subset, FS_CardinalityType

\* What a handler's move does to the handlers inside the counted states.
LEMMA HandlerMove ==
    ASSUME TypeOK, NEW h \in Handlers, NEW from, NEW to \in HandlerStates,
           HandlerStep(h, from, to)
    PROVE  /\ pc' \in [Handlers -> HandlerStates]
           /\ Cardinality(Admitting') \in Nat /\ Cardinality(Counting') \in Nat
           /\ Cardinality(Admitting') + Bit(from \in AdmittingStates)
                = Cardinality(Admitting) + Bit(to \in AdmittingStates)
           /\ Cardinality(Counting') + Bit(from \in CountingStates)
                = Cardinality(Counting) + Bit(to \in CountingStates)
<1>1. /\ IsFiniteSet(Handlers) /\ pc' \in [Handlers -> HandlerStates]
      /\ pc[h] = from /\ pc'[h] = to
      /\ \A d \in Handlers \ {h} : pc'[d] = pc[d]
  BY HandoffAssumption DEF HandoffAssumption, TypeOK, HandlerStep
<1>2. ASSUME NEW S
      PROVE  /\ CountIn(pc', Handlers, S) \in Nat
             /\ CountIn(pc', Handlers, S) + Bit(from \in S)
                  = CountIn(pc, Handlers, S) + Bit(to \in S)
  BY <1>1, CountIsNat, MoveCount
<1>3. /\ Cardinality(Admitting) = CountIn(pc, Handlers, AdmittingStates)
      /\ Cardinality(Admitting') = CountIn(pc', Handlers, AdmittingStates)
      /\ Cardinality(Counting) = CountIn(pc, Handlers, CountingStates)
      /\ Cardinality(Counting') = CountIn(pc', Handlers, CountingStates)
  BY DEF CountIn, Admitting, Counting
<1> QED BY <1>1, <1>2, <1>3

\* What a worker's move does to the workers inside the counted states.
LEMMA WorkerMove ==
    ASSUME TypeOK, NEW w \in Workers, NEW from, NEW to \in WorkerStates,
           WorkerStep(w, from, to)
    PROVE  /\ wpc' \in [Workers -> WorkerStates]
           /\ Cardinality(Holding') \in Nat /\ Cardinality(Uncounted') \in Nat
           /\ Cardinality(Holding') + Bit(from \in HoldingStates)
                = Cardinality(Holding) + Bit(to \in HoldingStates)
           /\ Cardinality(Uncounted') + Bit(from \in UncountedStates)
                = Cardinality(Uncounted) + Bit(to \in UncountedStates)
<1>1. /\ IsFiniteSet(Workers) /\ wpc' \in [Workers -> WorkerStates]
      /\ wpc[w] = from /\ wpc'[w] = to
      /\ \A d \in Workers \ {w} : wpc'[d] = wpc[d]
  BY HandoffAssumption DEF HandoffAssumption, TypeOK, WorkerStep
<1>2. ASSUME NEW S
      PROVE  /\ CountIn(wpc', Workers, S) \in Nat
             /\ CountIn(wpc', Workers, S) + Bit(from \in S)
                  = CountIn(wpc, Workers, S) + Bit(to \in S)
  BY <1>1, CountIsNat, MoveCount
<1>3. /\ Cardinality(Holding) = CountIn(wpc, Workers, HoldingStates)
      /\ Cardinality(Holding') = CountIn(wpc', Workers, HoldingStates)
      /\ Cardinality(Uncounted) = CountIn(wpc, Workers, UncountedStates)
      /\ Cardinality(Uncounted') = CountIn(wpc', Workers, UncountedStates)
  BY DEF CountIn, Holding, Uncounted
<1> QED BY <1>1, <1>2, <1>3

\* Telling waiting handlers their outcome moves none into or out of the
\* counted states.
LEMMA DeliverKeeps ==
    ASSUME TypeOK, NEW hs \in SUBSET Handlers, NEW status \in Outcomes,
           Deliver(hs, status)
    PROVE  /\ pc' \in [Handlers -> HandlerStates]
           /\ outcome' \in [Handlers -> Outcomes]
           /\ Admitting' = Admitting /\ Counting' = Counting
<1>1. /\ pc' \in [Handlers -> HandlerStates]
      /\ outcome' \in [Handlers -> Outcomes]
  BY DEF TypeOK, Deliver, HandlerStates, Outcomes
<1>2. \A h \in Handlers : pc'[h] = pc[h] \/ (pc[h] = "awaiting" /\ pc'[h] = "answered")
  BY DEF TypeOK, Deliver
<1>3. \A h \in Handlers : pc'[h] \in AdmittingStates <=> pc[h] \in AdmittingStates
  BY <1>2 DEF AdmittingStates
<1>4. \A h \in Handlers : pc'[h] \in CountingStates <=> pc[h] \in CountingStates
  BY <1>2 DEF CountingStates
<1> QED BY <1>1, <1>3, <1>4 DEF Admitting, Counting

\* A step of one of the handlers' or workers' variables leaves the other's counts.
LEMMA UnmovedCounts ==
    /\ pc' = pc => Admitting' = Admitting /\ Counting' = Counting
    /\ wpc' = wpc => Holding' = Holding /\ Uncounted' = Uncounted
BY DEF Admitting, Counting, Holding, Uncounted

\* The inductive invariant of the permits: with the types, their conservation is inductive.
PermitInv == TypeOK /\ PermitsConserved

\* A fresh executor has all its permits free (spawn_with_workers).
LEMMA PermitInit == Init => PermitInv
<1> SUFFICES ASSUME Init PROVE PermitInv
  OBVIOUS
<1>1. TypeOK
  BY HandoffAssumption, EmptySeq
  DEF HandoffAssumption, Init, TypeOK, HandlerStates, WorkerStates, Outcomes
<1>2. Admitting = {} /\ Holding = {}
  BY DEF Init, Admitting, Holding, AdmittingStates, HoldingStates
<1>3. Cardinality(Admitting) = 0 /\ Cardinality(Holding) = 0 /\ Len(queue) = 0
  BY <1>2, FS_EmptySet, EmptySeq DEF Init
<1>4. permits = Bound /\ Bound \in Nat
  BY HandoffAssumption DEF HandoffAssumption, Init
<1> QED BY <1>1, <1>3, <1>4 DEF PermitInv, PermitsConserved

\* No step of a handler loses or duplicates a permit.
LEMMA PermitHandlerStep ==
    ASSUME PermitInv, NEW h \in Handlers, HandlerNext(h)
    PROVE  PermitInv'
<1> USE DEF PermitInv
<1>n. /\ Bound \in Nat /\ UsizeMax \in Nat /\ permits \in 0..Bound
      /\ Cardinality(Admitting) \in Nat /\ Cardinality(Holding) \in Nat
      /\ Len(queue) \in Nat
  BY HandoffAssumption, CountsAreNat DEF HandoffAssumption, TypeOK
<1>1. CASE Call(h)
  <2>1. /\ Cardinality(Admitting') = Cardinality(Admitting) /\ Holding' = Holding
        /\ pc' \in [Handlers -> HandlerStates]
    BY <1>1, <1>n, HandlerMove, UnmovedCounts
    DEF Call, HandlerStates, AdmittingStates, Bit, workerVars
  <2>2. TypeOK'
    BY <1>1, <2>1 DEF Call, TypeOK, countVars, workerVars, Outcomes
  <2> QED BY <1>1, <2>1, <2>2 DEF Call, PermitsConserved
<1>2. CASE RejectSignal(h)
  <2>1. /\ Cardinality(Admitting') = Cardinality(Admitting) /\ Holding' = Holding
        /\ pc' \in [Handlers -> HandlerStates]
    BY <1>2, <1>n, HandlerMove, UnmovedCounts
    DEF RejectSignal, Finish, HandlerStates, AdmittingStates, Bit, workerVars
  <2>2. TypeOK'
    BY <1>2, <2>1 DEF RejectSignal, Finish, TypeOK, countVars, workerVars, Outcomes
  <2> QED BY <1>2, <2>1, <2>2 DEF RejectSignal, PermitsConserved
<1>3. CASE AcquirePermit(h)
  <2>1. /\ Cardinality(Admitting') = Cardinality(Admitting) + 1 /\ Holding' = Holding
        /\ pc' \in [Handlers -> HandlerStates]
    BY <1>3, <1>n, HandlerMove, UnmovedCounts
    DEF AcquirePermit, HandlerStates, AdmittingStates, Bit, workerVars
  <2>2. TypeOK'
    BY <1>3, <1>n, <2>1 DEF AcquirePermit, TypeOK, countVars, workerVars
  <2> QED BY <1>3, <1>n, <2>1, <2>2 DEF AcquirePermit, PermitsConserved
<1>4. CASE NoPermit(h)
  <2>1. /\ Cardinality(Admitting') = Cardinality(Admitting) /\ Holding' = Holding
        /\ pc' \in [Handlers -> HandlerStates]
    BY <1>4, <1>n, HandlerMove, UnmovedCounts
    DEF NoPermit, Finish, HandlerStates, AdmittingStates, Bit, workerVars
  <2>2. TypeOK'
    BY <1>4, <2>1 DEF NoPermit, Finish, TypeOK, countVars, workerVars, Outcomes
  <2> QED BY <1>4, <2>1, <2>2 DEF NoPermit, PermitsConserved
<1>5. CASE CountJob(h)
  <2>1. /\ Cardinality(Admitting') = Cardinality(Admitting) /\ Holding' = Holding
        /\ pc' \in [Handlers -> HandlerStates]
    BY <1>5, <1>n, HandlerMove, UnmovedCounts
    DEF CountJob, HandlerStates, AdmittingStates, Bit, workerVars
  <2>2. TypeOK'
    <3>1. current' \in Nat /\ seen' \in [Handlers -> Nat]
      BY <1>5, <1>n DEF CountJob, FetchAdd, TypeOK
    <3> QED BY <1>5, <2>1, <3>1 DEF CountJob, TypeOK, workerVars
  <2>3. permits' = permits /\ queue' = queue
    BY <1>5 DEF CountJob
  <2> QED BY <2>1, <2>2, <2>3 DEF PermitsConserved
<1>6. CASE StoreAdmitted(h) \/ RaiseMetricMax(h) \/ RaiseMax(h)
  <2>1. /\ Cardinality(Admitting') = Cardinality(Admitting) /\ Holding' = Holding
        /\ pc' \in [Handlers -> HandlerStates]
    <3>1. CASE StoreAdmitted(h)
      BY <3>1, <1>n, HandlerMove, UnmovedCounts
      DEF StoreAdmitted, HandlerStates, AdmittingStates, Bit, workerVars
    <3>2. CASE RaiseMetricMax(h)
      BY <3>2, <1>n, HandlerMove, UnmovedCounts
      DEF RaiseMetricMax, HandlerStates, AdmittingStates, Bit, workerVars
    <3>3. CASE RaiseMax(h)
      BY <3>3, <1>n, HandlerMove, UnmovedCounts
      DEF RaiseMax, HandlerStates, AdmittingStates, Bit, workerVars
    <3> QED BY <1>6, <3>1, <3>2, <3>3
  <2>2. TypeOK'
    BY <1>6, <2>1
    DEF StoreAdmitted, RaiseMetricMax, RaiseMax, Larger, TypeOK, workerVars
  <2> QED
    BY <1>6, <2>1, <2>2
    DEF StoreAdmitted, RaiseMetricMax, RaiseMax, PermitsConserved
<1>7. CASE Send(h)
  <2>1. /\ Cardinality(Admitting') + 1 = Cardinality(Admitting) /\ Holding' = Holding
        /\ pc' \in [Handlers -> HandlerStates] /\ Cardinality(Admitting') \in Nat
    BY <1>7, <1>n, HandlerMove, UnmovedCounts
    DEF Send, HandlerStates, AdmittingStates, Bit, workerVars
  <2>2. queue' \in Seq(Handlers \cup {Orphan}) /\ Len(queue') = Len(queue) + 1
    BY <1>7 DEF Send, TypeOK
  <2>3. TypeOK'
    BY <1>7, <2>1, <2>2 DEF Send, TypeOK, countVars, workerVars
  <2> QED BY <1>7, <1>n, <2>1, <2>2, <2>3 DEF Send, PermitsConserved
<1>8. CASE SendFails(h)
  <2>1. /\ Cardinality(Admitting') + 1 = Cardinality(Admitting) /\ Holding' = Holding
        /\ pc' \in [Handlers -> HandlerStates] /\ Cardinality(Admitting') \in Nat
    BY <1>8, <1>n, HandlerMove, UnmovedCounts
    DEF SendFails, HandlerStates, AdmittingStates, Bit, workerVars
  <2>2. PermitsConserved' /\ permits' \in 0..Bound
    BY <1>8, <1>n, <2>1 DEF SendFails, PermitsConserved
  <2>3. TypeOK'
    BY <1>8, <2>1, <2>2 DEF SendFails, TypeOK, countVars, workerVars
  <2> QED BY <2>2, <2>3
<1>9. CASE UncountJob(h)
  <2>1. /\ Cardinality(Admitting') = Cardinality(Admitting) /\ Holding' = Holding
        /\ pc' \in [Handlers -> HandlerStates]
    BY <1>9, <1>n, HandlerMove, UnmovedCounts
    DEF UncountJob, HandlerStates, AdmittingStates, Bit, workerVars
  <2>2. TypeOK'
    <3>1. current' \in Nat /\ seen' \in [Handlers -> Nat]
      BY <1>9, <1>n DEF UncountJob, FetchSub, TypeOK
    <3> QED BY <1>9, <2>1, <3>1 DEF UncountJob, TypeOK, workerVars
  <2> QED BY <1>9, <2>1, <2>2 DEF UncountJob, PermitsConserved
<1>10. CASE StoreUncounted(h)
  <2>1. /\ Cardinality(Admitting') = Cardinality(Admitting) /\ Holding' = Holding
        /\ pc' \in [Handlers -> HandlerStates]
    BY <1>10, <1>n, HandlerMove, UnmovedCounts
    DEF StoreUncounted, Finish, HandlerStates, AdmittingStates, Bit, workerVars
  <2>2. TypeOK'
    <3>1. gauge' \in Nat /\ seen' \in [Handlers -> Nat]
      BY <1>10 DEF StoreUncounted, Saturating1, TypeOK
    <3> QED BY <1>10, <2>1, <3>1 DEF StoreUncounted, Finish, TypeOK, workerVars, Outcomes
  <2> QED BY <1>10, <2>1, <2>2 DEF StoreUncounted, PermitsConserved
<1>11. CASE Return(h)
  <2>1. /\ Cardinality(Admitting') = Cardinality(Admitting) /\ Holding' = Holding
        /\ pc' \in [Handlers -> HandlerStates]
    BY <1>11, <1>n, HandlerMove, UnmovedCounts
    DEF Return, HandlerStates, AdmittingStates, Bit, workerVars
  <2>2. TypeOK'
    BY <1>11, <2>1 DEF Return, TypeOK, countVars, workerVars
  <2> QED BY <1>11, <2>1, <2>2 DEF Return, PermitsConserved
<1>12. CASE Cancel(h)
  <2>1. /\ Admitting' = Admitting /\ Holding' = Holding
        /\ pc' \in [Handlers -> HandlerStates]
    BY <1>12 DEF Cancel, TypeOK, HandlerStates, Admitting, AdmittingStates, Holding
  <2> DEFINE rest(i) == IF queue[i] = h THEN Orphan ELSE queue[i]
  <2>2. queue' = [i \in 1..Len(queue) |-> rest(i)]
    BY <1>12, LenProperties DEF Cancel, TypeOK
  <2>3. \A i \in 1..Len(queue) : rest(i) \in Handlers \cup {Orphan}
    BY ElementOfSeq DEF TypeOK
  <2>4. queue' \in Seq(Handlers \cup {Orphan}) /\ Len(queue') = Len(queue)
    BY <1>n, <2>2, <2>3
  <2>5. TypeOK'
    BY <1>12, <2>1, <2>4 DEF Cancel, TypeOK, countVars, Outcomes
  <2> QED BY <1>12, <2>1, <2>4, <2>5 DEF Cancel, PermitsConserved
<1> QED
  BY <1>1, <1>2, <1>3, <1>4, <1>5, <1>6, <1>7, <1>8, <1>9, <1>10, <1>11, <1>12
  DEF HandlerNext, HandlerProgress

\* No step of a worker does either.
LEMMA PermitWorkerStep ==
    ASSUME PermitInv, NEW w \in Workers, WorkerNext(w)
    PROVE  PermitInv'
<1> USE DEF PermitInv
<1>n. /\ Bound \in Nat /\ UsizeMax \in Nat /\ permits \in 0..Bound
      /\ Cardinality(Admitting) \in Nat /\ Cardinality(Holding) \in Nat
      /\ Len(queue) \in Nat
  BY HandoffAssumption, CountsAreNat DEF HandoffAssumption, TypeOK
<1>1. CASE LockReceiver(w)
  <2>1. /\ Cardinality(Holding') = Cardinality(Holding) /\ Admitting' = Admitting
        /\ wpc' \in [Workers -> WorkerStates]
    BY <1>1, <1>n, WorkerMove, UnmovedCounts
    DEF LockReceiver, WorkerStates, HoldingStates, Bit, handlerVars
  <2>2. TypeOK'
    BY <1>1, <2>1 DEF LockReceiver, TypeOK, countVars, handlerVars
  <2> QED BY <1>1, <2>1, <2>2 DEF LockReceiver, PermitsConserved
<1>2. CASE Receive(w)
  <2>1. /\ Cardinality(Holding') = Cardinality(Holding) + 1 /\ Admitting' = Admitting
        /\ wpc' \in [Workers -> WorkerStates]
    BY <1>2, <1>n, WorkerMove, UnmovedCounts
    DEF Receive, WorkerStates, HoldingStates, Bit, handlerVars
  <2>2. /\ Head(queue) \in Handlers \cup {Orphan}
        /\ queue' \in Seq(Handlers \cup {Orphan}) /\ Len(queue') = Len(queue) - 1
    BY <1>2 DEF Receive, TypeOK
  <2>3. TypeOK'
    <3>1. job' \in [Workers -> Handlers \cup {Orphan, Nobody}]
      BY <1>2, <2>2 DEF Receive, TypeOK
    <3> QED BY <1>2, <2>1, <2>2, <3>1 DEF Receive, TypeOK, countVars, handlerVars
  <2> QED BY <1>2, <1>n, <2>1, <2>2, <2>3 DEF Receive, PermitsConserved
<1>3. CASE Respond(w) \/ Panic(w)
  <2>1. PICK status \in Outcomes : Deliver(HandlersOf({job[w]}), status)
    BY <1>3 DEF Respond, Panic, Outcomes
  <2>2. /\ Admitting' = Admitting /\ pc' \in [Handlers -> HandlerStates]
        /\ outcome' \in [Handlers -> Outcomes]
    BY <2>1, DeliverKeeps DEF HandlersOf
  <2>3. /\ Cardinality(Holding') = Cardinality(Holding)
        /\ wpc' \in [Workers -> WorkerStates]
    <3>1. CASE Respond(w)
      BY <3>1, <1>n, WorkerMove DEF Respond, WorkerStates, HoldingStates, Bit
    <3>2. CASE Panic(w)
      BY <3>2, <1>n, WorkerMove DEF Panic, WorkerStates, HoldingStates, Bit
    <3> QED BY <1>3, <3>1, <3>2
  <2>4. TypeOK'
    BY <1>3, <2>2, <2>3 DEF Respond, Panic, TypeOK, countVars
  <2> QED BY <1>3, <2>2, <2>3, <2>4 DEF Respond, Panic, PermitsConserved
<1>4. CASE CountDone(w)
  <2>1. /\ Cardinality(Holding') = Cardinality(Holding) /\ Admitting' = Admitting
        /\ wpc' \in [Workers -> WorkerStates]
    BY <1>4, <1>n, WorkerMove, UnmovedCounts
    DEF CountDone, WorkerStates, HoldingStates, Bit, handlerVars
  <2>2. TypeOK'
    <3>1. current' \in Nat /\ prev' \in [Workers -> Nat]
      BY <1>4, <1>n DEF CountDone, FetchSub, TypeOK
    <3> QED BY <1>4, <2>1, <3>1 DEF CountDone, TypeOK, handlerVars
  <2> QED BY <1>4, <2>1, <2>2 DEF CountDone, PermitsConserved
<1>5. CASE RecordDone(w)
  <2>1. /\ Cardinality(Holding') = Cardinality(Holding) /\ Admitting' = Admitting
        /\ wpc' \in [Workers -> WorkerStates]
    BY <1>5, <1>n, WorkerMove, UnmovedCounts
    DEF RecordDone, WorkerStates, HoldingStates, Bit, handlerVars
  <2>2. TypeOK'
    <3>1. gauge' \in Nat
      BY <1>5 DEF RecordDone, Saturating1, TypeOK
    <3> QED BY <1>5, <2>1, <3>1 DEF RecordDone, TypeOK, handlerVars
  <2> QED BY <1>5, <2>1, <2>2 DEF RecordDone, PermitsConserved
<1>6. CASE DropJob(w) \/ UnwindPermit(w)
  <2>1. /\ Cardinality(Holding') + 1 = Cardinality(Holding) /\ Admitting' = Admitting
        /\ Cardinality(Holding') \in Nat /\ wpc' \in [Workers -> WorkerStates]
    <3>1. CASE DropJob(w)
      BY <3>1, <1>n, WorkerMove, UnmovedCounts
      DEF DropJob, WorkerStates, HoldingStates, Bit, handlerVars
    <3>2. CASE UnwindPermit(w)
      BY <3>2, <1>n, WorkerMove, UnmovedCounts
      DEF UnwindPermit, WorkerStates, HoldingStates, Bit, handlerVars
    <3> QED BY <1>6, <3>1, <3>2
  <2>m. permits' = permits + 1 /\ queue' = queue
    BY <1>6 DEF DropJob, UnwindPermit
  <2>2. PermitsConserved' /\ permits' \in 0..Bound
    BY <1>n, <2>1, <2>m DEF PermitsConserved
  <2>3. TypeOK'
    <3>1. /\ job' \in [Workers -> Handlers \cup {Orphan, Nobody}]
          /\ prev' \in [Workers -> Nat]
      <4>1. CASE DropJob(w)
        BY <4>1 DEF DropJob, TypeOK
      <4>2. CASE UnwindPermit(w)
        BY <4>2 DEF UnwindPermit, TypeOK
      <4> QED BY <1>6, <4>1, <4>2
    <3> QED
      BY <1>6, <2>1, <2>2, <3>1 DEF DropJob, UnwindPermit, TypeOK, countVars, handlerVars
  <2> QED BY <2>2, <2>3
<1>7. CASE Exit(w)
  <2> DEFINE last == \A v \in Workers \ {w} : wpc[v] = "dead"
             dropped == IF last THEN queue ELSE <<>>
             told == HandlersOf({dropped[i] : i \in DOMAIN dropped})
  <2>1. Deliver(told, "unavailable")
    BY <1>7 DEF Exit
  <2>2. told \in SUBSET Handlers
    BY DEF HandlersOf
  <2>3. /\ Admitting' = Admitting /\ pc' \in [Handlers -> HandlerStates]
        /\ outcome' \in [Handlers -> Outcomes]
    BY <2>1, <2>2, DeliverKeeps DEF Outcomes
  <2>4. /\ Cardinality(Holding') = Cardinality(Holding)
        /\ wpc' \in [Workers -> WorkerStates]
    BY <1>7, <1>n, WorkerMove DEF Exit, WorkerStates, HoldingStates, Bit
  <2>5. /\ queue' \in Seq(Handlers \cup {Orphan})
        /\ Len(queue') \in Nat /\ permits' + Len(queue') = permits + Len(queue)
        /\ permits' \in Nat
    <3>1. CASE last
      <4>1. dropped = queue
        BY <3>1
      <4>2. permits' = permits + Len(queue) /\ queue' = <<>>
        BY <1>7, <3>1, <4>1 DEF Exit
      <4> QED BY <1>n, <4>2, EmptySeq
    <3>2. CASE ~last
      <4>1. permits' = permits + Len(<<>>) /\ queue' = queue
        BY <1>7, <3>2 DEF Exit
      <4> QED BY <1>n, <4>1, EmptySeq DEF TypeOK
    <3> QED BY <3>1, <3>2
  <2>7. PermitsConserved' /\ permits' \in 0..Bound
    <3>1. permits + Cardinality(Admitting) + Len(queue) + Cardinality(Holding) = Bound
      BY DEF PermitsConserved
    <3>2. Cardinality(Admitting') = Cardinality(Admitting)
      BY <2>3
    <3> HIDE DEF last, dropped, told
    <3>3. /\ permits' \in Nat /\ Len(queue') \in Nat
          /\ permits' + Len(queue') = permits + Len(queue)
      BY <2>5
    <3>4. /\ Cardinality(Holding') = Cardinality(Holding)
          /\ Cardinality(Holding') \in Nat /\ Cardinality(Admitting') \in Nat
      BY <1>n, <2>4, <3>2
    <3>5. permits' + Cardinality(Admitting') + Len(queue') + Cardinality(Holding') = Bound
      <4> DEFINE p == permits  p2 == permits'  l == Len(queue)  l2 == Len(queue')
                 a == Cardinality(Admitting)  a2 == Cardinality(Admitting')
                 h == Cardinality(Holding)  h2 == Cardinality(Holding')
      <4>1. /\ p \in Nat /\ p2 \in Nat /\ l \in Nat /\ l2 \in Nat
            /\ a \in Nat /\ h \in Nat /\ Bound \in Nat
        BY <1>n, <3>3
      <4>2. p2 + l2 = p + l /\ a2 = a /\ h2 = h /\ p + a + l + h = Bound
        BY <3>1, <3>2, <3>3, <3>4
      <4> HIDE DEF p, p2, l, l2, a, a2, h, h2
      <4>3. p2 + a2 + l2 + h2 = Bound
        BY <4>1, <4>2
      <4> QED BY <4>3 DEF p, p2, l, l2, a, a2, h, h2
    <3>6. permits' <= Bound
      BY <1>n, <3>1, <3>2, <3>3
    <3> QED BY <1>n, <3>3, <3>5, <3>6 DEF PermitsConserved
  <2>8. TypeOK'
    <3>1. UNCHANGED <<countVars, seen, job, prev, receiving>>
      BY <1>7 DEF Exit
    <3> QED BY <2>3, <2>4, <2>5, <2>7, <3>1 DEF TypeOK, countVars
  <2> QED BY <2>7, <2>8
<1> QED
  BY <1>1, <1>2, <1>3, <1>4, <1>5, <1>6, <1>7 DEF WorkerNext

\* No step of a handler or a worker loses or doubles a permit.
LEMMA PermitStep == PermitInv /\ [Next]_vars => PermitInv'
<1>1. PermitInv /\ UNCHANGED vars => PermitInv'
  BY DEF PermitInv, TypeOK, PermitsConserved, Admitting, Holding, vars, countVars,
         handlerVars, workerVars
<1> QED BY <1>1, PermitHandlerStep, PermitWorkerStep DEF Next

\* Types and permits hold in every reachable state of the executor.
THEOREM PermitInvariant == Spec => []PermitInv
BY PermitInit, PermitStep, PTL DEF Spec

\* Every variable keeps its type, for all sets of handlers and workers, and the
\* number of available permits never passes the bound.
THEOREM TypeCorrect == Spec => []TypeOK
<1>1. PermitInv => TypeOK
  BY DEF PermitInv
<1> QED BY <1>1, PermitInvariant, PTL

\* No permit is ever lost or released twice, whatever is cancelled and
\* whichever forwards panic (handoff.rs: the permit lives in the job).
THEOREM PermitsNeverLost == Spec => []PermitsConserved
<1>1. PermitInv => PermitsConserved
  BY DEF PermitInv
<1> QED BY <1>1, PermitInvariant, PTL

-----------------------------------------------------------------------------
(* The counters, when no forward panics.                                   *)

CountInv ==
    /\ \A h \in Handlers : pc[h] \notin {"uncount", "unstore"}
    /\ \A w \in Workers : wpc[w] \notin {"unwinding", "exiting", "dead"}
    /\ current = Cardinality(Counting) + Len(queue) + Cardinality(Uncounted)
    /\ \A h \in Handlers :
          pc[h] \in {"store", "metric_max", "max"} => seen[h] <= Bound
    /\ max <= Bound /\ metricMax <= Bound

\* What is counted holds a permit, so the count is within the bound; one that
\* holds a permit and is not counted yet leaves room for itself.
LEMMA CountWithinBound ==
    ASSUME PermitInv, CountInv
    PROVE  /\ current <= Bound
           /\ \A h \in Handlers : pc[h] = "count" => current < Bound
           /\ \A h \in Handlers : pc[h] = "send" => Len(queue) < Bound
<1>n. /\ Bound \in Nat /\ permits \in Nat /\ Len(queue) \in Nat
      /\ Cardinality(Admitting) \in Nat /\ Cardinality(Holding) \in Nat
      /\ Cardinality(Counting) \in Nat /\ Cardinality(Uncounted) \in Nat
      /\ permits + Cardinality(Admitting) + Len(queue) + Cardinality(Holding) = Bound
  BY HandoffAssumption, CountsAreNat
  DEF HandoffAssumption, TypeOK, PermitInv, PermitsConserved
<1>f. IsFiniteSet(Admitting) /\ IsFiniteSet(Holding) /\ IsFiniteSet(Counting)
  BY HandoffAssumption, FS_Subset DEF HandoffAssumption, Admitting, Holding, Counting
<1>1. Counting \subseteq Admitting
  BY DEF CountInv, Counting, Admitting, CountingStates, AdmittingStates
<1>2. Uncounted \subseteq Holding
  BY DEF Uncounted, Holding, UncountedStates, HoldingStates
<1>3. Cardinality(Counting) <= Cardinality(Admitting)
  BY <1>f, <1>1, FS_Subset
<1>4. Cardinality(Uncounted) <= Cardinality(Holding)
  BY <1>f, <1>2, FS_Subset
<1>5. current = Cardinality(Counting) + Len(queue) + Cardinality(Uncounted)
  BY DEF CountInv
<1>6. current <= Bound
  BY <1>n, <1>3, <1>4, <1>5
<1>7. ASSUME NEW h \in Handlers, pc[h] = "count" PROVE current < Bound
  <2>1. h \in Admitting /\ h \notin Counting
    BY <1>7 DEF Admitting, Counting, AdmittingStates, CountingStates
  <2>2. Counting \cup {h} \subseteq Admitting
    BY <1>1, <2>1
  <2>3. Cardinality(Counting) + 1 <= Cardinality(Admitting)
    BY <1>f, <1>n, <2>1, <2>2, FS_Subset, FS_AddElement
  <2> QED BY <1>n, <1>4, <1>5, <2>3
<1>8. ASSUME NEW h \in Handlers, pc[h] = "send" PROVE Len(queue) < Bound
  <2>1. h \in Admitting
    BY <1>8 DEF Admitting, AdmittingStates
  <2>2. Cardinality(Admitting) # 0
    BY <1>f, <2>1, FS_EmptySet
  <2> QED BY <1>n, <2>2
<1> QED BY <1>6, <1>7, <1>8

\* A fresh executor counts no job.
LEMMA CountInit == Init => CountInv
<1> SUFFICES ASSUME Init PROVE CountInv
  OBVIOUS
<1>1. Counting = {} /\ Uncounted = {} /\ queue = <<>>
  BY DEF Init, Counting, Uncounted, CountingStates, UncountedStates
<1>2. /\ Cardinality(Counting) = 0 /\ Cardinality(Uncounted) = 0
      /\ Len(queue) = 0
  BY <1>1, FS_EmptySet, EmptySeq
<1>3. current = Cardinality(Counting) + Len(queue) + Cardinality(Uncounted)
  BY <1>2 DEF Init
<1> QED BY <1>3, HandoffAssumption DEF HandoffAssumption, Init, CountInv

\* The conjuncts of CountInv that a step of a handler can disturb.
LEMMA CountHandlerStep ==
    ASSUME PermitInv, CountInv, NEW h \in Handlers, HandlerNext(h)
    PROVE  CountInv'
<1>n. /\ Bound \in Nat /\ UsizeMax \in Nat /\ UsizeMax > Bound
      /\ Len(queue) \in Nat /\ current \in Nat /\ max \in Nat /\ metricMax \in Nat
      /\ Cardinality(Counting) \in Nat /\ Cardinality(Uncounted) \in Nat
      /\ TypeOK
  BY HandoffAssumption, CountsAreNat DEF HandoffAssumption, TypeOK, PermitInv
<1>c. /\ current = Cardinality(Counting) + Len(queue) + Cardinality(Uncounted)
      /\ current <= Bound
  BY CountWithinBound DEF CountInv
<1>1. CASE Call(h) \/ RejectSignal(h) \/ AcquirePermit(h) \/ NoPermit(h) \/ Return(h)
  <2>1. PICK from \in {"idle", "acquire", "answered"}, to \in {"idle", "acquire", "count"} :
            HandlerStep(h, from, to)
    BY <1>1 DEF Call, RejectSignal, AcquirePermit, NoPermit, Return, Finish
  <2>2. UNCHANGED <<queue, current, max, metricMax, seen, wpc>>
    BY <1>1 DEF Call, RejectSignal, AcquirePermit, NoPermit, Return, countVars, workerVars
  <2>3. Cardinality(Counting') = Cardinality(Counting) /\ Uncounted' = Uncounted
    BY <1>n, <2>1, <2>2, HandlerMove, UnmovedCounts
    DEF HandlerStates, CountingStates, Bit
  <2> QED BY <1>n, <1>c, <2>1, <2>2, <2>3 DEF CountInv, HandlerStep, TypeOK
<1>2. CASE CountJob(h)
  <2>1. /\ Cardinality(Counting') = Cardinality(Counting) + 1 /\ Uncounted' = Uncounted
    BY <1>2, <1>n, HandlerMove, UnmovedCounts
    DEF CountJob, HandlerStates, CountingStates, Bit, workerVars
  <2>2. current < Bound
    BY <1>2, CountWithinBound DEF CountJob, HandlerStep
  <2>3. current' = current + 1 /\ UNCHANGED <<queue, max, metricMax, wpc>>
    BY <1>2, <1>n, <2>2 DEF CountJob, FetchAdd, workerVars
  <2>4. current' = Cardinality(Counting') + Len(queue') + Cardinality(Uncounted')
    BY <1>n, <1>c, <2>1, <2>3
  <2>5. \A g \in Handlers :
          pc'[g] \in {"store", "metric_max", "max"} => seen'[g] <= Bound
    BY <1>2, <1>n, <2>2 DEF CountJob, HandlerStep, CountInv, TypeOK
  <2> QED BY <1>2, <2>3, <2>4, <2>5 DEF CountInv, CountJob, HandlerStep, PermitInv, TypeOK
<1>3. CASE StoreAdmitted(h) \/ RaiseMetricMax(h) \/ RaiseMax(h)
  <2>1. PICK from \in {"store", "metric_max", "max"}, to \in {"metric_max", "max", "send"} :
            HandlerStep(h, from, to)
    BY <1>3 DEF StoreAdmitted, RaiseMetricMax, RaiseMax
  <2>2. UNCHANGED <<queue, current, seen, wpc>>
    BY <1>3 DEF StoreAdmitted, RaiseMetricMax, RaiseMax, workerVars
  <2>3. Cardinality(Counting') = Cardinality(Counting) /\ Uncounted' = Uncounted
    BY <1>n, <2>1, <2>2, HandlerMove, UnmovedCounts
    DEF HandlerStates, CountingStates, Bit
  <2>4. seen[h] <= Bound /\ seen[h] \in Nat
    BY <1>n, <2>1 DEF CountInv, HandlerStep, TypeOK
  <2>5. max' <= Bound /\ metricMax' <= Bound
    BY <1>3, <1>n, <2>4
    DEF CountInv, StoreAdmitted, RaiseMetricMax, RaiseMax, Larger
  <2> QED BY <1>n, <1>c, <2>1, <2>2, <2>3, <2>4, <2>5 DEF CountInv, HandlerStep, TypeOK
<1>4. CASE Send(h)
  <2>1. /\ Cardinality(Counting') + 1 = Cardinality(Counting) /\ Uncounted' = Uncounted
        /\ Cardinality(Counting') \in Nat
    BY <1>4, <1>n, HandlerMove, UnmovedCounts
    DEF Send, HandlerStates, CountingStates, Bit, workerVars
  <2>2. Len(queue') = Len(queue) + 1
    BY <1>4, <1>n DEF Send, TypeOK
  <2>3. current' = Cardinality(Counting') + Len(queue') + Cardinality(Uncounted')
    BY <1>4, <1>n, <1>c, <2>1, <2>2 DEF Send, countVars
  <2> QED
    BY <1>4, <1>n, <2>3
    DEF CountInv, Send, HandlerStep, TypeOK, countVars, workerVars
<1>5. ~SendFails(h)
  <2>1. ASSUME SendFails(h) PROVE FALSE
    <3>1. Open
      BY HandoffAssumption DEF HandoffAssumption, Open, CountInv
    <3> QED BY <2>1, <3>1, CountWithinBound DEF SendFails, HandlerStep
  <2> QED BY <2>1
<1>6. ~UncountJob(h) /\ ~StoreUncounted(h)
  BY DEF CountInv, UncountJob, StoreUncounted, Finish, HandlerStep
<1>7. CASE Cancel(h)
  <2>1. Counting' = Counting /\ Uncounted' = Uncounted
    BY <1>7, <1>n DEF Cancel, TypeOK, Counting, CountingStates, Uncounted
  <2>2. Len(queue') = Len(queue)
    BY <1>7, <1>n, LenProperties DEF Cancel, TypeOK
  <2> QED BY <1>7, <1>n, <1>c, <2>1, <2>2 DEF CountInv, Cancel, TypeOK, countVars
<1> QED
  BY <1>1, <1>2, <1>3, <1>4, <1>5, <1>6, <1>7 DEF HandlerNext, HandlerProgress

\* A worker that takes, answers, counts out and drops a job keeps the count exact.
LEMMA CountWorkerStep ==
    ASSUME PermitInv, CountInv, ~ForwardMayPanic, NEW w \in Workers, WorkerNext(w)
    PROVE  CountInv'
<1>n. /\ Bound \in Nat /\ Len(queue) \in Nat /\ current \in Nat
      /\ Cardinality(Counting) \in Nat /\ Cardinality(Uncounted) \in Nat
      /\ TypeOK
  BY HandoffAssumption, CountsAreNat DEF HandoffAssumption, TypeOK, PermitInv
<1>c. current = Cardinality(Counting) + Len(queue) + Cardinality(Uncounted)
  BY DEF CountInv
<1>1. CASE LockReceiver(w) \/ RecordDone(w) \/ DropJob(w)
  <2>1. PICK from \in {"lock", "counted", "recorded"}, to \in {"receive", "recorded", "lock"} :
            WorkerStep(w, from, to)
    BY <1>1 DEF LockReceiver, RecordDone, DropJob
  <2>2. UNCHANGED <<queue, current, max, metricMax, seen, pc>>
    BY <1>1 DEF LockReceiver, RecordDone, DropJob, countVars, handlerVars
  <2>3. Cardinality(Uncounted') = Cardinality(Uncounted) /\ Counting' = Counting
    BY <1>n, <2>1, <2>2, WorkerMove, UnmovedCounts DEF WorkerStates, UncountedStates, Bit
  <2> QED BY <1>n, <1>c, <2>1, <2>2, <2>3 DEF CountInv, WorkerStep, TypeOK
<1>2. CASE Receive(w)
  <2>1. Cardinality(Uncounted') = Cardinality(Uncounted) + 1 /\ Counting' = Counting
    BY <1>2, <1>n, WorkerMove, UnmovedCounts
    DEF Receive, WorkerStates, UncountedStates, Bit, handlerVars
  <2>2. Len(queue') = Len(queue) - 1
    BY <1>2, <1>n DEF Receive, TypeOK
  <2>3. current' = Cardinality(Counting') + Len(queue') + Cardinality(Uncounted')
    BY <1>2, <1>n, <1>c, <2>1, <2>2 DEF Receive, countVars
  <2> QED
    BY <1>2, <1>n, <2>3
    DEF CountInv, Receive, WorkerStep, TypeOK, countVars, handlerVars
<1>3. CASE Respond(w)
  <2>1. PICK status \in Outcomes : Deliver(HandlersOf({job[w]}), status)
    BY <1>3 DEF Respond, Outcomes
  <2>2. Counting' = Counting
    BY <1>n, <2>1, DeliverKeeps DEF HandlersOf
  <2>3. Cardinality(Uncounted') = Cardinality(Uncounted)
    BY <1>3, <1>n, WorkerMove DEF Respond, WorkerStates, UncountedStates, Bit
  <2>4. \A h \in Handlers : pc'[h] = pc[h] \/ pc'[h] = "answered"
    BY <1>n, <2>1 DEF Deliver, TypeOK
  <2>5. UNCHANGED <<queue, current, max, metricMax, seen>>
    BY <1>3 DEF Respond, countVars
  <2>6. \A v \in Workers : wpc'[v] = wpc[v] \/ wpc'[v] = "responded"
    BY <1>3, <1>n DEF Respond, WorkerStep, TypeOK
  <2> QED BY <1>n, <1>c, <2>2, <2>3, <2>4, <2>5, <2>6 DEF CountInv
<1>4. CASE CountDone(w)
  <2>1. /\ Cardinality(Uncounted') + 1 = Cardinality(Uncounted) /\ Counting' = Counting
        /\ Cardinality(Uncounted') \in Nat
    BY <1>4, <1>n, WorkerMove, UnmovedCounts
    DEF CountDone, WorkerStates, UncountedStates, Bit, handlerVars
  <2>2. current' = current - 1
    BY <1>4, <1>n, <1>c, <2>1 DEF CountDone, FetchSub
  <2>3. UNCHANGED <<queue, max, metricMax, seen, pc>>
    BY <1>4 DEF CountDone, handlerVars
  <2>4. \A v \in Workers : wpc'[v] = wpc[v] \/ wpc'[v] = "counted"
    BY <1>4, <1>n DEF CountDone, WorkerStep, TypeOK
  <2>5. current' = Cardinality(Counting') + Len(queue') + Cardinality(Uncounted')
    BY <1>n, <1>c, <2>1, <2>2, <2>3
  <2> QED BY <2>3, <2>4, <2>5 DEF CountInv
<1>5. ~Panic(w) /\ ~UnwindPermit(w) /\ ~Exit(w)
  BY DEF CountInv, Panic, UnwindPermit, Exit, WorkerStep
<1> QED BY <1>1, <1>2, <1>3, <1>4, <1>5 DEF WorkerNext

\* No step makes the count inexact, while no forward panics.
LEMMA CountStep == ~ForwardMayPanic /\ PermitInv /\ CountInv /\ [Next]_vars => CountInv'
<1>1. CountInv /\ UNCHANGED vars => CountInv'
  BY DEF CountInv, Counting, Uncounted, vars, countVars, handlerVars, workerVars
<1> QED BY <1>1, CountHandlerStep, CountWorkerStep DEF Next

\* The count is exact in every reachable state, while no forward panics.
LEMMA CountInvariant == ASSUME ~ForwardMayPanic PROVE Spec => []CountInv
<1>1. PermitInv /\ CountInv /\ [Next]_vars => CountInv'
  BY CountStep
<1> QED BY <1>1, CountInit, PermitInvariant, PTL DEF Spec

\* Without a panic the count is the number of jobs counted and not done, so
\* no fetch_sub wraps it (handoff.rs, the comment before fetch_add).
THEOREM CountAlwaysExact == Spec => []CountExact
<1>1. CASE ForwardMayPanic
  <2>1. CountExact
    BY <1>1 DEF CountExact
  <2> QED BY <2>1, PTL
<1>2. CASE ~ForwardMayPanic
  <2>1. CountInv => CountExact
    BY DEF CountInv, CountExact
  <2> QED BY <1>2, <2>1, CountInvariant, PTL
<1> QED BY <1>1, <1>2

\* Without a panic in-flight plus queued work never exceeds the bound, neither
\* now nor in either recorded maximum (doc of InferenceExecutor.max_admitted).
THEOREM AdmissionBounded == Spec => []AdmittedWithinBound
<1>1. CASE ForwardMayPanic
  <2>1. AdmittedWithinBound
    BY <1>1 DEF AdmittedWithinBound
  <2> QED BY <2>1, PTL
<1>2. CASE ~ForwardMayPanic
  <2>1. PermitInv /\ CountInv => AdmittedWithinBound
    BY CountWithinBound DEF CountInv, AdmittedWithinBound
  <2> QED BY <1>2, <2>1, PermitInvariant, CountInvariant, PTL
<1> QED BY <1>1, <1>2

\* Without a panic the channel never refuses a job that got a permit, so the
\* semaphore alone decides admission (try_enqueue's undo path is dead code).
THEOREM ChannelNeverRefuses == Spec => []ChannelHasRoom
<1>1. CASE ForwardMayPanic
  <2>1. ChannelHasRoom
    BY <1>1 DEF ChannelHasRoom
  <2> QED BY <2>1, PTL
<1>2. CASE ~ForwardMayPanic
  <2>1. PermitInv /\ CountInv => ChannelHasRoom
    BY CountWithinBound, HandoffAssumption
    DEF CountInv, ChannelHasRoom, Open, HandoffAssumption
  <2> QED BY <1>2, <2>1, PermitInvariant, CountInvariant, PTL
<1> QED BY <1>1, <1>2

-----------------------------------------------------------------------------
(* The gauge of a server with one worker.                                  *)

NothingCounted == Counting = {} /\ queue = <<>>

\* With nobody to store beside it, the worker that counts out the last job stores 0,
\* and nothing is stored after it: every job stored its own count before that.
GaugeInv ==
    NothingCounted =>
        \A w \in Workers :
            /\ wpc[w] = "counted" => prev[w] = 1
            /\ wpc[w] \in {"lock", "receive", "recorded"} => gauge = 0

\* A handler stores only while its own job is still to be counted out.
LEMMA GaugeHandlerStep ==
    ASSUME PermitInv, CountInv, NEW h \in Handlers, HandlerNext(h), NothingCounted'
    PROVE  NothingCounted /\ UNCHANGED <<wpc, prev, gauge>>
<1>0. TypeOK /\ pc \in [Handlers -> HandlerStates]
  BY DEF PermitInv, TypeOK
<1>1. ~CountJob(h) /\ ~StoreAdmitted(h) /\ ~RaiseMetricMax(h) /\ ~RaiseMax(h)
  <2>1. pc'[h] \notin {"store", "metric_max", "max", "send"}
    BY DEF NothingCounted, Counting, CountingStates
  <2> QED BY <1>0, <2>1 DEF CountJob, StoreAdmitted, RaiseMetricMax, RaiseMax, HandlerStep
<1>2. ~Send(h)
  <2>1. ASSUME Send(h) PROVE FALSE
    <3>1. queue' # <<>>
      BY <1>0, <2>1, AppendProperties DEF Send, TypeOK
    <3> QED BY <3>1 DEF NothingCounted
  <2> QED BY <2>1
<1>3. ~SendFails(h)
  <2>1. ASSUME SendFails(h) PROVE FALSE
    <3>1. Open
      BY HandoffAssumption DEF HandoffAssumption, Open, CountInv
    <3> QED BY <2>1, <3>1, CountWithinBound DEF SendFails, HandlerStep
  <2> QED BY <2>1
<1>4. ~UncountJob(h) /\ ~StoreUncounted(h)
  BY DEF CountInv, UncountJob, StoreUncounted, Finish, HandlerStep
<1>5. CASE Call(h) \/ RejectSignal(h) \/ AcquirePermit(h) \/ NoPermit(h) \/ Return(h)
  <2>1. PICK from \in {"idle", "acquire", "answered"}, to \in {"idle", "acquire", "count"} :
            HandlerStep(h, from, to)
    BY <1>5 DEF Call, RejectSignal, AcquirePermit, NoPermit, Return, Finish
  <2>2. UNCHANGED <<queue, gauge, wpc, prev>>
    BY <1>5 DEF Call, RejectSignal, AcquirePermit, NoPermit, Return, countVars, workerVars
  <2>3. Counting' = Counting
    BY <1>0, <2>1 DEF HandlerStep, Counting, CountingStates
  <2> QED BY <2>2, <2>3 DEF NothingCounted
<1>6. CASE Cancel(h)
  <2>1. Counting' = Counting /\ UNCHANGED <<gauge, wpc, prev>>
    BY <1>0, <1>6 DEF Cancel, Counting, CountingStates, countVars
  <2>2. Len(queue') = Len(queue) /\ queue \in Seq(Handlers \cup {Orphan})
    BY <1>0, <1>6, LenProperties DEF Cancel, TypeOK
  <2>3. queue' = <<>> => queue = <<>>
    BY <2>2, EmptySeq
  <2> QED BY <2>1, <2>3 DEF NothingCounted
<1> QED BY <1>1, <1>2, <1>3, <1>4, <1>5, <1>6 DEF HandlerNext, HandlerProgress

\* The one worker stores what is left after the job it counted out.
LEMMA GaugeWorkerStep ==
    ASSUME PermitInv, CountInv, GaugeInv, ~ForwardMayPanic, NEW w, Workers = {w}, WorkerNext(w)
    PROVE  GaugeInv'
<1> SUFFICES ASSUME NothingCounted'
             PROVE  /\ wpc'[w] = "counted" => prev'[w] = 1
                    /\ wpc'[w] \in {"lock", "receive", "recorded"} => gauge' = 0
  BY DEF GaugeInv
<1>0. /\ wpc \in [Workers -> WorkerStates] /\ prev \in [Workers -> Nat] /\ w \in Workers
      /\ queue \in Seq(Handlers \cup {Orphan})
  BY DEF PermitInv, TypeOK
<1>1. CASE LockReceiver(w) \/ DropJob(w)
  <2>1. UNCHANGED <<queue, pc, gauge>> /\ wpc[w] \in {"lock", "recorded"}
        /\ wpc'[w] \in {"lock", "receive"}
    BY <1>0, <1>1 DEF LockReceiver, DropJob, WorkerStep, countVars, handlerVars
  <2>2. NothingCounted
    BY <2>1 DEF NothingCounted, Counting
  <2> QED BY <1>0, <2>1, <2>2 DEF GaugeInv
<1>2. CASE Receive(w) \/ Respond(w)
  BY <1>0, <1>2 DEF Receive, Respond, WorkerStep
<1>3. CASE CountDone(w)
  <2>1. UNCHANGED <<queue, pc>> /\ wpc[w] = "responded" /\ wpc'[w] = "counted" /\ prev'[w] = current
    BY <1>0, <1>3 DEF CountDone, WorkerStep, handlerVars
  <2>2. Counting = {} /\ queue = <<>>
    BY <2>1 DEF NothingCounted, Counting
  <2>3. Uncounted = {w}
    BY <2>1 DEF Uncounted, UncountedStates
  <2>4. Cardinality(Counting) = 0 /\ Len(queue) = 0 /\ Cardinality(Uncounted) = 1
    BY <2>2, <2>3, FS_EmptySet, FS_Singleton, EmptySeq
  <2>5. current = 1
    BY <2>4 DEF CountInv
  <2> QED BY <2>1, <2>5
<1>4. CASE RecordDone(w)
  <2>1. UNCHANGED <<queue, pc>> /\ wpc[w] = "counted" /\ wpc'[w] = "recorded"
        /\ gauge' = Saturating1(prev[w])
    BY <1>0, <1>4 DEF RecordDone, WorkerStep, handlerVars
  <2>2. NothingCounted
    BY <2>1 DEF NothingCounted, Counting
  <2>3. prev[w] = 1
    BY <1>0, <2>1, <2>2 DEF GaugeInv
  <2> QED BY <2>1, <2>3 DEF Saturating1
<1>5. ~Panic(w) /\ ~UnwindPermit(w) /\ ~Exit(w)
  <2>1. wpc[w] \notin {"unwinding", "exiting"}
    BY <1>0 DEF CountInv
  <2>2. ~Panic(w)
    BY DEF Panic
  <2> QED BY <2>1, <2>2 DEF UnwindPermit, Exit, WorkerStep
<1> QED BY <1>1, <1>2, <1>3, <1>4, <1>5 DEF WorkerNext

\* A server with one worker, whose forwards do not panic, is idle only with its gauge at
\* what it counts, though a handler and the worker store without a lock: what makes the
\* gauge stale is a second worker (metrics.rs, record_completed).
THEOREM OneWorkerGaugeExact ==
    ASSUME Cardinality(Workers) = 1, ~ForwardMayPanic
    PROVE  Spec => []GaugeExactAtRest
<1>0. PICK w : Workers = {w}
  BY HandoffAssumption, FS_Singleton DEF HandoffAssumption
<1>1. Init => GaugeInv
  BY DEF Init, GaugeInv
<1>2. PermitInv /\ CountInv /\ GaugeInv /\ [Next]_vars => GaugeInv'
  <2> SUFFICES ASSUME PermitInv, CountInv, GaugeInv, [Next]_vars PROVE GaugeInv'
    OBVIOUS
  <2>1. CASE UNCHANGED vars
    BY <2>1 DEF vars, countVars, handlerVars, workerVars, GaugeInv, NothingCounted, Counting
  <2>2. ASSUME NEW h \in Handlers, HandlerNext(h) PROVE GaugeInv'
    BY <2>2, GaugeHandlerStep DEF GaugeInv
  <2>3. ASSUME NEW v \in Workers, WorkerNext(v) PROVE GaugeInv'
    BY <1>0, <2>3, GaugeWorkerStep
  <2> QED BY <2>1, <2>2, <2>3 DEF Next
<1>3. CountInv /\ GaugeInv => GaugeExactAtRest
  <2> SUFFICES ASSUME CountInv, GaugeInv, AtRest PROVE gauge = current
    BY DEF GaugeExactAtRest
  <2>1. Counting = {} /\ Uncounted = {} /\ queue = <<>>
    BY DEF AtRest, Counting, CountingStates, Uncounted, UncountedStates
  <2>2. current = 0
    BY <2>1, FS_EmptySet, EmptySeq DEF CountInv
  <2>3. gauge = 0
    BY <1>0, <2>1 DEF AtRest, GaugeInv, NothingCounted
  <2> QED BY <2>2, <2>3
<1> QED BY <1>1, <1>2, <1>3, PermitInvariant, CountInvariant, PTL DEF Spec

-----------------------------------------------------------------------------
(* The jobs, with panics and cancellation.                                 *)

Queued(h) == \E i \in DOMAIN queue : queue[i] = h
Run(h) == \E w \in Workers : job[w] = h

\* What a worker has in its hands, by where it is.
JobFits(w) ==
    /\ wpc[w] = "forward" => job[w] # Nobody
    /\ wpc[w] \in HoldingStates \ {"forward"} => job[w] = Orphan
    /\ wpc[w] \notin HoldingStates => job[w] = Nobody

\* The inductive invariant of the jobs: no handler has two, and those that
\* wait are those that have one.
JobsInv ==
    /\ \A i, j \in DOMAIN queue : queue[i] \in Handlers /\ queue[i] = queue[j] => i = j
    /\ \A w, v \in Workers : job[w] \in Handlers /\ job[w] = job[v] => w = v
    /\ \A h \in Handlers : ~(Queued(h) /\ Run(h))
    /\ \A h \in Handlers : pc[h] = "awaiting" <=> Queued(h) \/ Run(h)
    /\ \A w \in Workers : JobFits(w)

\* A fresh executor has no job.
LEMMA JobsInit == Init => JobsInv
<1> SUFFICES ASSUME Init PROVE JobsInv
  OBVIOUS
<1>1. DOMAIN queue = {} /\ \A w \in Workers : job[w] = Nobody /\ wpc[w] = "lock"
  BY DEF Init
<1> QED BY <1>1, HandoffAssumption
        DEF HandoffAssumption, Init, JobsInv, Queued, Run, JobFits, HoldingStates

\* A step that neither makes nor moves a job, and leaves the waiting handlers
\* and the working workers as they are.
LEMMA JobsQuiet ==
    ASSUME JobsInv, queue' = queue, job' = job,
           \A h \in Handlers : pc'[h] = "awaiting" <=> pc[h] = "awaiting",
           \A w \in Workers : JobFits(w)'
    PROVE  JobsInv'
BY DEF JobsInv, Queued, Run

\* A job that is sent is the only one of its handler.
LEMMA JobsSend ==
    ASSUME TypeOK, JobsInv, NEW h \in Handlers, Send(h)
    PROVE  JobsInv'
<1>1. /\ queue \in Seq(Handlers \cup {Orphan}) /\ Len(queue) \in Nat
      /\ DOMAIN queue = 1 .. Len(queue)
      /\ DOMAIN queue' = 1 .. Len(queue) + 1
      /\ queue'[Len(queue) + 1] = h
      /\ \A i \in DOMAIN queue : queue'[i] = queue[i]
  BY LenProperties, AppendProperties DEF TypeOK, Send
<1>2. /\ pc[h] # "awaiting" /\ pc'[h] = "awaiting" /\ job' = job /\ wpc' = wpc
      /\ \A g \in Handlers \ {h} : pc'[g] = pc[g]
  BY DEF Send, HandlerStep, TypeOK, workerVars
<1>3. ~Queued(h) /\ ~Run(h) /\ ~Run(h)'
  BY <1>2 DEF JobsInv, Run
<1>4. \A i \in DOMAIN queue' : i \in DOMAIN queue \/ i = Len(queue) + 1
  BY <1>1
<1>5. \A g \in Handlers : Queued(g)' <=> Queued(g) \/ g = h
  BY <1>1, <1>4 DEF Queued
<1>6. \A g \in Handlers : Run(g)' <=> Run(g)
  BY <1>2 DEF Run
<1>7. \A i, j \in DOMAIN queue' : queue'[i] \in Handlers /\ queue'[i] = queue'[j] => i = j
  BY <1>1, <1>3, <1>4 DEF JobsInv, Queued
<1>8. \A w \in Workers : JobFits(w)'
  BY <1>2 DEF JobsInv, JobFits
<1>9. \A w, v \in Workers : job'[w] \in Handlers /\ job'[w] = job'[v] => w = v
  BY <1>2 DEF JobsInv
<1>10. \A g \in Handlers : ~(Queued(g)' /\ Run(g)')
  BY <1>3, <1>5, <1>6 DEF JobsInv
<1>11. \A g \in Handlers : pc'[g] = "awaiting" <=> Queued(g)' \/ Run(g)'
  BY <1>2, <1>5, <1>6 DEF JobsInv
<1> QED BY <1>7, <1>8, <1>9, <1>10, <1>11 DEF JobsInv

\* The job of a handler that is gone is nobody's, wherever it is.
LEMMA JobsCancel ==
    ASSUME TypeOK, JobsInv, NEW h \in Handlers, Cancel(h)
    PROVE  JobsInv'
<1>1. /\ DOMAIN queue' = DOMAIN queue /\ wpc' = wpc
      /\ \A i \in DOMAIN queue : queue'[i] = IF queue[i] = h THEN Orphan ELSE queue[i]
      /\ \A w \in Workers : job'[w] = IF job[w] = h THEN Orphan ELSE job[w]
      /\ pc'[h] = "idle" /\ \A g \in Handlers \ {h} : pc'[g] = pc[g]
  BY DEF Cancel, TypeOK
<1>2. Orphan \notin Handlers /\ Nobody \notin Handlers /\ Orphan # Nobody
  BY HandoffAssumption DEF HandoffAssumption
<1>3. \A g \in Handlers : /\ Queued(g)' <=> Queued(g) /\ g # h
                          /\ Run(g)' <=> Run(g) /\ g # h
  BY <1>1, <1>2 DEF Queued, Run
<1>4. \A w \in Workers : JobFits(w)'
  <2> SUFFICES ASSUME NEW w \in Workers PROVE JobFits(w)'
    OBVIOUS
  <2>1. JobFits(w) /\ wpc'[w] = wpc[w]
    BY <1>1 DEF JobsInv
  <2> QED BY <1>1, <1>2, <2>1 DEF JobFits
<1>5. \A i, j \in DOMAIN queue' : queue'[i] \in Handlers /\ queue'[i] = queue'[j] => i = j
  BY <1>1, <1>2 DEF JobsInv
<1>6. \A w, v \in Workers : job'[w] \in Handlers /\ job'[w] = job'[v] => w = v
  BY <1>1, <1>2 DEF JobsInv
<1>7. \A g \in Handlers : ~(Queued(g)' /\ Run(g)')
  BY <1>3 DEF JobsInv
<1>8. \A g \in Handlers : pc'[g] = "awaiting" <=> Queued(g)' \/ Run(g)'
  BY <1>1, <1>3 DEF JobsInv
<1> QED BY <1>4, <1>5, <1>6, <1>7, <1>8 DEF JobsInv

\* A worker takes over the oldest job.
LEMMA JobsReceive ==
    ASSUME TypeOK, JobsInv, NEW w \in Workers, Receive(w)
    PROVE  JobsInv'
<1>1. /\ queue \in Seq(Handlers \cup {Orphan}) /\ Len(queue) \in Nat /\ Len(queue) > 0
      /\ DOMAIN queue = 1 .. Len(queue) /\ Head(queue) = queue[1]
      /\ DOMAIN queue' = 1 .. Len(queue) - 1
      /\ \A i \in 1 .. Len(queue) - 1 : queue'[i] = queue[i + 1]
  BY LenProperties, EmptySeq, HeadTailProperties DEF TypeOK, Receive
<1>2. /\ wpc[w] = "receive" /\ wpc'[w] = "forward" /\ job'[w] = queue[1]
      /\ \A v \in Workers \ {w} : job'[v] = job[v] /\ wpc'[v] = wpc[v]
      /\ pc' = pc
  BY <1>1 DEF Receive, WorkerStep, TypeOK, handlerVars
<1>3. /\ job[w] = Nobody /\ Nobody \notin Handlers /\ Orphan # Nobody
      /\ queue[1] \in Handlers \cup {Orphan} /\ 1 \in DOMAIN queue
  <2>1. job[w] = Nobody
    BY <1>2 DEF JobsInv, JobFits, HoldingStates
  <2> QED BY <1>1, <2>1, HandoffAssumption, ElementOfSeq DEF HandoffAssumption
<1>4. \A i \in DOMAIN queue' : i + 1 \in DOMAIN queue /\ queue'[i] = queue[i + 1] /\ i + 1 # 1
  BY <1>1
<1>5. \A i \in DOMAIN queue : i = 1 \/ (i - 1 \in DOMAIN queue' /\ queue'[i - 1] = queue[i])
  BY <1>1
<1>6. \A g \in Handlers : Queued(g)' <=> Queued(g) /\ g # queue[1]
  <2> SUFFICES ASSUME NEW g \in Handlers PROVE Queued(g)' <=> Queued(g) /\ g # queue[1]
    OBVIOUS
  <2>1. ASSUME Queued(g)' PROVE Queued(g) /\ g # queue[1]
    BY <1>3, <1>4, <2>1 DEF Queued, JobsInv
  <2>2. ASSUME Queued(g), g # queue[1] PROVE Queued(g)'
    BY <1>5, <2>2 DEF Queued
  <2> QED BY <2>1, <2>2
<1>7. \A g \in Handlers : Run(g)' <=> Run(g) \/ g = queue[1]
  BY <1>2, <1>3 DEF Run
<1>8. ASSUME queue[1] \in Handlers PROVE Queued(queue[1]) /\ ~Run(queue[1])
  BY <1>3, <1>8 DEF JobsInv, Queued
<1>9. \A i, j \in DOMAIN queue' : queue'[i] \in Handlers /\ queue'[i] = queue'[j] => i = j
  <2> SUFFICES ASSUME NEW i \in DOMAIN queue', NEW j \in DOMAIN queue',
                      queue'[i] \in Handlers, queue'[i] = queue'[j]
               PROVE  i = j
    OBVIOUS
  <2>1. i + 1 = j + 1
    BY <1>4 DEF JobsInv
  <2> QED BY <1>1, <2>1
<1>10. \A u, v \in Workers : job'[u] \in Handlers /\ job'[u] = job'[v] => u = v
  BY <1>2, <1>8 DEF JobsInv, Run
<1>11. \A v \in Workers : JobFits(v)'
  <2>1. JobFits(w)'
    BY <1>2, <1>3, HandoffAssumption DEF JobFits, HandoffAssumption, HoldingStates
  <2>2. \A v \in Workers \ {w} : JobFits(v)'
    BY <1>2 DEF JobsInv, JobFits
  <2> QED BY <2>1, <2>2
<1>12. \A g \in Handlers : ~(Queued(g)' /\ Run(g)')
  BY <1>6, <1>7 DEF JobsInv
<1>13. \A g \in Handlers : pc'[g] = "awaiting" <=> Queued(g)' \/ Run(g)'
  BY <1>2, <1>6, <1>7, <1>8 DEF JobsInv
<1> QED BY <1>9, <1>10, <1>11, <1>12, <1>13 DEF JobsInv

\* The end of a forward, by a result or a panic, ends the wait of its handler.
LEMMA JobsForwardEnds ==
    ASSUME TypeOK, JobsInv, NEW w \in Workers, Respond(w) \/ Panic(w)
    PROVE  JobsInv'
<1>1. /\ wpc[w] = "forward" /\ wpc'[w] \in {"responded", "unwinding"}
      /\ job'[w] = Orphan /\ queue' = queue
      /\ \A v \in Workers \ {w} : job'[v] = job[v] /\ wpc'[v] = wpc[v]
  BY DEF Respond, Panic, WorkerStep, TypeOK
<1>2. \A g \in Handlers : pc'[g] = "awaiting" <=> pc[g] = "awaiting" /\ g # job[w]
  BY DEF Respond, Panic, Deliver, HandlersOf, TypeOK
<1>3. Orphan \notin Handlers /\ Nobody \notin Handlers
  BY HandoffAssumption DEF HandoffAssumption
<1>4. \A g \in Handlers : /\ Queued(g)' <=> Queued(g)
                          /\ Run(g)' <=> Run(g) /\ g # job[w]
  <2>1. \A g \in Handlers : Queued(g)' <=> Queued(g)
    BY <1>1 DEF Queued
  <2>2. \A g \in Handlers : Run(g)' <=> Run(g) /\ g # job[w]
    BY <1>1, <1>3 DEF Run, JobsInv
  <2> QED BY <2>1, <2>2
<1>5. \A g \in Handlers : g = job[w] => ~Queued(g)
  BY DEF JobsInv, Run
<1>6. \A v \in Workers : JobFits(v)'
  <2>1. JobFits(w)'
    BY <1>1 DEF JobFits, HoldingStates
  <2>2. \A v \in Workers \ {w} : JobFits(v)'
    BY <1>1 DEF JobsInv, JobFits
  <2> QED BY <2>1, <2>2
<1>7. \A u, v \in Workers : job'[u] \in Handlers /\ job'[u] = job'[v] => u = v
  BY <1>1, <1>3 DEF JobsInv
<1>8. \A g \in Handlers : ~(Queued(g)' /\ Run(g)')
  BY <1>4 DEF JobsInv
<1>9. \A g \in Handlers : pc'[g] = "awaiting" <=> Queued(g)' \/ Run(g)'
  BY <1>2, <1>4, <1>5 DEF JobsInv
<1>10. \A i, j \in DOMAIN queue' : queue'[i] \in Handlers /\ queue'[i] = queue'[j] => i = j
  BY <1>1 DEF JobsInv
<1> QED BY <1>6, <1>7, <1>8, <1>9, <1>10 DEF JobsInv

\* The last thread out ends the wait of every handler whose job is queued.
LEMMA JobsExit ==
    ASSUME TypeOK, JobsInv, NEW w \in Workers, Exit(w)
    PROVE  JobsInv'
<1>1. /\ wpc[w] = "exiting" /\ wpc'[w] = "dead" /\ job' = job
      /\ \A v \in Workers \ {w} : wpc'[v] = wpc[v]
  BY DEF Exit, WorkerStep, TypeOK
<1>2. \A v \in Workers : JobFits(v)'
  <2>1. JobFits(w)'
    BY <1>1 DEF JobsInv, JobFits, HoldingStates
  <2>2. \A v \in Workers \ {w} : JobFits(v)'
    BY <1>1 DEF JobsInv, JobFits
  <2> QED BY <2>1, <2>2
<1>3. CASE ~\A v \in Workers \ {w} : wpc[v] = "dead"
  <2>1. queue' = queue /\ Deliver(HandlersOf({(<<>>)[i] : i \in DOMAIN <<>>}), "unavailable")
    BY <1>3 DEF Exit
  <2>2. \A g \in Handlers : pc'[g] = pc[g]
    <3>1. {(<<>>)[i] : i \in DOMAIN <<>>} = {}
      OBVIOUS
    <3> QED BY <2>1, <3>1 DEF Deliver, HandlersOf, TypeOK
  <2> QED BY <1>1, <1>2, <2>1, <2>2, JobsQuiet
<1>4. CASE \A v \in Workers \ {w} : wpc[v] = "dead"
  <2>1. queue' = <<>> /\ Deliver(HandlersOf({queue[i] : i \in DOMAIN queue}), "unavailable")
    BY <1>4 DEF Exit
  <2>2. \A g \in Handlers : pc'[g] = "awaiting" <=> pc[g] = "awaiting" /\ ~Queued(g)
    BY <2>1 DEF Deliver, HandlersOf, TypeOK, Queued
  <2>3. \A v \in Workers : job[v] = Nobody
    BY <1>1, <1>4 DEF JobsInv, JobFits, HoldingStates
  <2>4. \A g \in Handlers : ~Run(g) /\ ~Run(g)' /\ ~Queued(g)'
    BY <1>1, <2>1, <2>3, HandoffAssumption DEF HandoffAssumption, Run, Queued
  <2>5. \A g \in Handlers : pc'[g] # "awaiting"
    BY <2>2, <2>4 DEF JobsInv
  <2>6. \A i, j \in DOMAIN queue' : i = j
    BY <2>1
  <2> QED BY <1>1, <1>2, <2>4, <2>5, <2>6 DEF JobsInv
<1> QED BY <1>3, <1>4

\* The other steps of a worker, which have no handler's job in their hands.
LEMMA JobsWorkerRest ==
    ASSUME TypeOK, JobsInv, NEW w \in Workers,
           \/ LockReceiver(w) \/ CountDone(w) \/ RecordDone(w)
           \/ DropJob(w) \/ UnwindPermit(w)
    PROVE  JobsInv'
<1>1. /\ queue' = queue /\ pc' = pc
      /\ \A v \in Workers \ {w} : wpc'[v] = wpc[v] /\ job'[v] = job[v]
  BY DEF LockReceiver, CountDone, RecordDone, DropJob, UnwindPermit, WorkerStep, TypeOK,
         handlerVars
<1>2. Orphan \notin Handlers /\ Nobody \notin Handlers
  BY HandoffAssumption DEF HandoffAssumption
<1>3. job[w] \notin Handlers /\ job'[w] \notin Handlers /\ JobFits(w)'
  <2>1. JobFits(w)
    BY DEF JobsInv
  <2>2. CASE LockReceiver(w)
    BY <1>2, <2>1, <2>2 DEF LockReceiver, WorkerStep, TypeOK, JobFits, HoldingStates
  <2>3. CASE CountDone(w) \/ RecordDone(w)
    BY <1>2, <2>1, <2>3 DEF CountDone, RecordDone, WorkerStep, TypeOK, JobFits, HoldingStates
  <2>4. CASE DropJob(w) \/ UnwindPermit(w)
    BY <1>2, <2>1, <2>4 DEF DropJob, UnwindPermit, WorkerStep, TypeOK, JobFits, HoldingStates
  <2> QED BY <2>2, <2>3, <2>4
<1>4. \A g \in Handlers : (Queued(g)' <=> Queued(g)) /\ (Run(g)' <=> Run(g))
  BY <1>1, <1>3 DEF Queued, Run
<1>5. \A v \in Workers : JobFits(v)'
  BY <1>1, <1>3 DEF JobsInv, JobFits
<1>6. \A u, v \in Workers : job'[u] \in Handlers /\ job'[u] = job'[v] => u = v
  BY <1>1, <1>3 DEF JobsInv
<1> QED BY <1>1, <1>4, <1>5, <1>6 DEF JobsInv

\* The other steps of a handler.
LEMMA JobsHandlerRest ==
    ASSUME TypeOK, JobsInv, NEW h \in Handlers,
           HandlerNext(h), ~Send(h), ~Cancel(h)
    PROVE  JobsInv'
<1>1. UNCHANGED <<queue, job, wpc>>
  BY DEF HandlerNext, HandlerProgress, Call, RejectSignal, AcquirePermit, NoPermit, CountJob,
         StoreAdmitted, RaiseMetricMax, RaiseMax, SendFails, UncountJob, StoreUncounted,
         Return, workerVars
<1>2. \E from \in HandlerStates \ {"awaiting"}, to \in HandlerStates \ {"awaiting"} :
         HandlerStep(h, from, to)
  BY DEF HandlerNext, HandlerProgress, Call, RejectSignal, AcquirePermit, NoPermit, CountJob,
         StoreAdmitted, RaiseMetricMax, RaiseMax, SendFails, UncountJob, StoreUncounted,
         Return, Finish, HandlerStates
<1>3. \A g \in Handlers : pc'[g] = "awaiting" <=> pc[g] = "awaiting"
  BY <1>2 DEF HandlerStep, TypeOK
<1>4. \A w \in Workers : JobFits(w)'
  BY <1>1 DEF JobsInv, JobFits
<1> QED BY <1>1, <1>3, <1>4, JobsQuiet

\* JobsInv is inductive, given the types.
LEMMA JobsStep == TypeOK /\ JobsInv /\ [Next]_vars => JobsInv'
<1> SUFFICES ASSUME TypeOK, JobsInv, [Next]_vars PROVE JobsInv'
  OBVIOUS
<1>1. ASSUME NEW h \in Handlers, HandlerNext(h) PROVE JobsInv'
  BY <1>1, JobsSend, JobsCancel, JobsHandlerRest
<1>2. ASSUME NEW w \in Workers, WorkerNext(w) PROVE JobsInv'
  BY <1>2, JobsReceive, JobsForwardEnds, JobsExit, JobsWorkerRest DEF WorkerNext
<1>3. CASE UNCHANGED vars
  BY <1>3 DEF vars, handlerVars, workerVars, JobsInv, Queued, Run, JobFits
<1> QED BY <1>1, <1>2, <1>3 DEF Next

\* One place is one: the waiting handler's job is counted once.
LEMMA JobsAreOne == TypeOK /\ JobsInv => OneJobPerWaiter
<1> SUFFICES ASSUME TypeOK, JobsInv, NEW h \in Handlers
             PROVE  Cardinality({i \in DOMAIN queue : queue[i] = h})
                      + Cardinality({w \in Workers : job[w] = h})
                      = IF pc[h] = "awaiting" THEN 1 ELSE 0
  BY DEF OneJobPerWaiter
<1> DEFINE Places == {i \in DOMAIN queue : queue[i] = h}
           Hands == {w \in Workers : job[w] = h}
<1>1. Queued(h) => \E i : Places = {i}
  <2> SUFFICES ASSUME NEW i \in DOMAIN queue, queue[i] = h PROVE Places = {i}
    BY DEF Queued
  <2> QED BY DEF JobsInv
<1>2. ~Queued(h) => Places = {}
  BY DEF Queued
<1>3. Run(h) => \E w : Hands = {w}
  <2> SUFFICES ASSUME NEW w \in Workers, job[w] = h PROVE Hands = {w}
    BY DEF Run
  <2> QED BY DEF JobsInv
<1>4. ~Run(h) => Hands = {}
  BY DEF Run
<1>5. /\ Cardinality(Places) = IF Queued(h) THEN 1 ELSE 0
      /\ Cardinality(Hands) = IF Run(h) THEN 1 ELSE 0
  BY <1>1, <1>2, <1>3, <1>4, FS_EmptySet, FS_Singleton
<1>6. ~(Queued(h) /\ Run(h)) /\ (pc[h] = "awaiting" <=> Queued(h) \/ Run(h))
  BY DEF JobsInv
<1> HIDE DEF Places, Hands
<1>7. Cardinality(Places) + Cardinality(Hands) = IF pc[h] = "awaiting" THEN 1 ELSE 0
  BY <1>5, <1>6
<1> QED BY <1>7 DEF Places, Hands

\* The jobs, by place and by whose they are.
Waiters == {g \in Handlers : pc[g] = "awaiting"}
AtQueue == {g \in Handlers : Queued(g)}
AtWork == {g \in Handlers : Run(g)}
LostQueue == {i \in DOMAIN queue : queue[i] = Orphan}
LostWork == {w \in Workers : wpc[w] \in HoldingStates /\ job[w] = Orphan}

\* Every job queued or held is a waiting handler's or nobody's.
LEMMA JobsByPlace ==
    ASSUME TypeOK, JobsInv
    PROVE  /\ IsFiniteSet(Waiters) /\ IsFiniteSet(Admitting) /\ IsFiniteSet(AtQueue) /\ IsFiniteSet(AtWork)
           /\ Waiters = AtQueue \cup AtWork /\ AtQueue \cap AtWork = {}
           /\ Cardinality(Waiters) = Cardinality(AtQueue) + Cardinality(AtWork)
           /\ Len(queue) = Cardinality(AtQueue) + Cardinality(LostQueue)
           /\ Cardinality(Holding) = Cardinality(AtWork) + Cardinality(LostWork)
           /\ Cardinality(AtQueue) \in Nat /\ Cardinality(AtWork) \in Nat
           /\ Cardinality(LostQueue) \in Nat /\ Cardinality(LostWork) \in Nat
           /\ LostWork # {} => Cardinality(LostWork) > 0
<1> DEFINE OwnQueue == {i \in DOMAIN queue : queue[i] \in Handlers}
           OwnWork == {w \in Workers : job[w] \in Handlers}
<1>n. /\ IsFiniteSet(Handlers) /\ IsFiniteSet(Workers)
      /\ Orphan \notin Handlers /\ Nobody \notin Handlers /\ Orphan # Nobody
      /\ Len(queue) \in Nat /\ DOMAIN queue = 1 .. Len(queue)
      /\ \A i \in DOMAIN queue : queue[i] \in Handlers \cup {Orphan}
  BY HandoffAssumption, LenProperties, ElementOfSeq DEF HandoffAssumption, TypeOK
<1>0. IsFiniteSet(DOMAIN queue) /\ Cardinality(DOMAIN queue) = Len(queue)
  BY <1>n, FS_Interval
<1>f. /\ IsFiniteSet(Waiters) /\ IsFiniteSet(Admitting) /\ IsFiniteSet(AtQueue)
      /\ IsFiniteSet(AtWork) /\ IsFiniteSet(OwnQueue) /\ IsFiniteSet(OwnWork)
      /\ IsFiniteSet(LostQueue) /\ IsFiniteSet(LostWork)
  BY <1>n, <1>0, FS_Subset DEF Waiters, Admitting, AtQueue, AtWork, LostQueue, LostWork
<1>2. Waiters = AtQueue \cup AtWork /\ AtQueue \cap AtWork = {}
  BY DEF JobsInv, Waiters, AtQueue, AtWork
<1>3. Cardinality(AtQueue) = Cardinality(OwnQueue)
  <2>1. \A i \in OwnQueue : queue[i] \in AtQueue
    BY DEF Queued, AtQueue
  <2>2. \A i, j \in OwnQueue : queue[i] = queue[j] => i = j
    BY DEF JobsInv
  <2>3. \A g \in AtQueue : \E i \in OwnQueue : queue[i] = g
    BY DEF Queued, AtQueue
  <2> HIDE DEF OwnQueue
  <2> QED BY <1>f, <2>1, <2>2, <2>3, AsMany
<1>4. Cardinality(AtWork) = Cardinality(OwnWork)
  <2>1. \A w \in OwnWork : job[w] \in AtWork
    BY DEF Run, AtWork
  <2>2. \A w, v \in OwnWork : job[w] = job[v] => w = v
    BY DEF JobsInv
  <2>3. \A g \in AtWork : \E w \in OwnWork : job[w] = g
    BY DEF Run, AtWork
  <2> HIDE DEF OwnWork
  <2> QED BY <1>f, <2>1, <2>2, <2>3, AsMany
<1>5. DOMAIN queue = OwnQueue \cup LostQueue /\ OwnQueue \cap LostQueue = {}
  BY <1>n DEF LostQueue
<1>6. Holding = OwnWork \cup LostWork /\ OwnWork \cap LostWork = {}
  <2>1. \A w \in Workers : JobFits(w) /\ job[w] \in Handlers \cup {Orphan, Nobody}
    BY DEF JobsInv, TypeOK
  <2>2. Holding \subseteq OwnWork \cup LostWork
    BY <1>n, <2>1 DEF Holding, JobFits, LostWork
  <2>3. OwnWork \cup LostWork \subseteq Holding
    BY <1>n, <2>1 DEF Holding, JobFits, LostWork
  <2> QED BY <1>n, <2>2, <2>3 DEF LostWork
<1> HIDE DEF OwnQueue, OwnWork
<1>9. /\ Cardinality(Waiters) = Cardinality(AtQueue) + Cardinality(AtWork)
      /\ Cardinality(AtQueue) \in Nat /\ Cardinality(AtWork) \in Nat
  BY <1>2, <1>f, Apart
<1>10. /\ Len(queue) = Cardinality(OwnQueue) + Cardinality(LostQueue)
       /\ Cardinality(LostQueue) \in Nat
  BY <1>0, <1>5, <1>f, Apart
<1>11. /\ Cardinality(Holding) = Cardinality(OwnWork) + Cardinality(LostWork)
       /\ Cardinality(LostWork) \in Nat
  BY <1>6, <1>f, Apart
<1>12. LostWork # {} => Cardinality(LostWork) # 0
  BY <1>f, FS_EmptySet
<1> QED BY <1>f, <1>2, <1>3, <1>4, <1>9, <1>10, <1>11, <1>12

\* The work of others and of nobody is the jobs admitted, queued and held.
LEMMA WorkIsJobs ==
    ASSUME TypeOK, JobsInv, NEW h \in Handlers, pc[h] = "acquire"
    PROVE  Cardinality(InTheWay(h)) + Leftover
             = Cardinality(Admitting) + Len(queue) + Cardinality(Holding)
<1>1. InTheWay(h) = Admitting \cup Waiters /\ Admitting \cap Waiters = {}
  BY DEF InTheWay, Admitting, AdmittingStates, Waiters
<1>2. /\ Cardinality(InTheWay(h)) = Cardinality(Admitting) + Cardinality(Waiters)
      /\ Cardinality(Admitting) \in Nat
  BY <1>1, JobsByPlace, Apart
<1>3. Leftover = Cardinality(LostQueue) + Cardinality(LostWork)
  BY DEF Leftover, LostQueue, LostWork
<1> QED BY <1>2, <1>3, JobsByPlace

\* The jobs are in order in every reachable state, whatever panics.
LEMMA JobsInvariant == Spec => []JobsInv
<1>1. PermitInv => TypeOK
  BY DEF PermitInv
<1> QED BY <1>1, JobsInit, JobsStep, PermitInvariant, PTL DEF Spec

\* A handler that waits has exactly one job, queued or in a worker's hands, and
\* no other handler has any, whatever is cancelled and whatever panics
\* (try_enqueue hands the job over; Job.respond is used once).
THEOREM OneJobEach == Spec => []OneJobPerWaiter
<1>1. PermitInv /\ JobsInv => OneJobPerWaiter
  BY JobsAreOne DEF PermitInv
<1> QED BY <1>1, PermitInvariant, JobsInvariant, PTL

\* A request is refused only while Bound permits are with other requests in
\* progress or with work of nobody, for any number of handlers and panics
\* (DEFAULT_QUEUE_BOUND's comment).
THEOREM NeverRefusedBelowBound == Spec => []RefusedOnlyAtBound
<1>1. PermitInv /\ JobsInv => RefusedOnlyAtBound
  <2> SUFFICES ASSUME PermitInv, JobsInv, NEW h \in Handlers,
                      pc[h] = "acquire", permits = 0
               PROVE  Cardinality(InTheWay(h)) + Leftover = Bound
    BY DEF RefusedOnlyAtBound
  <2>1. /\ Cardinality(Admitting) \in Nat /\ Cardinality(Holding) \in Nat
        /\ Len(queue) \in Nat
    BY CountsAreNat DEF PermitInv
  <2>2. permits + Cardinality(Admitting) + Len(queue) + Cardinality(Holding) = Bound
    BY DEF PermitInv, PermitsConserved
  <2>3. Cardinality(InTheWay(h)) + Leftover
          = Cardinality(Admitting) + Len(queue) + Cardinality(Holding)
    BY WorkIsJobs DEF PermitInv
  <2> QED BY <2>1, <2>2, <2>3
<1> QED BY <1>1, PermitInvariant, JobsInvariant, PTL

-----------------------------------------------------------------------------
(* The executor implements BoundedAdmission.                               *)

\* What the refinement mapping makes of a handler, by where it is.
LEMMA StatusOf ==
    /\ AdmissionStatus("idle") = "idle" /\ AdmissionStatus("acquire") = "entering"
    /\ \A s \in AdmittingStates \cup {"awaiting"} : AdmissionStatus(s) = "admitted"
    /\ \A s \in {"uncount", "unstore", "answered"} : AdmissionStatus(s) = "answered"
  BY DEF AdmissionStatus, AdmittingStates

\* The abstract specification counts as this one does.
LEMMA SameCardinality == \A S : Admission!Cardinality(S) = Cardinality(S)
  BY DEF Admission!Cardinality, Cardinality, Admission!IsFiniteSet, IsFiniteSet

\* The invariants the refinement rests on.
AdmissionInv == PermitInv /\ JobsInv /\ (~ForwardMayPanic => CountInv)

\* Who waits in the abstract is on the way into the channel, or in it, or in a
\* worker's hands; what else is admitted is nobody's.
LEMMA LoadByPlace ==
    ASSUME PermitInv, JobsInv
    PROVE  /\ Admission!Waiting = Admitting \cup Waiters
           /\ IsFiniteSet(Admission!Waiting) /\ Cardinality(Admission!Waiting) \in Nat
           /\ Cardinality(Admission!Waiting)
                = Cardinality(Admitting) + Cardinality(AtQueue) + Cardinality(AtWork)
           /\ Bound - permits \in Nat /\ permits \in Nat /\ Bound \in Nat
           /\ Cardinality(Admission!Waiting) <= Bound - permits
           /\ Cardinality(LostWork) > 0 => Bound - permits > Cardinality(Admission!Waiting)
           /\ Bound - (permits + Len(queue))
                \in (Cardinality(Admitting) + Cardinality(AtWork)) .. ((Bound - permits) - Cardinality(AtQueue))
           /\ Cardinality(Admitting) \in Nat /\ Cardinality(AtWork) \in Nat
<1>1. Admission!Waiting = {g \in Handlers : AdmissionStatus(pc[g]) = "admitted"}
  BY DEF Admission!Waiting
<1>2. \A g \in Handlers : pc[g] \in HandlerStates
  BY DEF PermitInv, TypeOK
<1>3. \A s \in HandlerStates : AdmissionStatus(s) = "admitted" <=> s \in AdmittingStates \cup {"awaiting"}
  BY StatusOf DEF HandlerStates, AdmittingStates
<1>4. Admission!Waiting = Admitting \cup Waiters /\ Admitting \cap Waiters = {}
  BY <1>1, <1>2, <1>3 DEF Admitting, Waiters, AdmittingStates
<1>5. IsFiniteSet(Admitting) /\ IsFiniteSet(Waiters)
  BY JobsByPlace DEF PermitInv
<1>6. /\ Cardinality(Admission!Waiting) = Cardinality(Admitting) + Cardinality(Waiters)
      /\ IsFiniteSet(Admission!Waiting)
  BY <1>4, <1>5, Apart, FS_Union
<1>7. /\ Cardinality(Waiters) = Cardinality(AtQueue) + Cardinality(AtWork)
      /\ Cardinality(AtQueue) \in Nat /\ Cardinality(LostQueue) \in Nat
      /\ Cardinality(AtWork) \in Nat /\ Cardinality(LostWork) \in Nat
      /\ Len(queue) = Cardinality(AtQueue) + Cardinality(LostQueue)
      /\ Cardinality(Holding) = Cardinality(AtWork) + Cardinality(LostWork)
  BY JobsByPlace DEF PermitInv
<1>8. /\ Cardinality(Admitting) \in Nat /\ Cardinality(Holding) \in Nat /\ Len(queue) \in Nat
      /\ permits \in Nat /\ Bound \in Nat
      /\ permits + Cardinality(Admitting) + Len(queue) + Cardinality(Holding) = Bound
  BY CountsAreNat, HandoffAssumption DEF HandoffAssumption, PermitInv, TypeOK, PermitsConserved
<1>9. Cardinality(Admission!Waiting)
        = Cardinality(Admitting) + Cardinality(AtQueue) + Cardinality(AtWork)
  BY <1>6, <1>7, <1>8
<1> DEFINE a == Cardinality(Admitting)   q == Len(queue)          t == Cardinality(Holding)
           aq == Cardinality(AtQueue)    at == Cardinality(AtWork)
           lq == Cardinality(LostQueue)  lt == Cardinality(LostWork)
<1>10. /\ a \in Nat /\ q \in Nat /\ t \in Nat /\ permits \in Nat /\ Bound \in Nat
       /\ aq \in Nat /\ lq \in Nat /\ at \in Nat /\ lt \in Nat
       /\ permits + a + q + t = Bound /\ q = aq + lq /\ t = at + lt
       /\ Cardinality(Admission!Waiting) = a + aq + at
  BY <1>7, <1>8, <1>9
<1>11. /\ Bound - permits \in Nat
       /\ Cardinality(Admission!Waiting) \in Nat
       /\ Cardinality(Admission!Waiting) <= Bound - permits
       /\ lt > 0 => Bound - permits > Cardinality(Admission!Waiting)
       /\ Bound - (permits + q) \in (a + at) .. ((Bound - permits) - aq)
  <2> HIDE DEF a, q, t, aq, at, lq, lt
  <2> QED BY <1>10
<1> QED BY <1>4, <1>6, <1>7, <1>8, <1>9, <1>11

\* A handler's move is the move of its status.
LEMMA StatusMoves ==
    ASSUME TypeOK, NEW h \in Handlers, NEW from, NEW to, HandlerStep(h, from, to)
    PROVE  /\ Admission!Moves(h, AdmissionStatus(from), AdmissionStatus(to))
           /\ AdmissionStatus(from) = AdmissionStatus(to) =>
                [g \in Handlers |-> AdmissionStatus(pc'[g])] = [g \in Handlers |-> AdmissionStatus(pc[g])]
  BY DEF TypeOK, HandlerStep, Admission!Moves

\* A step that changes neither permits nor a status is no step of the abstract.
LEMMA Stutters ==
    ASSUME permits' = permits,
           \A g \in Handlers : AdmissionStatus(pc'[g]) = AdmissionStatus(pc[g])
    PROVE  UNCHANGED Admission!vars
  BY DEF Admission!vars

\* Every step of a handler is a step of the abstract, or none.
LEMMA HandlerRefines ==
    ASSUME AdmissionInv, NEW h \in Handlers, HandlerNext(h)
    PROVE  [Admission!Next]_(Admission!vars)
<1>t. TypeOK /\ permits \in Nat /\ Bound \in Nat /\ Bound - permits \in Nat
  BY LoadByPlace DEF AdmissionInv, PermitInv
<1>1. CASE Call(h)
  <2>1. Admission!Enter(h)
    BY <1>1, <1>t, StatusMoves, StatusOf DEF Call, Admission!Enter
  <2> QED BY <2>1 DEF Admission!Next
<1>2. CASE RejectSignal(h)
  <2>1. permits' = permits /\ \A g \in Handlers : pc'[g] = pc[g]
    BY <1>2, <1>t DEF RejectSignal, Finish, HandlerStep, TypeOK
  <2> QED BY <2>1, Stutters
<1>3. CASE AcquirePermit(h)
  <2>1. Admission!Moves(h, "entering", "admitted")
    BY <1>3, <1>t, StatusMoves, StatusOf DEF AcquirePermit, AdmittingStates
  <2>2. permits > 0 /\ permits' = permits - 1
    BY <1>3 DEF AcquirePermit
  <2>3. Admission!Admit(h)
    BY <1>t, <2>1, <2>2 DEF Admission!Admit
  <2> QED BY <2>3 DEF Admission!Next, Admission!Decide
<1>4. CASE NoPermit(h)
  <2>1. Admission!Moves(h, "entering", "idle")
    BY <1>4, <1>t, StatusMoves, StatusOf DEF NoPermit, Finish
  <2>2. permits = 0 /\ permits' = permits
    BY <1>4 DEF NoPermit
  <2>3. Admission!Refuse(h)
    BY <1>t, <2>1, <2>2 DEF Admission!Refuse
  <2> QED BY <2>3 DEF Admission!Next, Admission!Decide
<1>5. CASE CountJob(h) \/ StoreAdmitted(h) \/ RaiseMetricMax(h) \/ RaiseMax(h) \/ Send(h)
  <2>1. permits' = permits /\ \E from, to \in AdmittingStates \cup {"awaiting"} : HandlerStep(h, from, to)
    BY <1>5 DEF CountJob, StoreAdmitted, RaiseMetricMax, RaiseMax, Send, AdmittingStates
  <2>2. \A g \in Handlers : AdmissionStatus(pc'[g]) = AdmissionStatus(pc[g])
    BY <1>t, <2>1, StatusOf DEF HandlerStep, TypeOK
  <2> QED BY <2>1, <2>2, Stutters
<1>6. CASE SendFails(h)
  <2>1. ForwardMayPanic
    <3> SUFFICES ASSUME ~ForwardMayPanic PROVE FALSE
      OBVIOUS
    <3>1. PermitInv /\ CountInv /\ pc[h] = "send"
      BY <1>6 DEF AdmissionInv, SendFails, HandlerStep
    <3>2. Len(queue) < Bound
      BY <3>1, CountWithinBound
    <3>3. Open
      BY <3>1, HandoffAssumption DEF CountInv, Open, HandoffAssumption
    <3> QED BY <1>6, <3>2, <3>3 DEF SendFails
  <2>2. Admission!Moves(h, "admitted", "answered") /\ permits' = permits + 1
    BY <1>6, <1>t, StatusMoves, StatusOf DEF SendFails, AdmittingStates
  <2>3. h \in Admission!Waiting
    BY <2>2 DEF Admission!Waiting, Admission!Moves
  <2>4. /\ IsFiniteSet(Admission!Waiting) /\ Cardinality(Admission!Waiting) \in Nat
        /\ Cardinality(Admission!Waiting) <= Bound - permits
    BY LoadByPlace DEF AdmissionInv
  <2>5. /\ Cardinality(Admission!Waiting \ {h}) = Cardinality(Admission!Waiting) - 1
        /\ Cardinality({h}) = 1
    BY <2>3, <2>4, FS_RemoveElement, FS_Singleton
  <2>6. /\ Cardinality(Admission!Waiting \ {h}) \in Int
        /\ Bound - permits' \in Cardinality(Admission!Waiting \ {h}) .. (Bound - permits) - Cardinality({h})
    BY <1>t, <2>2, <2>4, <2>5
  <2>7. [g \in Handlers |-> AdmissionStatus(pc'[g])]
          = [g \in Handlers |-> IF g \in {h} THEN "answered" ELSE AdmissionStatus(pc[g])]
    BY <2>2 DEF Admission!Moves
  <2>8. Admission!GiveUp({h})
    BY <2>1, <2>6, <2>7, SameCardinality DEF Admission!GiveUp
  <2> QED BY <2>3, <2>8 DEF Admission!Next
<1>7. CASE UncountJob(h)
  <2>1. permits' = permits /\ HandlerStep(h, "uncount", "unstore")
    BY <1>7 DEF UncountJob
  <2>2. \A g \in Handlers : AdmissionStatus(pc'[g]) = AdmissionStatus(pc[g])
    BY <1>t, <2>1, StatusOf DEF HandlerStep, TypeOK
  <2> QED BY <2>1, <2>2, Stutters
<1>8. CASE StoreUncounted(h) \/ Return(h)
  <2>1. permits' = permits /\ (HandlerStep(h, "unstore", "idle") \/ HandlerStep(h, "answered", "idle"))
    BY <1>8 DEF StoreUncounted, Return, Finish
  <2>2. Admission!Moves(h, "answered", "idle")
    BY <1>t, <2>1, StatusMoves, StatusOf
  <2>3. Admission!Leave(h)
    BY <2>1, <2>2 DEF Admission!Leave
  <2> QED BY <2>3 DEF Admission!Next
<1>9. CASE Cancel(h)
  <2>1. permits' = permits /\ (HandlerStep(h, "awaiting", "idle") \/ HandlerStep(h, "answered", "idle"))
    BY <1>9 DEF Cancel, HandlerStep
  <2>2. Admission!Moves(h, "admitted", "idle") \/ Admission!Moves(h, "answered", "idle")
    BY <1>t, <2>1, StatusMoves, StatusOf
  <2>3. Admission!Abandon(h) \/ Admission!Leave(h)
    BY <2>1, <2>2 DEF Admission!Abandon, Admission!Leave
  <2> QED BY <2>3 DEF Admission!Next
<1> QED BY <1>1, <1>2, <1>3, <1>4, <1>5, <1>6, <1>7, <1>8, <1>9 DEF HandlerNext, HandlerProgress

\* What a worker delivers to its job's handler is an answer to who waits, or nothing.
LEMMA DeliveryRefines ==
    ASSUME AdmissionInv, NEW w \in Workers, NEW status, Deliver(HandlersOf({job[w]}), status),
           permits' = permits
    PROVE  [Admission!Next]_(Admission!vars)
<1>t. TypeOK
  BY DEF AdmissionInv, PermitInv
<1>1. CASE \E h \in Handlers : job[w] = h /\ pc[h] = "awaiting"
  <2>1. PICK h \in Handlers : job[w] = h /\ pc[h] = "awaiting"
    BY <1>1
  <2>2. pc' = [g \in Handlers |-> IF g = h THEN "answered" ELSE pc[g]]
    BY <2>1 DEF Deliver, HandlersOf
  <2>3. HandlerStep(h, "awaiting", "answered")
    BY <1>t, <2>1, <2>2 DEF HandlerStep, TypeOK
  <2>4. Admission!Answer(h)
    BY <1>t, <2>3, StatusMoves, StatusOf DEF Admission!Answer
  <2> QED BY <2>4 DEF Admission!Next
<1>2. CASE ~\E h \in Handlers : job[w] = h /\ pc[h] = "awaiting"
  <2>1. \A g \in Handlers : pc'[g] = pc[g]
    BY <1>2 DEF Deliver, HandlersOf
  <2> QED BY <2>1, Stutters
<1> QED BY <1>1, <1>2

\* A worker that lets its job go holds a permit that nobody waits for.
LEMMA ReleaseRefines ==
    ASSUME AdmissionInv, NEW w \in Workers, wpc[w] \in HoldingStates \ {"forward"},
           permits' = permits + 1, pc' = pc
    PROVE  Admission!Next
<1>1. w \in LostWork
  BY DEF AdmissionInv, JobsInv, JobFits, LostWork
<1>2. Bound - permits > Cardinality(Admission!Waiting)
  <2>1. Cardinality(LostWork) > 0
    BY <1>1, JobsByPlace DEF AdmissionInv, PermitInv
  <2> QED BY <2>1, LoadByPlace DEF AdmissionInv
<1>3. Bound - permits' = (Bound - permits) - 1
  BY LoadByPlace DEF AdmissionInv
<1>4. Admission!Release
  BY <1>2, <1>3, SameCardinality DEF Admission!Release, Admission!vars
<1> QED BY <1>4 DEF Admission!Next

\* The last thread out gives up the queued jobs and answers who waits for them.
LEMMA ExitRefines ==
    ASSUME AdmissionInv, NEW w \in Workers, Exit(w)
    PROVE  [Admission!Next]_(Admission!vars)
<1>t. TypeOK
  BY DEF AdmissionInv, PermitInv
<1>1. CASE \A v \in Workers \ {w} : wpc[v] = "dead"
  <2>1. ForwardMayPanic
    BY DEF AdmissionInv, CountInv, Exit, WorkerStep
  <2>2. /\ Deliver(HandlersOf({queue[i] : i \in DOMAIN queue}), "unavailable")
        /\ permits' = permits + Len(queue)
    BY <1>1 DEF Exit
  <2>3. {g \in HandlersOf({queue[i] : i \in DOMAIN queue}) : pc[g] = "awaiting"} = AtQueue
    BY DEF HandlersOf, AtQueue, Queued, AdmissionInv, JobsInv
  <2>4. pc' = [g \in Handlers |-> IF g \in AtQueue THEN "answered" ELSE pc[g]]
    BY <2>2, <2>3 DEF Deliver
  <2>5. [g \in Handlers |-> AdmissionStatus(pc'[g])]
          = [g \in Handlers |-> IF g \in AtQueue THEN "answered" ELSE AdmissionStatus(pc[g])]
    BY <2>4, StatusOf
  <2>6. /\ Admission!Waiting \ AtQueue = Admitting \cup AtWork
        /\ Admitting \cap AtWork = {} /\ AtQueue \subseteq Admission!Waiting
    <3>1. Admission!Waiting = Admitting \cup Waiters
      BY LoadByPlace DEF AdmissionInv
    <3>2. Waiters = AtQueue \cup AtWork /\ AtQueue \cap AtWork = {}
      BY JobsByPlace DEF AdmissionInv, PermitInv
    <3>3. Admitting \cap Waiters = {}
      BY DEF Admitting, Waiters, AdmittingStates
    <3> QED BY <3>1, <3>2, <3>3
  <2>7. Cardinality(Admission!Waiting \ AtQueue) = Cardinality(Admitting) + Cardinality(AtWork)
    <3>1. IsFiniteSet(Admitting) /\ IsFiniteSet(AtWork)
      BY JobsByPlace DEF AdmissionInv, PermitInv
    <3> QED BY <2>6, <3>1, Apart
  <2>8. Bound - permits' \in Cardinality(Admission!Waiting \ AtQueue) .. (Bound - permits) - Cardinality(AtQueue)
    BY <2>2, <2>7, LoadByPlace DEF AdmissionInv
  <2>9. Admission!GiveUp(AtQueue)
    BY <2>1, <2>5, <2>8, SameCardinality DEF Admission!GiveUp
  <2> QED BY <2>6, <2>9 DEF Admission!Next
<1>2. CASE ~\A v \in Workers \ {w} : wpc[v] = "dead"
  <2>1. /\ permits' = permits + Len(<<>>)
        /\ Deliver(HandlersOf({<<>>[i] : i \in DOMAIN <<>>}), "unavailable")
    BY <1>2 DEF Exit
  <2>2. Len(<<>>) = 0 /\ DOMAIN <<>> = {}
    BY EmptySeq
  <2>3. \A g \in Handlers : pc'[g] = pc[g]
    BY <2>1, <2>2 DEF Deliver, HandlersOf
  <2>4. permits' = permits
    BY <1>t, <2>1, <2>2 DEF TypeOK
  <2> QED BY <2>3, <2>4, Stutters
<1> QED BY <1>1, <1>2

\* Every step of a worker is a step of the abstract, or none.
LEMMA WorkerRefines ==
    ASSUME AdmissionInv, NEW w \in Workers, WorkerNext(w)
    PROVE  [Admission!Next]_(Admission!vars)
<1>1. CASE LockReceiver(w) \/ Receive(w) \/ CountDone(w) \/ RecordDone(w)
  <2>1. permits' = permits /\ pc' = pc
    BY <1>1 DEF LockReceiver, Receive, CountDone, RecordDone, handlerVars
  <2> QED BY <2>1, Stutters
<1>2. CASE Respond(w) \/ Panic(w)
  <2>1. permits' = permits /\ \E status : Deliver(HandlersOf({job[w]}), status)
    BY <1>2 DEF Respond, Panic
  <2> QED BY <2>1, DeliveryRefines
<1>3. CASE DropJob(w) \/ UnwindPermit(w)
  <2>1. permits' = permits + 1 /\ pc' = pc /\ wpc[w] \in HoldingStates \ {"forward"}
    BY <1>3 DEF DropJob, UnwindPermit, WorkerStep, HoldingStates, handlerVars
  <2> QED BY <2>1, ReleaseRefines
<1>4. CASE Exit(w)
  BY <1>4, ExitRefines
<1> QED BY <1>1, <1>2, <1>3, <1>4 DEF WorkerNext

\* The executor and its handlers implement BoundedAdmission, panics, cancellation
\* and the loss of every thread included: for any number of them and any bound no
\* behaviour admits beyond the bound, refuses below it, or gives back a unit that
\* somebody waits for (module doc of handoff.rs).
THEOREM AdmissionIsRefined == Spec => AdmissionSafety
<1>1. Init => Admission!Init
  <2> SUFFICES ASSUME Init PROVE Admission!Init
    OBVIOUS
  <2>1. Bound - permits = 0
    BY HandoffAssumption DEF HandoffAssumption, Init
  <2>2. [h \in Handlers |-> AdmissionStatus(pc[h])] = [h \in Handlers |-> "idle"]
    BY StatusOf DEF Init
  <2> QED BY <2>1, <2>2 DEF Admission!Init
<1>2. AdmissionInv /\ [Next]_vars => [Admission!Next]_(Admission!vars)
  <2> SUFFICES ASSUME AdmissionInv, [Next]_vars PROVE [Admission!Next]_(Admission!vars)
    OBVIOUS
  <2>1. CASE UNCHANGED vars
    <3>1. permits' = permits /\ pc' = pc
      BY <2>1 DEF vars, handlerVars
    <3> QED BY <3>1, Stutters
  <2> QED BY <2>1, HandlerRefines, WorkerRefines DEF Next
<1>3. Spec => [](~ForwardMayPanic => CountInv)
  <2>1. CASE ForwardMayPanic
    <3>1. ~ForwardMayPanic => CountInv
      BY <2>1
    <3> QED BY <3>1, PTL
  <2>2. CASE ~ForwardMayPanic
    <3>1. CountInv => (~ForwardMayPanic => CountInv)
      OBVIOUS
    <3> QED BY <2>2, <3>1, CountInvariant, PTL
  <2> QED BY <2>1, <2>2
<1> QED BY <1>1, <1>2, <1>3, PermitInvariant, JobsInvariant, PTL DEF Spec, AdmissionInv, AdmissionSafety
=============================================================================
