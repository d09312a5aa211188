---------------------------- MODULE ProbeProofs ----------------------------
(***************************************************************************)
(* The probe, proved for every rate, duration, limit, threshold and number *)
(* of workers and rows.                                                    *)
(*                                                                         *)
(* The open loop: neither InFlightBounded nor Accounted is inductive       *)
(* alone, for a slot must not have been used before the loop reaches it,   *)
(* and the loop must stop at the last slot.  LoopInv adds both.            *)
(***************************************************************************)
EXTENDS MCProbe, ThreadCount, WellFoundedInduction

LoopInv ==
    /\ TypeOK
    /\ InFlightBounded
    /\ Accounted
    /\ \A s \in Slots : s >= slot => task[s] = "none"
    /\ pc \in {"sleep", "join", "clock", "decide"} => slot < OfferedSlots
    /\ pc \in {"drain", "done"} => slot = OfferedSlots
    /\ pc = "done" => Unjoined = {}

InFlightStates == {"spawned", "running", "resolved"}
UnjoinedStates == {"spawned", "running", "resolved", "finished"}

\* The schedule has a natural number of slots, and there is at least one.
LEMMA SlotsAreNat ==
    /\ OfferedSlots \in Nat \ {0}
    /\ IsFiniteSet(Slots) /\ Slots = {s \in Nat : s < OfferedSlots}
    /\ LastTick \in Nat /\ Deadline \in Nat
<1>1. /\ Numerator \in Nat \ {0} /\ Denominator \in Nat \ {0}
      /\ Duration \in Nat \ {0} /\ TicksPerSecond \in Nat \ {0} /\ LateAfter \in Nat
  BY OpenLoopAssumption DEF OpenLoopAssumption
<1> DEFINE load == Duration * Numerator
<1>2. load \in Nat \ {0}
  BY <1>1
<1>3. OfferedSlots = (load + Denominator - 1) \div Denominator
  BY DEF OfferedSlots, SlotsFor, Rate
<1> HIDE DEF load
<1>4. OfferedSlots \in Nat \ {0}
  BY <1>1, <1>2, <1>3
<1>5. IsFiniteSet(Slots)
  BY <1>4, FS_Interval DEF Slots
<1>6. Deadline \in Nat /\ LastTick \in Nat
  BY <1>1 DEF Deadline, LastTick
<1> QED BY <1>4, <1>5, <1>6 DEF Slots

MovesTask(s, to) == task' = [task EXCEPT ![s] = to]

\* What the move of one RPC task does to the tasks in flight and unjoined.
LEMMA TaskMove ==
    ASSUME task \in [Slots -> TaskStates], NEW s \in Slots, NEW to \in TaskStates,
           MovesTask(s, to)
    PROVE  /\ task' \in [Slots -> TaskStates]
           /\ Cardinality(InFlight) \in Nat /\ Cardinality(InFlight') \in Nat
           /\ Cardinality(Unjoined) \in Nat /\ Cardinality(Unjoined') \in Nat
           /\ Cardinality(InFlight') + Bit(task[s] \in InFlightStates)
                = Cardinality(InFlight) + Bit(to \in InFlightStates)
           /\ Cardinality(Unjoined') + Bit(task[s] \in UnjoinedStates)
                = Cardinality(Unjoined) + Bit(to \in UnjoinedStates)
<1>1. /\ IsFiniteSet(Slots) /\ task' \in [Slots -> TaskStates]
      /\ task'[s] = to /\ \A d \in Slots \ {s} : task'[d] = task[d]
  BY SlotsAreNat DEF MovesTask
<1>2. ASSUME NEW S
      PROVE  /\ CountIn(task, Slots, S) \in Nat /\ CountIn(task', Slots, S) \in Nat
             /\ CountIn(task', Slots, S) + Bit(task[s] \in S)
                  = CountIn(task, Slots, S) + Bit(to \in S)
  BY <1>1, CountIsNat, MoveCount
<1>3. /\ Cardinality(InFlight) = CountIn(task, Slots, InFlightStates)
      /\ Cardinality(InFlight') = CountIn(task', Slots, InFlightStates)
      /\ Cardinality(Unjoined) = CountIn(task, Slots, UnjoinedStates)
      /\ Cardinality(Unjoined') = CountIn(task', Slots, UnjoinedStates)
  BY DEF CountIn, InFlight, Unjoined, InFlightStates, UnjoinedStates
<1> QED BY <1>1, <1>2, <1>3

\* Plus adds one to the named counters and keeps the others.
LEMMA PlusType ==
    ASSUME res \in [Counters -> Nat], NEW cs
    PROVE  /\ Plus(cs) \in [Counters -> Nat]
           /\ \A c \in Counters : Plus(cs)[c] = IF c \in cs THEN res[c] + 1 ELSE res[c]
BY DEF Plus

\* Nothing is scheduled yet.
LEMMA LoopInit == Init => LoopInv
<1> SUFFICES ASSUME Init PROVE LoopInv
  OBVIOUS
<1>1. TypeOK
  BY SlotsAreNat, OpenLoopAssumption
  DEF OpenLoopAssumption, Init, TypeOK, TaskStates, Statuses
<1>2. InFlight = {} /\ Unjoined = {}
  BY DEF Init, InFlight, Unjoined
<1>3. Cardinality(InFlight) = 0 /\ Cardinality(Unjoined) = 0
  BY <1>2, FS_EmptySet
<1>4. InFlightBounded
  BY <1>3, OpenLoopAssumption DEF OpenLoopAssumption, Init, InFlightBounded
<1>5. Accounted
  BY <1>3 DEF Init, Accounted, Counters
<1> QED BY <1>1, <1>4, <1>5, SlotsAreNat DEF Init, LoopInv

\* Steps that move neither a task nor a counter of Accounted.
LEMMA QuietStep ==
    ASSUME LoopInv, UNCHANGED <<task, permits, slot>>, TypeOK',
           \A c \in Counters \ {"dispatch_late"} : res'[c] = res[c],
           pc' \in {"sleep", "join", "clock", "decide"} <=>
              pc \in {"sleep", "join", "clock", "decide"},
           pc' = "done" => pc = "done" \/ Unjoined = {}
    PROVE  LoopInv'
<1>1. InFlight' = InFlight /\ Unjoined' = Unjoined
  BY DEF InFlight, Unjoined
<1>2. Accounted'
  BY <1>1 DEF LoopInv, Accounted, Counters
<1>3. InFlightBounded'
  BY <1>1 DEF LoopInv, InFlightBounded
<1> QED BY <1>1, <1>2, <1>3 DEF LoopInv, TypeOK

\* A task that moves on between two states in flight, or ends.
LEMMA TaskStepKeeps ==
    ASSUME LoopInv, NEW s \in Slots, Task(s) \/ Answer(s)
    PROVE  LoopInv'
<1>n. /\ MaxInFlight \in Nat /\ RpcTimeout \in Nat /\ TypeOK
      /\ Cardinality(InFlight) \in Nat
      /\ permits \in Nat /\ permits + Cardinality(InFlight) = MaxInFlight
  <2>1. Cardinality(InFlight) \in Nat
    BY SlotsAreNat, FS_Subset, FS_CardinalityType DEF InFlight
  <2> QED BY <2>1, OpenLoopAssumption DEF OpenLoopAssumption, LoopInv, InFlightBounded, TypeOK
<1>1. PICK from \in {"spawned", "running", "resolved"},
           to \in {"running", "resolved", "finished"} : TaskStep(s, from, to)
  BY DEF Task, Answer, Start, TimeOut, Finish
<1>2. /\ MovesTask(s, to) /\ task[s] = from /\ to \in TaskStates
      /\ task' = [task EXCEPT ![s] = to]
  BY <1>1 DEF MovesTask, TaskStep, TaskStates
<1>3. /\ Cardinality(InFlight') \in Nat
      /\ Cardinality(InFlight') + Bit(from \in InFlightStates)
           = Cardinality(InFlight) + Bit(to \in InFlightStates)
      /\ Cardinality(Unjoined') + Bit(from \in UnjoinedStates)
           = Cardinality(Unjoined) + Bit(to \in UnjoinedStates)
      /\ Cardinality(Unjoined) \in Nat /\ Cardinality(Unjoined') \in Nat
      /\ task' \in [Slots -> TaskStates]
  BY <1>n, <1>2, TaskMove DEF TypeOK
<1>4. UNCHANGED dispatcherVars
  BY DEF Task, Answer, Start, TimeOut, Finish
<1>5. Cardinality(Unjoined') = Cardinality(Unjoined)
  BY <1>3 DEF UnjoinedStates, Bit
<1>6. InFlightBounded' /\ permits' \in 0 .. MaxInFlight
  <2>1. CASE Start(s)
    <3>1. to = "running" /\ permits' = permits
      BY <1>n, <1>2, <2>1 DEF Start, TaskStep, TypeOK
    <3>2. Cardinality(InFlight') = Cardinality(InFlight)
      BY <1>n, <1>3, <3>1 DEF InFlightStates, Bit
    <3> QED BY <1>n, <1>3, <3>1, <3>2 DEF InFlightBounded
  <2>2. CASE TimeOut(s) \/ Answer(s)
    <3>1. to = "resolved" /\ permits' = permits
      BY <1>n, <1>2, <2>2 DEF TimeOut, Answer, TaskStep, TypeOK
    <3>2. Cardinality(InFlight') = Cardinality(InFlight)
      BY <1>n, <1>3, <3>1 DEF InFlightStates, Bit
    <3> QED BY <1>n, <1>3, <3>1, <3>2 DEF InFlightBounded
  <2>3. CASE Finish(s)
    <3>1. to = "finished" /\ permits' = permits + 1
      BY <1>n, <1>2, <2>3 DEF Finish, TaskStep, TypeOK
    <3>2. Cardinality(InFlight') + 1 = Cardinality(InFlight)
      BY <1>n, <1>3, <3>1 DEF InFlightStates, Bit
    <3> QED BY <1>n, <1>3, <3>1, <3>2 DEF InFlightBounded
  <2> QED BY <2>1, <2>2, <2>3 DEF Task
<1>7. TypeOK'
  <2>1. /\ now' = now /\ age' \in [Slots -> 0 .. RpcTimeout]
        /\ status' \in [Slots -> Statuses] /\ inTime' \in [Slots -> BOOLEAN]
    <3>1. CASE Start(s)
      BY <1>n, <3>1 DEF Start, TypeOK, clockVars
    <3>2. CASE TimeOut(s)
      BY <1>n, <3>2 DEF TimeOut, TypeOK, Statuses
    <3>3. CASE Answer(s)
      BY <1>n, <3>3 DEF Answer, TypeOK, Statuses
    <3>4. CASE Finish(s)
      BY <1>n, <3>4 DEF Finish, TypeOK, clockVars
    <3> QED BY <3>1, <3>2, <3>3, <3>4 DEF Task
  <2> QED BY <1>n, <1>3, <1>4, <1>6, <2>1 DEF TypeOK, dispatcherVars
<1>8. Accounted'
  BY <1>4, <1>5 DEF LoopInv, Accounted, dispatcherVars
<1>9. pc # "done"
  BY <1>2 DEF LoopInv, Unjoined
<1>10. \A t \in Slots : t >= slot' => task'[t] = "none"
  <2>1. \A t \in Slots : t >= slot => task[t] = "none"
    BY DEF LoopInv
  <2>2. \A t \in Slots : t >= slot => t # s
    BY <1>2, <2>1
  <2> QED BY <1>2, <1>4, <2>1, <2>2 DEF dispatcherVars
<1> QED BY <1>4, <1>6, <1>7, <1>8, <1>9, <1>10 DEF LoopInv, dispatcherVars

\* record_completion moves one task from finished to joined and one unit from
\* the tasks to the completed.
LEMMA JoinKeeps ==
    ASSUME LoopInv, NEW s \in Slots, Join(s)
    PROVE  LoopInv'
<1>1. /\ MovesTask(s, "joined") /\ task[s] = "finished" /\ "joined" \in TaskStates
      /\ task' = [task EXCEPT ![s] = "joined"] /\ TypeOK /\ task \in [Slots -> TaskStates]
  BY DEF Join, MovesTask, TaskStates, LoopInv, TypeOK
<1>2. /\ Cardinality(InFlight') = Cardinality(InFlight)
      /\ Cardinality(Unjoined') + 1 = Cardinality(Unjoined)
      /\ Cardinality(Unjoined') \in Nat
      /\ task' \in [Slots -> TaskStates]
  BY <1>1, TaskMove DEF InFlightStates, UnjoinedStates, Bit
<1> DEFINE cs == {"completed", IF inTime[s] THEN "within" ELSE "after"}
                   \cup IF inTime[s] /\ status[s] = "OK" THEN {"ok_within"} ELSE {}
<1>3. /\ res' \in [Counters -> Nat]
      /\ \A c \in Counters : res'[c] = IF c \in cs THEN res[c] + 1 ELSE res[c]
  BY <1>1, PlusType DEF Join, TypeOK
<1>4. /\ res'["completed"] = res["completed"] + 1
      /\ res'["within"] + res'["after"] = res["within"] + res["after"] + 1
      /\ \A c \in {"initiated", "dropped_in_flight_limit", "dropped_schedule_late"} :
            res'[c] = res[c]
  <2>1. /\ res["within"] \in Nat /\ res["after"] \in Nat
    BY <1>1 DEF TypeOK, Counters
  <2> QED BY <1>3, <2>1 DEF Counters
<1>5. UNCHANGED <<clockVars, status, inTime, permits, pc, slot, dispatched,
                  lateSlots, lostSlots>>
  BY DEF Join
<1>6. TypeOK'
  BY <1>1, <1>2, <1>3, <1>5 DEF TypeOK, clockVars
<1>7. InFlightBounded'
  BY <1>2, <1>5 DEF LoopInv, InFlightBounded
<1>8. Accounted'
  <2>1. Accounted /\ \A c \in Counters : res[c] \in Nat
    BY <1>1 DEF LoopInv, TypeOK
  <2> QED BY <1>2, <1>4, <1>5, <2>1 DEF Accounted, Counters
<1>9. pc # "done"
  BY DEF Join
<1>10. \A t \in Slots : t >= slot' => task'[t] = "none"
  <2>1. \A t \in Slots : t >= slot => task[t] = "none" /\ t # s
    BY <1>1 DEF LoopInv
  <2> QED BY <1>1, <1>5, <2>1
<1> QED BY <1>5, <1>6, <1>7, <1>8, <1>9, <1>10 DEF LoopInv

\* The steps of the clock and of the loop that decide nothing of a slot.
LEMMA ClockKeeps ==
    ASSUME LoopInv, Tick \/ Wake \/ NothingToJoin \/ ReadClock
    PROVE  LoopInv'
<1>n. /\ TypeOK /\ LastTick \in Nat /\ RpcTimeout \in Nat
      /\ UNCHANGED <<task, permits, slot>>
  BY SlotsAreNat, OpenLoopAssumption
  DEF OpenLoopAssumption, LoopInv, Tick, Wake, NothingToJoin, ReadClock, taskVars,
      dispatcherVars
<1>1. CASE Tick
  <2>1. now' \in 0 .. LastTick /\ age' \in [Slots -> 0 .. RpcTimeout]
    BY <1>n, <1>1 DEF Tick, TypeOK
  <2>2. TypeOK'
    BY <1>n, <1>1, <2>1 DEF Tick, TypeOK, taskVars, dispatcherVars
  <2> QED BY <1>n, <1>1, <2>2, QuietStep DEF Tick, taskVars, dispatcherVars
<1>2. CASE Wake
  <2>1. TypeOK'
    BY <1>n, <1>2 DEF Wake, TypeOK, taskVars, clockVars
  <2> QED BY <1>n, <1>2, <2>1, QuietStep DEF Wake
<1>3. CASE NothingToJoin
  <2>1. TypeOK'
    BY <1>n, <1>3 DEF NothingToJoin, TypeOK, taskVars, clockVars
  <2> QED BY <1>n, <1>3, <2>1, QuietStep DEF NothingToJoin
<1>4. CASE ReadClock
  <2> DEFINE late == now - Scheduled(slot) > LateAfter
             cs == IF late THEN {"dispatch_late"} ELSE {}
  <2>1. res' = Plus(cs) /\ lateSlots' = IF late THEN lateSlots \cup {slot} ELSE lateSlots
    BY <1>4 DEF ReadClock
  <2>2. /\ res' \in [Counters -> Nat]
        /\ \A c \in Counters : res'[c] = IF c \in cs THEN res[c] + 1 ELSE res[c]
    BY <1>n, <2>1, PlusType DEF TypeOK
  <2>3. slot \in Slots
    BY <1>n, <1>4, SlotsAreNat DEF ReadClock, LoopInv, TypeOK
  <2>4. lateSlots' \subseteq Slots
    BY <1>n, <2>1, <2>3 DEF TypeOK
  <2>5. TypeOK'
    BY <1>n, <1>4, <2>2, <2>4 DEF ReadClock, TypeOK, taskVars, clockVars
  <2>6. \A c \in Counters \ {"dispatch_late"} : res'[c] = res[c]
    BY <2>2
  <2> QED BY <1>n, <1>4, <2>5, <2>6, QuietStep DEF ReadClock
<1> QED BY <1>1, <1>2, <1>3, <1>4

\* A dropped slot is counted in one of the two drop counters, and no task moves.
LEMMA DropKeeps ==
    ASSUME LoopInv, DropScheduleLate \/ DropInFlightLimit
    PROVE  LoopInv'
<1>1. PICK c \in {"dropped_in_flight_limit", "dropped_schedule_late"} : res' = Plus({c})
  BY DEF DropScheduleLate, DropInFlightLimit
<1>2. /\ UNCHANGED <<clockVars, taskVars, lateSlots>>
      /\ lostSlots' = lostSlots \cup {slot} /\ NextSlot /\ pc = "decide"
  BY DEF DropScheduleLate, DropInFlightLimit
<1>3. /\ TypeOK /\ slot \in Slots /\ OfferedSlots \in Nat /\ LastTick \in Nat
      /\ \A t \in Slots : t >= slot => task[t] = "none"
  BY <1>2, SlotsAreNat DEF LoopInv, TypeOK
<1>4. /\ res' \in [Counters -> Nat]
      /\ \A d \in Counters : res'[d] = IF d = c THEN res[d] + 1 ELSE res[d]
  BY <1>1, <1>3, PlusType DEF TypeOK
<1>5. /\ slot' = slot + 1 /\ slot' \in 0 .. OfferedSlots /\ dispatched' = 0
      /\ pc' = (IF slot' < OfferedSlots THEN "sleep" ELSE "drain")
  BY <1>2, <1>3, SlotsAreNat DEF NextSlot
<1>6. TypeOK'
  BY <1>2, <1>3, <1>4, <1>5 DEF TypeOK, clockVars, taskVars
<1>7. InFlight' = InFlight /\ Unjoined' = Unjoined
  BY <1>2 DEF InFlight, Unjoined, taskVars
<1>8. InFlightBounded'
  BY <1>2, <1>7 DEF LoopInv, InFlightBounded, taskVars
<1>9. Accounted'
  <2>1. Accounted /\ \A d \in Counters : res[d] \in Nat
    BY <1>3 DEF LoopInv, TypeOK
  <2>2. slot' = res'["initiated"] + res'["dropped_in_flight_limit"]
                                  + res'["dropped_schedule_late"]
    BY <1>3, <1>4, <1>5, <2>1 DEF Accounted, Counters
  <2> QED BY <1>4, <1>7, <2>1, <2>2 DEF Accounted, Counters
<1>10. \A t \in Slots : t >= slot' => task'[t] = "none"
  BY <1>2, <1>3, <1>5, SlotsAreNat DEF taskVars
<1> QED BY <1>3, <1>5, <1>6, <1>8, <1>9, <1>10 DEF LoopInv

\* An initiated slot takes one permit into a task that was not used before.
LEMMA InitiateKeeps ==
    ASSUME LoopInv, Initiate
    PROVE  LoopInv'
<1>1. /\ TypeOK /\ slot \in Slots /\ OfferedSlots \in Nat
      /\ \A t \in Slots : t >= slot => task[t] = "none"
  BY SlotsAreNat DEF LoopInv, TypeOK, Initiate
<1>2. /\ MovesTask(slot, "spawned") /\ task[slot] = "none" /\ "spawned" \in TaskStates
      /\ task' = [task EXCEPT ![slot] = "spawned"]
      /\ task \in [Slots -> TaskStates]
  BY <1>1, SlotsAreNat DEF Initiate, MovesTask, TaskStates, TypeOK
<1>3. /\ Cardinality(InFlight) \in Nat
      /\ Cardinality(InFlight') = Cardinality(InFlight) + 1
      /\ Cardinality(Unjoined) \in Nat
      /\ Cardinality(Unjoined') = Cardinality(Unjoined) + 1
      /\ task' \in [Slots -> TaskStates]
  BY <1>1, <1>2, TaskMove DEF InFlightStates, UnjoinedStates, Bit
<1>4. /\ permits > 0 /\ permits' = permits - 1 /\ NextSlot
      /\ UNCHANGED <<clockVars, status, inTime, lateSlots, lostSlots>>
  BY DEF Initiate
<1> DEFINE cs == {"initiated"} \cup IF IsLate THEN {"initiated_late"} ELSE {}
<1>5. /\ res' \in [Counters -> Nat]
      /\ \A c \in Counters : res'[c] = IF c \in cs THEN res[c] + 1 ELSE res[c]
  BY <1>1, PlusType DEF Initiate, TypeOK
<1>6. /\ res'["initiated"] = res["initiated"] + 1
      /\ \A c \in Counters \ {"initiated", "initiated_late"} : res'[c] = res[c]
  BY <1>5 DEF Counters
<1>7. /\ slot' = slot + 1 /\ slot' \in 0 .. OfferedSlots /\ dispatched' = 0
      /\ pc' = (IF slot' < OfferedSlots THEN "sleep" ELSE "drain")
  BY <1>1, <1>4, SlotsAreNat DEF NextSlot
<1>8. permits' \in 0 .. MaxInFlight
  BY <1>1, <1>4, OpenLoopAssumption DEF OpenLoopAssumption, TypeOK
<1>9. TypeOK'
  BY <1>1, <1>3, <1>4, <1>5, <1>7, <1>8, SlotsAreNat DEF TypeOK, clockVars
<1>10. InFlightBounded'
  <2>1. /\ permits \in Nat /\ MaxInFlight \in Nat
        /\ permits + Cardinality(InFlight) = MaxInFlight
    BY <1>1, OpenLoopAssumption DEF OpenLoopAssumption, LoopInv, InFlightBounded, TypeOK
  <2> QED BY <1>3, <1>4, <2>1 DEF InFlightBounded
<1>11. Accounted'
  <2>1. Accounted /\ \A d \in Counters : res[d] \in Nat
    BY <1>1 DEF LoopInv, TypeOK
  <2>2. slot' = res'["initiated"] + res'["dropped_in_flight_limit"]
                                  + res'["dropped_schedule_late"]
    BY <1>1, <1>6, <1>7, <2>1 DEF Accounted, Counters
  <2>3. res'["initiated"] = res'["completed"] + Cardinality(Unjoined')
    BY <1>3, <1>6, <2>1 DEF Accounted, Counters
  <2> QED BY <1>6, <2>1, <2>2, <2>3 DEF Accounted, Counters
<1>12. \A t \in Slots : t >= slot' => task'[t] = "none"
  <2>1. \A t \in Slots : t >= slot' => t # slot /\ t >= slot
    BY <1>1, <1>7, SlotsAreNat
  <2> QED BY <1>1, <1>2, <2>1
<1> QED BY <1>1, <1>7, <1>9, <1>10, <1>11, <1>12 DEF LoopInv

\* At the report every task is joined.
LEMMA FinalizeKeeps ==
    ASSUME LoopInv, Finalize
    PROVE  LoopInv'
<1>1. TypeOK /\ UNCHANGED <<clockVars, taskVars, slot, dispatched, res, lateSlots, lostSlots>>
  BY DEF LoopInv, Finalize
<1>2. Unjoined = {}
  BY DEF Finalize, Unjoined
<1>3. TypeOK'
  BY <1>1 DEF Finalize, TypeOK, clockVars, taskVars
<1> QED BY <1>1, <1>2, <1>3, QuietStep DEF Finalize, taskVars

\* LoopInv is inductive.
LEMMA LoopStep == LoopInv /\ [Next]_vars => LoopInv'
<1> SUFFICES ASSUME LoopInv, [Next]_vars PROVE LoopInv'
  OBVIOUS
<1>1. CASE Tick \/ Wake \/ NothingToJoin \/ ReadClock
  BY <1>1, ClockKeeps
<1>2. CASE DropScheduleLate \/ DropInFlightLimit
  BY <1>2, DropKeeps
<1>3. CASE Initiate
  BY <1>3, InitiateKeeps
<1>4. CASE Finalize
  BY <1>4, FinalizeKeeps
<1>5. CASE \E s \in Slots : Join(s)
  BY <1>5, JoinKeeps
<1>6. CASE \E s \in Slots : Task(s) \/ Answer(s)
  BY <1>6, TaskStepKeeps
<1>7. CASE UNCHANGED vars
  BY <1>7 DEF vars, clockVars, taskVars, dispatcherVars, LoopInv, TypeOK, InFlightBounded,
              Accounted, InFlight, Unjoined
<1> QED BY <1>1, <1>2, <1>3, <1>4, <1>5, <1>6, <1>7 DEF Next, Dispatcher

\* The inductive invariant of the probe.
THEOREM LoopInvariant == Spec => []LoopInv
BY LoopInit, LoopStep, PTL DEF Spec

\* Every variable of the probe keeps its type: permits, for one, never exceeds
\* max_in_flight (run_open_loop: the permit moves into the spawned task).
THEOREM ProbeTypeCorrect == Spec => []TypeOK
<1>1. LoopInv => TypeOK
  BY DEF LoopInv
<1> QED BY <1>1, LoopInvariant, PTL

\* The semaphore bounds the RPCs out, whatever they do and in whatever order
\* they end (run_open_loop, try_acquire_owned and _permit).
THEOREM InFlightAlwaysBounded == Spec => []InFlightBounded
<1>1. LoopInv => InFlightBounded
  BY DEF LoopInv
<1> QED BY <1>1, LoopInvariant, PTL

\* The counters of OpenLoopResults add up at every step, not only at the end.
THEOREM AlwaysAccounted == Spec => []Accounted
<1>1. LoopInv => Accounted
  BY DEF LoopInv
<1> QED BY <1>1, LoopInvariant, PTL

\* The three assertions of OpenLoopResults::finalize cannot fail, for any rate,
\* duration, in-flight limit and any order of answers.
THEOREM FinalizeNeverPanics == Spec => []FinalizeHolds
<1>1. LoopInv => FinalizeHolds
  <2> SUFFICES ASSUME LoopInv, pc = "done" PROVE FinalizeHolds
    BY DEF FinalizeHolds
  <2>1. Unjoined = {} /\ slot = OfferedSlots /\ Accounted /\ TypeOK
    BY DEF LoopInv
  <2>2. Cardinality(Unjoined) = 0 /\ \A c \in Counters : res[c] \in Nat
    BY <2>1, FS_EmptySet DEF TypeOK
  <2> QED BY <2>1, <2>2 DEF Accounted, FinalizeHolds, Counters
<1> QED BY <1>1, LoopInvariant, PTL

-----------------------------------------------------------------------------
(* The slots that were late or lost.                                       *)

\* Those of the slots passed, and what is counted of them.
Missed == (lateSlots \cup lostSlots) \ {slot}
MissedCount ==
    res["dropped_in_flight_limit"] + res["dropped_schedule_late"] + res["initiated_late"]

\* With LoopInv inductive: the slots passed are counted once each, and the one at
\* hand is noted as late, between the reading of the clock and the decision,
\* exactly if the decision will see it as late.
MissedInv ==
    /\ \A s \in lateSlots \cup lostSlots : s <= slot
    /\ slot \notin lostSlots
    /\ slot \in lateSlots <=> pc = "decide" /\ IsLate
    /\ Cardinality(Missed) = MissedCount

\* No slot is missed before the first.
LEMMA MissedInit == Init => MissedInv
<1> SUFFICES ASSUME Init PROVE MissedInv
  OBVIOUS
<1>1. Missed = {} /\ MissedCount = 0
  BY DEF Init, Missed, MissedCount, Counters
<1>2. Cardinality(Missed) = 0
  BY <1>1, FS_EmptySet
<1> QED BY <1>1, <1>2 DEF Init, MissedInv

\* A step that passes no slot and counts none of them.
LEMMA MissedQuiet ==
    ASSUME MissedInv, UNCHANGED <<slot, lateSlots, lostSlots, dispatched>>,
           pc' = "decide" <=> pc = "decide",
           MissedCount' = MissedCount
    PROVE  MissedInv'
<1>1. IsLate' <=> IsLate
  BY DEF IsLate, Lag, Scheduled
<1>2. Missed' = Missed
  BY DEF Missed
<1> QED BY <1>1, <1>2 DEF MissedInv

\* The clock is read: the slot at hand is late or it is not.
LEMMA MissedReadClock ==
    ASSUME MissedInv, LoopInv, ReadClock
    PROVE  MissedInv'
<1> DEFINE late == now - Scheduled(slot) > LateAfter
<1>1. /\ slot' = slot /\ lostSlots' = lostSlots /\ pc' = "decide" /\ pc # "decide"
      /\ dispatched' = now
      /\ lateSlots' = IF late THEN lateSlots \cup {slot} ELSE lateSlots
      /\ res' = Plus(IF late THEN {"dispatch_late"} ELSE {})
  BY DEF ReadClock
<1>2. slot \in Nat
  BY SlotsAreNat DEF LoopInv, TypeOK
<1>3. IsLate' <=> late
  BY <1>1 DEF IsLate, Lag, Scheduled
<1>4. MissedCount' = MissedCount
  BY <1>1, PlusType DEF LoopInv, TypeOK, MissedCount, Counters
<1>5. slot \notin lateSlots
  BY <1>1 DEF MissedInv
<1>6. Missed' = Missed
  BY <1>1 DEF Missed
<1> HIDE DEF late
<1>7. slot' \in lateSlots' <=> IsLate'
  BY <1>1, <1>3, <1>5
<1>8. \A s \in lateSlots' \cup lostSlots' : s <= slot'
  BY <1>1, <1>2 DEF MissedInv
<1> QED BY <1>1, <1>4, <1>6, <1>7, <1>8 DEF MissedInv

\* The slot at hand is passed: noted or not, and counted accordingly.
LEMMA MissedPass ==
    ASSUME MissedInv, LoopInv, pc = "decide", slot' = slot + 1, pc' # "decide",
           lateSlots' = lateSlots,
           NEW missed \in BOOLEAN,
           lateSlots' \cup lostSlots' = IF missed THEN Missed \cup {slot} ELSE Missed,
           MissedCount' = IF missed THEN MissedCount + 1 ELSE MissedCount
    PROVE  MissedInv'
<1>1. /\ slot \in Nat /\ IsFiniteSet(Missed) /\ slot \notin Missed
  <2>1. Missed \subseteq Slots
    BY DEF Missed, LoopInv, TypeOK
  <2>2. IsFiniteSet(Missed)
    BY <2>1, SlotsAreNat, FS_Subset
  <2>3. slot \in Nat
    BY SlotsAreNat DEF LoopInv, TypeOK
  <2> QED BY <2>2, <2>3 DEF Missed
<1>2. \A s \in lateSlots' \cup lostSlots' : s <= slot /\ s \in Nat
  <2>1. \A s \in lateSlots \cup lostSlots : s <= slot /\ s \in Nat
    BY SlotsAreNat DEF MissedInv, LoopInv, TypeOK
  <2> QED BY <1>1, <2>1 DEF Missed
<1>3. slot' \notin lateSlots' \cup lostSlots'
  BY <1>1, <1>2
<1>4. Missed' = lateSlots' \cup lostSlots'
  BY <1>3 DEF Missed
<1>5. Cardinality(Missed') = IF missed THEN Cardinality(Missed) + 1 ELSE Cardinality(Missed)
  BY <1>1, <1>4, FS_AddElement
<1>6. Cardinality(Missed) = MissedCount
  BY DEF MissedInv
<1>7. \A s \in lateSlots' \cup lostSlots' : s <= slot'
  BY <1>1, <1>2
<1> QED BY <1>3, <1>5, <1>6, <1>7 DEF MissedInv

\* A slot that is dropped is missed, late or not, and counted as dropped.
LEMMA MissedDrop ==
    ASSUME MissedInv, LoopInv, DropScheduleLate \/ DropInFlightLimit
    PROVE  MissedInv'
<1>1. PICK c \in {"dropped_in_flight_limit", "dropped_schedule_late"} : res' = Plus({c})
  BY DEF DropScheduleLate, DropInFlightLimit
<1>2. /\ pc = "decide" /\ NextSlot /\ lateSlots' = lateSlots
      /\ lostSlots' = lostSlots \cup {slot}
  BY DEF DropScheduleLate, DropInFlightLimit
<1>3. MissedCount' = MissedCount + 1
  <2>1. \A d \in Counters : res'[d] = IF d = c THEN res[d] + 1 ELSE res[d]
    BY <1>1, PlusType DEF LoopInv, TypeOK
  <2>2. /\ res["dropped_in_flight_limit"] \in Nat /\ res["dropped_schedule_late"] \in Nat
        /\ res["initiated_late"] \in Nat
    BY DEF LoopInv, TypeOK, Counters
  <2> QED BY <2>1, <2>2 DEF MissedCount, Counters
<1>4. lateSlots' \cup lostSlots' = Missed \cup {slot}
  BY <1>2 DEF Missed
<1> QED BY <1>2, <1>3, <1>4, MissedPass DEF NextSlot

\* An initiated slot is missed exactly if it is counted as initiated late.
LEMMA MissedInitiate ==
    ASSUME MissedInv, LoopInv, Initiate
    PROVE  MissedInv'
<1> DEFINE late == IsLate
           cs == {"initiated"} \cup IF late THEN {"initiated_late"} ELSE {}
<1>1. /\ pc = "decide" /\ NextSlot /\ UNCHANGED <<lateSlots, lostSlots>>
      /\ res' = Plus(cs)
  BY DEF Initiate
<1>2. slot \in lateSlots <=> late
  BY <1>1 DEF MissedInv
<1>3. late \in BOOLEAN
  BY DEF IsLate
<1> HIDE DEF late
<1>4. MissedCount' = IF late THEN MissedCount + 1 ELSE MissedCount
  <2>1. \A d \in Counters : res'[d] = IF d \in cs THEN res[d] + 1 ELSE res[d]
    BY <1>1, PlusType DEF LoopInv, TypeOK
  <2>2. /\ res["dropped_in_flight_limit"] \in Nat /\ res["dropped_schedule_late"] \in Nat
        /\ res["initiated_late"] \in Nat
    BY DEF LoopInv, TypeOK, Counters
  <2> QED BY <2>1, <2>2 DEF MissedCount, Counters
<1>5. lateSlots' \cup lostSlots' = IF late THEN Missed \cup {slot} ELSE Missed
  BY <1>1, <1>2 DEF Missed, MissedInv
<1> QED BY <1>1, <1>3, <1>4, <1>5, MissedPass DEF NextSlot

\* MissedInv is inductive beside LoopInv.
LEMMA MissedStep == LoopInv /\ MissedInv /\ [Next]_vars => MissedInv'
<1> SUFFICES ASSUME LoopInv, MissedInv, [Next]_vars PROVE MissedInv'
  OBVIOUS
<1>1. CASE Tick
  BY <1>1, MissedQuiet DEF Tick, dispatcherVars, MissedCount
<1>2. CASE Wake
  BY <1>2, MissedQuiet DEF Wake, MissedCount
<1>3. CASE NothingToJoin
  BY <1>3, MissedQuiet DEF NothingToJoin, MissedCount
<1>4. CASE Finalize
  BY <1>4, MissedQuiet DEF Finalize, MissedCount
<1>5. ASSUME NEW s \in Slots, Join(s) PROVE MissedInv'
  <2> DEFINE cs == {"completed", IF inTime[s] THEN "within" ELSE "after"}
                     \cup IF inTime[s] /\ status[s] = "OK" THEN {"ok_within"} ELSE {}
  <2>1. \A c \in Counters : res'[c] = IF c \in cs THEN res[c] + 1 ELSE res[c]
    BY <1>5, PlusType DEF Join, LoopInv, TypeOK
  <2>2. MissedCount' = MissedCount
    BY <2>1 DEF MissedCount, Counters
  <2> QED BY <1>5, <2>2, MissedQuiet DEF Join
<1>6. ASSUME NEW s \in Slots, Task(s) \/ Answer(s) PROVE MissedInv'
  <2>1. UNCHANGED dispatcherVars
    BY <1>6 DEF Task, Answer, Start, TimeOut, Finish
  <2> QED BY <2>1, MissedQuiet DEF dispatcherVars, MissedCount
<1>7. CASE ReadClock
  BY <1>7, MissedReadClock
<1>8. CASE DropScheduleLate \/ DropInFlightLimit
  BY <1>8, MissedDrop
<1>9. CASE Initiate
  BY <1>9, MissedInitiate
<1>10. CASE UNCHANGED vars
  BY <1>10, MissedQuiet DEF vars, dispatcherVars, MissedCount
<1> QED
  BY <1>1, <1>2, <1>3, <1>4, <1>5, <1>6, <1>7, <1>8, <1>9, <1>10 DEF Next, Dispatcher

\* Between two slots the union of the late and the lost has as many slots as the
\* three disjoint counters say, for any schedule, thresholds and order of
\* answers (dropped_or_late_slots_union of the report).
THEOREM MissedSlotsCountedOnce == Spec => []LateOrLostCountedOnce
<1>1. LoopInv /\ MissedInv => LateOrLostCountedOnce
  <2> SUFFICES ASSUME LoopInv, MissedInv, pc \in {"sleep", "drain", "done"}
               PROVE  Cardinality(lateSlots \cup lostSlots) = MissedCount
    BY DEF LateOrLostCountedOnce, MissedCount
  <2>1. slot \notin lateSlots \cup lostSlots
    BY DEF MissedInv
  <2>2. Missed = lateSlots \cup lostSlots
    BY <2>1 DEF Missed
  <2> QED BY <2>2 DEF MissedInv
<1> QED BY <1>1, MissedInit, MissedStep, LoopInvariant, PTL DEF Spec

-----------------------------------------------------------------------------
(* The closed loop.                                                        *)

Waiting == {"spawned", "ready", "release"}

\* The workers are kept back by main at the second barrier, then by the clock.
StartInv ==
    /\ cnow \in Nat /\ mpc \in Closed!MainStates /\ DOMAIN wpc = Workers
    /\ mpc \in {"spawn", "ready", "panicked"} =>
           next = 0 /\ \A w \in Workers : wpc[w] \in Waiting
    /\ cnow < ClosedStart => \A w \in Workers : wpc[w] \in Waiting \cup {"sleep"}

----------------------------------------------------------------------------

\* main has checked the clock, and no worker runs.
LEMMA StartInit == ClosedStart \in Nat /\ Closed!Init => StartInv
  BY DEF Closed!Init, StartInv, Closed!MainStates, Waiting

\* A step of worker w that goes no further than the place it may be in.
LEMMA WorkerKeepsStart ==
    ASSUME StartInv, NEW w \in Workers, NEW to,
           wpc' = [wpc EXCEPT ![w] = to], UNCHANGED <<cnow, mpc>>,
           mpc \in {"spawn", "ready", "panicked"} => to \in Waiting /\ next' = next,
           cnow < ClosedStart => to \in Waiting \cup {"sleep"}
    PROVE  StartInv'
<1>1. DOMAIN wpc' = Workers /\ \A v \in Workers : wpc'[v] \in {wpc[v], to}
  BY DEF StartInv
<1> QED BY <1>1 DEF StartInv

\* Every step of a worker keeps it back until both have let it go.
LEMMA WorkerStartStep ==
    ASSUME ClosedStart \in Nat, StartInv, NEW w \in Workers, Closed!Worker(w) \/ Closed!Answer(w)
    PROVE  StartInv'
<1>i. wpc[w] \notin Waiting => mpc \notin {"spawn", "ready", "panicked"}
  BY DEF StartInv
<1>n. wpc[w] \notin Waiting \cup {"sleep"} => ~(cnow < ClosedStart)
  BY DEF StartInv
<1>1. CASE Closed!Arrive(w)
  BY <1>1, WorkerKeepsStart DEF Closed!Arrive, Closed!Moves, Closed!WorkerStep, Waiting
<1>2. CASE Closed!PassReady(w)
  BY <1>2, WorkerKeepsStart DEF Closed!PassReady, Closed!Moves, Closed!WorkerStep, Waiting
<1>3. CASE Closed!PassRelease(w)
  BY <1>3, WorkerKeepsStart DEF Closed!PassRelease, Closed!ReleaseOpen, Closed!Moves,
     Closed!WorkerStep, Waiting
<1>4. CASE Closed!Wake(w)
  <2>1. wpc' = [wpc EXCEPT ![w] = "check"] /\ wpc[w] = "sleep"
        /\ UNCHANGED <<cnow, mpc>> /\ cnow >= ClosedStart
    BY <1>4 DEF Closed!Wake, Closed!Moves, Closed!WorkerStep
  <2>2. ~(cnow < ClosedStart)
    BY <2>1 DEF StartInv
  <2> QED BY <1>i, <2>1, <2>2, WorkerKeepsStart DEF Waiting
<1>5. CASE Closed!CheckDeadline(w) \/ Closed!Claim(w) \/ Closed!Send(w) \/ Closed!Answer(w)
           \/ Closed!Count(w) \/ Closed!Merge(w)
  <2>1. /\ wpc[w] \in {"check", "claim", "send", "rpc", "answered", "merge"}
        /\ \E to \in Closed!WorkerStates : wpc' = [wpc EXCEPT ![w] = to]
        /\ UNCHANGED <<cnow, mpc>>
    BY <1>5 DEF Closed!CheckDeadline, Closed!Claim, Closed!Send, Closed!Answer,
       Closed!Count, Closed!Merge, Closed!Moves, Closed!WorkerStep, Closed!WorkerStates
  <2>2. wpc[w] \notin Waiting \cup {"sleep"}
    BY <2>1 DEF Waiting
  <2> QED BY <1>i, <1>n, <2>1, <2>2, WorkerKeepsStart
<1> QED BY <1>1, <1>2, <1>3, <1>4, <1>5 DEF Closed!Worker

\* Every step of main and of the clock keeps the invariant: main opens the
\* second barrier or gives up.
LEMMA StartStep ==
    ASSUME ClosedStart \in Nat, StartInv, [Closed!Next]_(Closed!vars)
    PROVE  StartInv'
<1>1. CASE Closed!Tick
  <2>1. cnow' = cnow + 1 /\ UNCHANGED <<mpc, wpc, next>>
    BY <1>1 DEF Closed!Tick, Closed!workerVars
  <2>2. cnow' \in Nat /\ (cnow' < ClosedStart => cnow < ClosedStart)
    BY <2>1 DEF StartInv
  <2> QED BY <2>1, <2>2 DEF StartInv
<1>2. CASE Closed!Main
  <2>1. UNCHANGED <<cnow, wpc, next>> /\ mpc' \in Closed!MainStates
    BY <1>2 DEF Closed!Main, Closed!MainReady, Closed!MainRelease, Closed!MainJoin,
       Closed!Report, Closed!MainStep, Closed!workerVars, Closed!MainStates
  <2>2. mpc' \in {"spawn", "ready", "panicked"} => mpc \in {"spawn", "ready", "panicked"}
    BY <1>2 DEF Closed!Main, Closed!MainReady, Closed!MainRelease, Closed!MainJoin,
       Closed!Report, Closed!MainStep
  <2> QED BY <2>1, <2>2 DEF StartInv
<1>3. ASSUME NEW w \in Workers, Closed!Worker(w) \/ Closed!Answer(w) PROVE StartInv'
  BY <1>3, WorkerStartStep
<1>4. CASE UNCHANGED Closed!vars
  BY <1>4 DEF Closed!vars, Closed!workerVars, StartInv
<1> QED BY <1>1, <1>2, <1>3, <1>4 DEF Closed!Next

-----------------------------------------------------------------------------

\* The first state has its types.
LEMMA TypeInit == ClosedStart \in Nat /\ Closed!Init => Closed!TypeOK
<1> SUFFICES ASSUME ClosedStart \in Nat, Closed!Init PROVE Closed!TypeOK
  OBVIOUS
<1>1. cnow \in Nat /\ Closed!NoCounts \in [Closed!Tallies -> Nat]
  BY DEF Closed!Init, Closed!NoCounts
<1> QED BY <1>1 DEF Closed!Init, Closed!TypeOK, Closed!MainStates, Closed!WorkerStates

\* Every step of a worker keeps the types.
LEMMA WorkerKeepsTypes ==
    ASSUME Closed!TypeOK, NEW w \in Workers, Closed!Worker(w) \/ Closed!Answer(w)
    PROVE  Closed!TypeOK'
<1>w. ASSUME NEW to \in Closed!WorkerStates, wpc' = [wpc EXCEPT ![w] = to], UNCHANGED <<cnow, mpc>>
      PROVE  /\ cnow' \in Nat /\ mpc' \in Closed!MainStates
             /\ wpc' \in [Workers -> Closed!WorkerStates]
  BY <1>w DEF Closed!TypeOK
<1>1. CASE Closed!Arrive(w) \/ Closed!PassReady(w) \/ Closed!PassRelease(w)
           \/ Closed!Wake(w) \/ Closed!CheckDeadline(w) \/ Closed!Send(w)
  <2>1. /\ \E to \in Closed!WorkerStates : wpc' = [wpc EXCEPT ![w] = to]
        /\ UNCHANGED <<cnow, mpc, next, exhausted, answer, local, shared>>
    BY <1>1 DEF Closed!Arrive, Closed!PassReady, Closed!PassRelease, Closed!Wake,
       Closed!CheckDeadline, Closed!Send, Closed!Moves, Closed!WorkerStep,
       Closed!WorkerStates, Closed!counts
  <2> QED BY <1>w, <2>1 DEF Closed!TypeOK
<1>2. CASE Closed!Claim(w)
  <2>1. /\ \E to \in Closed!WorkerStates : wpc' = [wpc EXCEPT ![w] = to]
        /\ UNCHANGED <<cnow, mpc, answer, local, shared>>
    BY <1>2 DEF Closed!Claim, Closed!WorkerStep, Closed!WorkerStates, Closed!counts
  <2>2. next' \in Nat /\ exhausted' \in BOOLEAN
    BY <1>2 DEF Closed!Claim, Closed!TypeOK
  <2> QED BY <1>w, <2>1, <2>2 DEF Closed!TypeOK
<1>3. CASE Closed!Answer(w)
  <2>1. /\ \E to \in Closed!WorkerStates : wpc' = [wpc EXCEPT ![w] = to]
        /\ UNCHANGED <<cnow, mpc, next, exhausted, local, shared>>
    BY <1>3 DEF Closed!Answer, Closed!WorkerStep, Closed!WorkerStates
  <2>2. answer' \in [Workers -> {"ok", "error"}]
    BY <1>3 DEF Closed!Answer, Closed!TypeOK
  <2> QED BY <1>w, <2>1, <2>2 DEF Closed!TypeOK
<1>4. CASE Closed!Count(w)
  <2>1. /\ \E to \in Closed!WorkerStates : wpc' = [wpc EXCEPT ![w] = to]
        /\ UNCHANGED <<cnow, mpc, next, exhausted, shared>>
    BY <1>4 DEF Closed!Count, Closed!WorkerStep, Closed!WorkerStates
  <2>2. answer' \in [Workers -> {"ok", "error"}]
    BY <1>4 DEF Closed!Count, Closed!TypeOK
  <2>3. PICK tallies :
          local' = [local EXCEPT ![w] =
                       [t \in Closed!Tallies |-> IF t \in tallies THEN @[t] + 1 ELSE @[t]]]
    BY <1>4 DEF Closed!Count
  <2>4. [t \in Closed!Tallies |-> IF t \in tallies THEN local[w][t] + 1 ELSE local[w][t]]
          \in [Closed!Tallies -> Nat]
    BY DEF Closed!TypeOK
  <2>5. local' \in [Workers -> [Closed!Tallies -> Nat]]
    BY <2>3, <2>4 DEF Closed!TypeOK
  <2> QED BY <1>w, <2>1, <2>2, <2>5 DEF Closed!TypeOK
<1>5. CASE Closed!Merge(w)
  <2>1. /\ \E to \in Closed!WorkerStates : wpc' = [wpc EXCEPT ![w] = to]
        /\ UNCHANGED <<cnow, mpc, next, exhausted, answer>>
    BY <1>5 DEF Closed!Merge, Closed!WorkerStep, Closed!WorkerStates
  <2>2. shared' \in [Closed!Tallies -> Nat]
    BY <1>5 DEF Closed!Merge, Closed!TypeOK
  <2>3. local' \in [Workers -> [Closed!Tallies -> Nat]]
    BY <1>5 DEF Closed!Merge, Closed!TypeOK, Closed!NoCounts
  <2> QED BY <1>w, <2>1, <2>2, <2>3 DEF Closed!TypeOK
<1> QED BY <1>1, <1>2, <1>3, <1>4, <1>5 DEF Closed!Worker

\* Every step keeps the types of the closed loop.
LEMMA TypeStep ==
    ASSUME Closed!TypeOK, [Closed!Next]_(Closed!vars)
    PROVE  Closed!TypeOK'
<1>1. CASE Closed!Tick
  BY <1>1 DEF Closed!Tick, Closed!TypeOK, Closed!workerVars, Closed!counts
<1>2. CASE Closed!Main
  <2>1. UNCHANGED <<cnow, Closed!workerVars>> /\ mpc' \in Closed!MainStates
    BY <1>2 DEF Closed!Main, Closed!MainReady, Closed!MainRelease, Closed!MainJoin,
       Closed!Report, Closed!MainStep, Closed!MainStates
  <2> QED BY <2>1 DEF Closed!TypeOK, Closed!workerVars, Closed!counts
<1>3. ASSUME NEW w \in Workers, Closed!Worker(w) \/ Closed!Answer(w) PROVE Closed!TypeOK'
  BY <1>3, WorkerKeepsTypes
<1>4. CASE UNCHANGED Closed!vars
  BY <1>4 DEF Closed!TypeOK, Closed!vars, Closed!workerVars, Closed!counts
<1> QED BY <1>1, <1>2, <1>3, <1>4 DEF Closed!Next

\* What the workers of D hold of a tally, one element a unit.
UnitsOf(D, counted, t) == UNION {{w} \X (1 .. counted[w][t]) : w \in D}

LEMMA UnitsOfOne ==
    ASSUME NEW D, IsFiniteSet(D), NEW w \in D, NEW counted, NEW t,
           \A d \in D : counted[d][t] \in Nat
    PROVE  /\ IsFiniteSet(UnitsOf(D, counted, t))
           /\ Cardinality(UnitsOf(D, counted, t))
                = Cardinality(UnitsOf(D \ {w}, counted, t)) + counted[w][t]
           /\ Cardinality(UnitsOf(D \ {w}, counted, t)) \in Nat
<1> DEFINE Units(d) == {d} \X (1 .. counted[d][t])
           Rest == UnitsOf(D \ {w}, counted, t)
           All == UnitsOf(D, counted, t)
<1>1. ASSUME NEW d \in D
      PROVE  IsFiniteSet(Units(d)) /\ Cardinality(Units(d)) = counted[d][t]
  <2>1. IsFiniteSet({d}) /\ Cardinality({d}) = 1
    BY FS_Singleton
  <2> DEFINE n == counted[d][t]
  <2>n. n \in Nat
    OBVIOUS
  <2>2. IsFiniteSet(1 .. n) /\ Cardinality(1 .. n) = n
    <3> HIDE DEF n
    <3>1. IsFiniteSet(1 .. n) /\ Cardinality(1 .. n) = IF 1 > n THEN 0 ELSE n - 1 + 1
      BY <2>n, FS_Interval
    <3>. QED
      BY <2>n, <3>1
  <2>3. IsFiniteSet({d} \X (1 .. n)) /\ Cardinality({d} \X (1 .. n)) = 1 * n
    <3> DEFINE one == {d}
               many == 1 .. n
    <3>1. IsFiniteSet(one) /\ IsFiniteSet(many) /\ Cardinality(one) = 1 /\ Cardinality(many) = n
      BY <2>1, <2>2
    <3> HIDE DEF n, one, many
    <3>2. IsFiniteSet(one \X many)
          /\ Cardinality(one \X many) = Cardinality(one) * Cardinality(many)
      BY <3>1, FS_Product
    <3>. QED
      BY <3>1, <3>2 DEF one, many
  <2>. QED
    BY <2>n, <2>3
<1> DEFINE family == [d \in D |-> Units(d)]
           Range1 == {Units(d) : d \in D}
<1>2. IsFiniteSet(Range1)
  <2>1. family \in Surjection(D, Range1)
    BY DEF Surjection
  <2>. QED
    BY <2>1, FS_Surjection
<1>3. IsFiniteSet(All)
  <2>1. \A T \in Range1 : IsFiniteSet(T)
    BY <1>1
  <2>2. IsFiniteSet(UNION Range1)
    BY <1>2, <2>1, FS_UNION
  <2>. QED
    BY <2>2 DEF UnitsOf
<1>4. Rest \subseteq All /\ Units(w) \subseteq All /\ All = Rest \cup Units(w)
      /\ Rest \cap Units(w) = {}
  BY DEF UnitsOf
<1>5. IsFiniteSet(Rest) /\ Cardinality(Rest) \in Nat
  BY <1>3, <1>4, FS_Subset, FS_CardinalityType
<1>6. IsFiniteSet(Units(w)) /\ Cardinality(Units(w)) = counted[w][t]
  BY <1>1
<1>7. Cardinality(Rest \cup Units(w))
        = Cardinality(Rest) + Cardinality(Units(w)) - Cardinality(Rest \cap Units(w))
  <2> HIDE DEF Rest, Units
  <2>. QED
    BY <1>5, <1>6, FS_Union
<1>8. Cardinality(Rest \cap Units(w)) = 0
  BY <1>4, FS_EmptySet
<1>9. counted[w][t] \in Nat /\ Cardinality(All) = Cardinality(Rest \cup Units(w))
  BY <1>4
<1>10. Cardinality(All) = Cardinality(Rest) + counted[w][t]
  <2> HIDE DEF Rest, Units, All
  <2>. QED
    BY <1>5, <1>6, <1>7, <1>8, <1>9
<1>. QED
  BY <1>3, <1>5, <1>10

LEMMA HeldIsUnits ==
    ASSUME NEW t PROVE Closed!Held(t) = UnitsOf(Workers, local, t)
BY DEF Closed!Held, UnitsOf

\* What the counts of a worker do to a tally of all.
LEMMA HeldMoves ==
    ASSUME IsFiniteSet(Workers), Closed!TypeOK, NEW w \in Workers,
           NEW mine \in [Closed!Tallies -> Nat],
           local' = [local EXCEPT ![w] = mine], NEW t \in Closed!Tallies
    PROVE  /\ Cardinality(Closed!Held(t)) \in Nat /\ Cardinality(Closed!Held(t))' \in Nat
           /\ Cardinality(Closed!Held(t))' + local[w][t] = Cardinality(Closed!Held(t)) + mine[t]
<1>1. /\ \A d \in Workers : local[d][t] \in Nat
      /\ \A d \in Workers : local'[d][t] \in Nat
      /\ local'[w][t] = mine[t]
  BY DEF Closed!TypeOK
<1> DEFINE rest == Cardinality(UnitsOf(Workers \ {w}, local, t))
<1>2. UnitsOf(Workers \ {w}, local', t) = UnitsOf(Workers \ {w}, local, t)
  <2>1. \A d \in Workers \ {w} : local'[d] = local[d]
    BY DEF Closed!TypeOK
  <2>. QED
    BY <2>1 DEF UnitsOf
<1>3. /\ Cardinality(UnitsOf(Workers, local, t)) = rest + local[w][t] /\ rest \in Nat
  BY <1>1, UnitsOfOne
<1>4. Cardinality(UnitsOf(Workers, local', t)) = rest + local'[w][t]
  <2> DEFINE counted == local'
  <2>1. \A d \in Workers : counted[d][t] \in Nat
    BY <1>1
  <2> HIDE DEF counted
  <2>2. Cardinality(UnitsOf(Workers, counted, t))
          = Cardinality(UnitsOf(Workers \ {w}, counted, t)) + counted[w][t]
    BY <2>1, UnitsOfOne
  <2>. QED
    BY <1>2, <2>2 DEF counted
<1>5. Cardinality(Closed!Held(t))' = Cardinality(UnitsOf(Workers, local', t))
  BY HeldIsUnits DEF Closed!Held, UnitsOf
<1>. QED
  BY <1>1, <1>3, <1>4, <1>5, HeldIsUnits

LEMMA ClosedCardinality == ASSUME NEW S PROVE Closed!Cardinality(S) = Cardinality(S)
BY DEF Closed!Cardinality, Cardinality

\* Every total is a number of units.
LEMMA TotalIsNat ==
    ASSUME IsFiniteSet(Workers), Closed!TypeOK, NEW t \in Closed!Tallies
    PROVE  Closed!Total(t) \in Nat /\ shared[t] \in Nat /\ Cardinality(Closed!Held(t)) \in Nat
<1>1. shared[t] \in Nat /\ \A d \in Workers : local[d][t] \in Nat
  BY DEF Closed!TypeOK
<1>2. Cardinality(Closed!Held(t)) \in Nat
  <2>1. CASE Workers = {}
    <3>1. Closed!Held(t) = {}
      BY <2>1 DEF Closed!Held
    <3>. QED
      BY <3>1, FS_EmptySet
  <2>2. ASSUME NEW w \in Workers PROVE Cardinality(Closed!Held(t)) \in Nat
    <3>1. IsFiniteSet(UnitsOf(Workers, local, t))
      BY <1>1, UnitsOfOne
    <3>. QED
      BY <3>1, HeldIsUnits, FS_CardinalityType
  <2>. QED
    BY <2>1, <2>2
<1>3. Closed!Total(t) = shared[t] + Cardinality(Closed!Held(t))
  BY ClosedCardinality DEF Closed!Total
<1>. QED
  BY <1>1, <1>2, <1>3

BusyStates == {"send", "rpc", "answered"}

\* A worker that is here has at most one RPC less to end in the drain.
DrainStates == {"merge", "done"} \cup IF cnow > ClosedDeadline THEN {"check"} ELSE {}

Working(S) == CountIn(wpc, Workers, S)

ClaimsInv ==
    /\ Closed!TypeOK
    /\ Closed!Claimed = Working(BusyStates) + Closed!Total("ok") + Closed!Total("error")
                          + Closed!Total("drained")
    /\ Closed!Total("samples") = Closed!Total("ok")
    /\ Closed!Total("drained") <= Working(DrainStates)
    /\ exhausted <=> next > Rows

LEMMA Balanced ==
    ASSUME NEW c \in Nat, NEW c2 \in Nat, NEW b \in Nat, NEW b2 \in Nat, NEW x \in Nat,
           NEW y \in Nat, NEW z \in Nat, NEW x2, NEW y2, NEW z2,
           NEW from \in Nat, NEW to \in Nat, NEW dx \in Nat, NEW dy \in Nat, NEW dz \in Nat,
           c = b + x + y + z, b2 + from = b + to,
           x2 = x + dx, y2 = y + dy, z2 = z + dz,
           c2 + from = c + to + dx + dy + dz
    PROVE  c2 = b2 + x2 + y2 + z2
OBVIOUS

\* What the step of a worker does to the numbers of ClaimsInv, it has to do to
\* both sides.
LEMMA ClaimsAdvance ==
    ASSUME IsFiniteSet(Workers), Rows \in Nat, ClaimsInv, Closed!TypeOK',
           NEW w \in Workers, NEW from, NEW to, wpc[w] = from,
           wpc' = [wpc EXCEPT ![w] = to], cnow' = cnow,
           NEW tallies \in SUBSET Closed!Tallies,
           \A t \in Closed!Tallies :
               Closed!Total(t)' = Closed!Total(t) + Bit(t \in tallies),
           Closed!Claimed' + Bit(from \in BusyStates)
             = Closed!Claimed + Bit(to \in BusyStates) + Bit("ok" \in tallies)
                 + Bit("error" \in tallies) + Bit("drained" \in tallies),
           "samples" \in tallies <=> "ok" \in tallies,
           from \in DrainStates => to \in DrainStates /\ "drained" \notin tallies,
           "drained" \in tallies => to \in DrainStates,
           exhausted' <=> next' > Rows
    PROVE  ClaimsInv'
<1>1. wpc \in [Workers -> Closed!WorkerStates] /\ wpc'[w] = to
      /\ \A d \in Workers \ {w} : wpc'[d] = wpc[d]
  BY DEF ClaimsInv, Closed!TypeOK
<1>2. ASSUME NEW S
      PROVE  /\ CountIn(wpc, Workers, S) \in Nat /\ CountIn(wpc', Workers, S) \in Nat
             /\ CountIn(wpc', Workers, S) + Bit(from \in S)
                  = CountIn(wpc, Workers, S) + Bit(to \in S)
  <2> DEFINE moved == wpc'
  <2>1. moved[w] = to /\ \A d \in Workers \ {w} : moved[d] = wpc[d]
    BY <1>1
  <2> HIDE DEF moved
  <2>2. CountIn(wpc, Workers, S) \in Nat /\ CountIn(moved, Workers, S) \in Nat
    BY CountIsNat
  <2>3. CountIn(moved, Workers, S) + Bit(wpc[w] \in S)
          = CountIn(wpc, Workers, S) + Bit(moved[w] \in S)
    BY <2>1, MoveCount
  <2>. QED
    BY <2>1, <2>2, <2>3 DEF moved
<1>3. DrainStates' = DrainStates /\ BusyStates' = BusyStates
  BY DEF DrainStates, BusyStates
<1>4. \A t \in Closed!Tallies : Closed!Total(t) \in Nat
  BY TotalIsNat DEF ClaimsInv
<1>5. /\ Closed!Total("ok") \in Nat /\ Closed!Total("error") \in Nat
      /\ Closed!Total("drained") \in Nat /\ Closed!Total("samples") \in Nat
      /\ Closed!Total("ok")' = Closed!Total("ok") + Bit("ok" \in tallies)
      /\ Closed!Total("error")' = Closed!Total("error") + Bit("error" \in tallies)
      /\ Closed!Total("drained")' = Closed!Total("drained") + Bit("drained" \in tallies)
      /\ Closed!Total("samples")' = Closed!Total("samples") + Bit("samples" \in tallies)
  BY <1>4 DEF Closed!Tallies
<1>6. /\ Working(BusyStates) \in Nat /\ Working(BusyStates)' \in Nat
      /\ Working(BusyStates)' + Bit(from \in BusyStates)
           = Working(BusyStates) + Bit(to \in BusyStates)
  BY <1>2, <1>3 DEF Working
<1>7. /\ Working(DrainStates) \in Nat /\ Working(DrainStates)' \in Nat
      /\ Working(DrainStates)' + Bit(from \in DrainStates)
           = Working(DrainStates) + Bit(to \in DrainStates)
  BY <1>2, <1>3 DEF Working
<1>8. Closed!Claimed \in Nat /\ Closed!Claimed' \in Nat
  BY DEF ClaimsInv, Closed!TypeOK, Closed!Claimed
<1>b. \A b : Bit(b) \in {0, 1} /\ (Bit(b) = 1 <=> b)
  BY DEF Bit
<1>9. Closed!Claimed' = Working(BusyStates)' + Closed!Total("ok")' + Closed!Total("error")'
                          + Closed!Total("drained")'
  <2>1. Closed!Claimed = Working(BusyStates) + Closed!Total("ok") + Closed!Total("error")
                          + Closed!Total("drained")
    BY DEF ClaimsInv
  <2> DEFINE out == Bit(from \in BusyStates)
             into == Bit(to \in BusyStates)
             oks == Bit("ok" \in tallies)
             errors == Bit("error" \in tallies)
             drains == Bit("drained" \in tallies)
  <2>2. out \in Nat /\ into \in Nat /\ oks \in Nat /\ errors \in Nat /\ drains \in Nat
    BY DEF Bit
  <2>3. /\ Closed!Claimed' + out = Closed!Claimed + into + oks + errors + drains
        /\ Working(BusyStates)' + out = Working(BusyStates) + into
        /\ Closed!Total("ok")' = Closed!Total("ok") + oks
        /\ Closed!Total("error")' = Closed!Total("error") + errors
        /\ Closed!Total("drained")' = Closed!Total("drained") + drains
    BY <1>5, <1>6
  <2> HIDE DEF out, into, oks, errors, drains
  <2>. QED
    BY <1>5, <1>6, <1>8, <2>1, <2>2, <2>3, Balanced
<1>10. Closed!Total("samples")' = Closed!Total("ok")'
  BY <1>5 DEF ClaimsInv, Bit
<1>11. Closed!Total("drained")' <= Working(DrainStates)'
  <2>1. Closed!Total("drained") <= Working(DrainStates)
    BY DEF ClaimsInv
  <2>2. Bit("drained" \in tallies) + Bit(from \in DrainStates) <= Bit(to \in DrainStates)
        /\ Bit("drained" \in tallies) \in Nat /\ Bit(from \in DrainStates) \in Nat
        /\ Bit(to \in DrainStates) \in Nat
    BY DEF Bit
  <2>. QED
    BY <1>5, <1>7, <2>1, <2>2
<1>. QED
  BY <1>9, <1>10, <1>11 DEF ClaimsInv
LEMMA NoClaims ==
    ASSUME IsFiniteSet(Workers), Rows \in Nat, Closed!TypeOK, next = 0, exhausted = FALSE,
           \A w \in Workers : wpc[w] \notin BusyStates,
           local = [w \in Workers |-> Closed!NoCounts], shared = Closed!NoCounts
    PROVE  ClaimsInv
<1>1. ASSUME NEW t \in Closed!Tallies PROVE Closed!Total(t) = 0
  <2>1. \A w \in Workers : local[w][t] = 0
    BY DEF Closed!NoCounts
  <2>2. Closed!Held(t) = {}
    BY <2>1 DEF Closed!Held
  <2>3. shared[t] = 0 /\ Cardinality(Closed!Held(t)) = 0
    BY <2>2, FS_EmptySet DEF Closed!NoCounts
  <2>. QED
    BY <2>3, ClosedCardinality DEF Closed!Total
<1>2. Closed!Total("ok") = 0 /\ Closed!Total("error") = 0 /\ Closed!Total("drained") = 0
      /\ Closed!Total("samples") = 0
  BY <1>1 DEF Closed!Tallies
<1>3. Working(BusyStates) = 0
  <2>1. {w \in Workers : wpc[w] \in BusyStates} = {}
    OBVIOUS
  <2>. QED
    BY <2>1, FS_EmptySet DEF Working, CountIn
<1>4. Working(DrainStates) \in Nat
  BY CountIsNat DEF Working
<1>5. Closed!Claimed = 0
  BY DEF Closed!Claimed
<1>. QED
  BY <1>2, <1>3, <1>4, <1>5 DEF ClaimsInv

\* A step that counts nothing.
LEMMA TotalsStay ==
    ASSUME UNCHANGED <<local, shared>>, NEW t
    PROVE  Closed!Total(t)' = Closed!Total(t)
BY DEF Closed!Total, Closed!Held

LEMMA ClaimsWorker ==
    ASSUME IsFiniteSet(Workers), Rows \in Nat, ClosedDeadline \in Nat,
           ClaimsInv, Closed!TypeOK', NEW w \in Workers,
           Closed!Worker(w) \/ Closed!Answer(w)
    PROVE  ClaimsInv'
<1>t. Closed!TypeOK /\ next \in Nat /\ exhausted \in BOOLEAN /\ (exhausted <=> next > Rows)
      /\ \A t \in Closed!Tallies : Closed!Total(t) \in Nat
  BY TotalIsNat DEF ClaimsInv, Closed!TypeOK
<1>0. \A t \in Closed!Tallies : Closed!Total(t) + Bit(t \in {}) = Closed!Total(t)
  BY <1>t DEF Bit
<1>1. ASSUME NEW from, NEW to, Closed!Moves(w, from, to),
             from \in BusyStates <=> to \in BusyStates,
             from \in DrainStates => to \in DrainStates
      PROVE  ClaimsInv'
  <2>1. /\ wpc[w] = from /\ wpc' = [wpc EXCEPT ![w] = to]
        /\ UNCHANGED <<cnow, next, exhausted, local, shared>>
    BY <1>1 DEF Closed!Moves, Closed!WorkerStep, Closed!counts
  <2>2. \A t \in Closed!Tallies : Closed!Total(t)' = Closed!Total(t) + Bit(t \in {})
    BY <1>0, <2>1, TotalsStay
  <2>3. Closed!Claimed' = Closed!Claimed /\ Closed!Claimed \in Nat
    BY <1>t, <2>1 DEF Closed!Claimed
  <2>4. Closed!Claimed' + Bit(from \in BusyStates)
          = Closed!Claimed + Bit(to \in BusyStates) + Bit("ok" \in {})
              + Bit("error" \in {}) + Bit("drained" \in {})
    BY <1>1, <2>3 DEF Bit
  <2>5. exhausted' <=> next' > Rows
    BY <1>t, <2>1
  <2> DEFINE none == {}
  <2>6. /\ none \in SUBSET Closed!Tallies /\ "samples" \notin none /\ "ok" \notin none
        /\ "drained" \notin none
    OBVIOUS
  <2>7. /\ \A t \in Closed!Tallies : Closed!Total(t)' = Closed!Total(t) + Bit(t \in none)
        /\ Closed!Claimed' + Bit(from \in BusyStates)
             = Closed!Claimed + Bit(to \in BusyStates) + Bit("ok" \in none)
                 + Bit("error" \in none) + Bit("drained" \in none)
    BY <2>2, <2>4
  <2> HIDE DEF none
  <2>. QED
    BY <1>1, <2>1, <2>5, <2>6, <2>7, ClaimsAdvance
<1>2. CASE Closed!Arrive(w)
  BY <1>1, <1>2 DEF Closed!Arrive, BusyStates, DrainStates
<1>3. CASE Closed!PassReady(w)
  BY <1>1, <1>3 DEF Closed!PassReady, BusyStates, DrainStates
<1>4. CASE Closed!PassRelease(w)
  BY <1>1, <1>4 DEF Closed!PassRelease, BusyStates, DrainStates
<1>5. CASE Closed!Wake(w)
  BY <1>1, <1>5 DEF Closed!Wake, BusyStates, DrainStates
<1>6. CASE Closed!Send(w)
  BY <1>1, <1>6 DEF Closed!Send, BusyStates, DrainStates
<1>7. CASE Closed!CheckDeadline(w)
  <2> DEFINE to == IF cnow >= ClosedDeadline THEN "merge" ELSE "claim"
  <2>1. "check" \notin BusyStates /\ to \notin BusyStates
    BY DEF BusyStates
  <2>2. cnow \in Nat /\ (cnow > ClosedDeadline => cnow >= ClosedDeadline)
    BY <1>t DEF Closed!TypeOK
  <2>3. "check" \in DrainStates => to \in DrainStates
    BY <2>2 DEF DrainStates
  <2>4. Closed!Moves(w, "check", to)
    BY <1>7 DEF Closed!CheckDeadline
  <2>. QED
    BY <1>1, <2>1, <2>3, <2>4
<1>8. CASE Closed!Claim(w)
  <2> DEFINE to == IF next < Rows THEN "send" ELSE "merge"
  <2>1. /\ wpc[w] = "claim" /\ wpc' = [wpc EXCEPT ![w] = to] /\ next' = next + 1
        /\ exhausted' = (exhausted \/ next >= Rows) /\ UNCHANGED <<cnow, local, shared>>
    BY <1>8 DEF Closed!Claim, Closed!WorkerStep, Closed!counts
  <2>2. \A t \in Closed!Tallies : Closed!Total(t)' = Closed!Total(t) + Bit(t \in {})
    BY <1>0, <2>1, TotalsStay
  <2>3. exhausted' <=> next' > Rows
    <3>1. (next' > Rows <=> next >= Rows) /\ (next > Rows => next >= Rows)
      BY <1>t, <2>1
    <3>2. exhausted' <=> exhausted \/ next >= Rows
      BY <2>1
    <3>. QED
      BY <1>t, <3>1, <3>2
  <2>4. Closed!Claimed' = Closed!Claimed + Bit(to \in BusyStates)
    <3>1. CASE next < Rows
      BY <1>t, <2>1, <3>1 DEF Closed!Claimed, Bit, BusyStates
    <3>2. CASE ~(next < Rows)
      BY <1>t, <2>1, <3>2 DEF Closed!Claimed, Bit, BusyStates
    <3>. QED
      BY <3>1, <3>2
  <2>5. Closed!Claimed \in Nat /\ Closed!Claimed' \in Nat
    BY <1>t, <2>1 DEF Closed!Claimed
  <2>6. Closed!Claimed' + Bit("claim" \in BusyStates)
          = Closed!Claimed + Bit(to \in BusyStates) + Bit("ok" \in {})
              + Bit("error" \in {}) + Bit("drained" \in {})
    BY <2>4, <2>5 DEF Bit, BusyStates
  <2>7. "claim" \notin DrainStates
    BY DEF DrainStates
  <2>. QED
    BY <1>t, <2>1, <2>2, <2>3, <2>6, <2>7, ClaimsAdvance
<1>9. CASE Closed!Answer(w)
  <2>1. /\ wpc[w] = "rpc" /\ wpc' = [wpc EXCEPT ![w] = "answered"]
        /\ UNCHANGED <<cnow, next, exhausted, local, shared>>
    BY <1>9 DEF Closed!Answer, Closed!WorkerStep
  <2>2. \A t \in Closed!Tallies : Closed!Total(t)' = Closed!Total(t) + Bit(t \in {})
    BY <1>0, <2>1, TotalsStay
  <2>3. Closed!Claimed' = Closed!Claimed /\ Closed!Claimed \in Nat
    BY <1>t, <2>1 DEF Closed!Claimed
  <2>4. Closed!Claimed' + Bit("rpc" \in BusyStates)
          = Closed!Claimed + Bit("answered" \in BusyStates) + Bit("ok" \in {})
              + Bit("error" \in {}) + Bit("drained" \in {})
    BY <2>3 DEF Bit, BusyStates
  <2>5. "rpc" \notin DrainStates
    BY DEF DrainStates
  <2>. QED
    BY <1>t, <2>1, <2>2, <2>4, <2>5, ClaimsAdvance
<1>10. CASE Closed!Count(w)
  <2> DEFINE tallies == IF cnow > ClosedDeadline THEN {"drained"}
                        ELSE {answer[w]} \cup IF answer[w] = "ok" THEN {"samples"} ELSE {}
             mine == [t \in Closed!Tallies |->
                         IF t \in tallies THEN local[w][t] + 1 ELSE local[w][t]]
  <2>1. /\ wpc[w] = "answered" /\ wpc' = [wpc EXCEPT ![w] = "check"]
        /\ UNCHANGED <<cnow, next, exhausted, shared>>
    BY <1>10 DEF Closed!Count, Closed!WorkerStep
  <2>2. local' = [local EXCEPT ![w] = mine]
    BY <1>10 DEF Closed!Count
  <2>3. answer[w] \in {"ok", "error"} /\ local[w] \in [Closed!Tallies -> Nat]
    BY <1>t DEF Closed!TypeOK
  <2>4. /\ tallies \in SUBSET Closed!Tallies
        /\ "samples" \in tallies <=> "ok" \in tallies
        /\ "drained" \in tallies => cnow > ClosedDeadline
        /\ Bit("ok" \in tallies) + Bit("error" \in tallies) + Bit("drained" \in tallies) = 1
    BY <2>3 DEF Bit, Closed!Tallies
  <2> HIDE DEF tallies
  <2>5. mine \in [Closed!Tallies -> Nat]
        /\ \A t \in Closed!Tallies : mine[t] = local[w][t] + Bit(t \in tallies)
    BY <2>3 DEF Bit
  <2> HIDE DEF mine
  <2>6. ASSUME NEW t \in Closed!Tallies
        PROVE  Closed!Total(t)' = Closed!Total(t) + Bit(t \in tallies)
    <3>1. /\ Cardinality(Closed!Held(t)) \in Nat /\ Cardinality(Closed!Held(t))' \in Nat
          /\ Cardinality(Closed!Held(t))' + local[w][t] = Cardinality(Closed!Held(t)) + mine[t]
      BY <1>t, <2>2, <2>5, HeldMoves
    <3>2. local[w][t] \in Nat /\ shared[t] \in Nat /\ Bit(t \in tallies) \in Nat
          /\ shared'[t] = shared[t] /\ mine[t] = local[w][t] + Bit(t \in tallies)
      BY <1>t, <2>1, <2>5 DEF Closed!TypeOK, Bit
    <3>3. /\ Closed!Total(t) = shared[t] + Cardinality(Closed!Held(t))
          /\ Closed!Total(t)' = shared'[t] + Cardinality(Closed!Held(t))'
      BY ClosedCardinality DEF Closed!Total
    <3>. QED
      BY <3>1, <3>2, <3>3
  <2>7. Closed!Claimed' = Closed!Claimed /\ Closed!Claimed \in Nat
    BY <1>t, <2>1 DEF Closed!Claimed
  <2>8. Closed!Claimed' + Bit("answered" \in BusyStates)
          = Closed!Claimed + Bit("check" \in BusyStates) + Bit("ok" \in tallies)
              + Bit("error" \in tallies) + Bit("drained" \in tallies)
    <3>1. Bit("answered" \in BusyStates) = 1 /\ Bit("check" \in BusyStates) = 0
      BY DEF Bit, BusyStates
    <3>2. Bit("ok" \in tallies) \in Nat /\ Bit("error" \in tallies) \in Nat
          /\ Bit("drained" \in tallies) \in Nat
      BY DEF Bit
    <3>. QED
      BY <2>4, <2>7, <3>1, <3>2
  <2>9. "answered" \notin DrainStates /\ ("drained" \in tallies => "check" \in DrainStates)
    BY <2>4 DEF DrainStates
  <2>. QED
    BY <1>t, <2>1, <2>4, <2>6, <2>8, <2>9, ClaimsAdvance
<1>11. CASE Closed!Merge(w)
  <2>1. /\ wpc[w] = "merge" /\ wpc' = [wpc EXCEPT ![w] = "done"]
        /\ UNCHANGED <<cnow, next, exhausted>>
        /\ shared' = [t \in Closed!Tallies |-> local[w][t] + shared[t]]
        /\ local' = [local EXCEPT ![w] = Closed!NoCounts]
    BY <1>11 DEF Closed!Merge, Closed!WorkerStep
  <2>2. Closed!NoCounts \in [Closed!Tallies -> Nat]
        /\ \A t \in Closed!Tallies : Closed!NoCounts[t] = 0
    BY DEF Closed!NoCounts
  <2>3. ASSUME NEW t \in Closed!Tallies
        PROVE  Closed!Total(t)' = Closed!Total(t) + Bit(t \in {})
    <3>1. /\ Cardinality(Closed!Held(t)) \in Nat /\ Cardinality(Closed!Held(t))' \in Nat
          /\ Cardinality(Closed!Held(t))' + local[w][t]
               = Cardinality(Closed!Held(t)) + Closed!NoCounts[t]
      BY <1>t, <2>1, <2>2, HeldMoves
    <3>2. local[w][t] \in Nat /\ shared[t] \in Nat /\ Bit(t \in {}) = 0
          /\ shared'[t] = local[w][t] + shared[t] /\ Closed!NoCounts[t] = 0
      BY <1>t, <2>1, <2>2 DEF Closed!TypeOK, Bit
    <3>3. /\ Closed!Total(t) = shared[t] + Cardinality(Closed!Held(t))
          /\ Closed!Total(t)' = shared'[t] + Cardinality(Closed!Held(t))'
      BY ClosedCardinality DEF Closed!Total
    <3>. QED
      BY <3>1, <3>2, <3>3
  <2>4. Closed!Claimed' = Closed!Claimed /\ Closed!Claimed \in Nat
    BY <1>t, <2>1 DEF Closed!Claimed
  <2>5. Closed!Claimed' + Bit("merge" \in BusyStates)
          = Closed!Claimed + Bit("done" \in BusyStates) + Bit("ok" \in {})
              + Bit("error" \in {}) + Bit("drained" \in {})
    BY <2>4 DEF Bit, BusyStates
  <2>6. "done" \in DrainStates /\ (exhausted' <=> next' > Rows)
    BY <1>t, <2>1 DEF DrainStates
  <2> DEFINE none == {}
  <2>7. /\ none \in SUBSET Closed!Tallies /\ "samples" \notin none /\ "ok" \notin none
        /\ "drained" \notin none
    OBVIOUS
  <2>8. /\ \A t \in Closed!Tallies : Closed!Total(t)' = Closed!Total(t) + Bit(t \in none)
        /\ Closed!Claimed' + Bit("merge" \in BusyStates)
             = Closed!Claimed + Bit("done" \in BusyStates) + Bit("ok" \in none)
                 + Bit("error" \in none) + Bit("drained" \in none)
    BY <2>3, <2>5
  <2> HIDE DEF none
  <2>. QED
    BY <2>1, <2>6, <2>7, <2>8, ClaimsAdvance
<1>. QED
  BY <1>2, <1>3, <1>4, <1>5, <1>6, <1>7, <1>8, <1>9, <1>10, <1>11 DEF Closed!Worker

LEMMA ClaimsStep ==
    ASSUME IsFiniteSet(Workers), Rows \in Nat, ClosedDeadline \in Nat,
           ClaimsInv, Closed!TypeOK', [Closed!Next]_(Closed!vars)
    PROVE  ClaimsInv'
<1>1. ASSUME NEW w \in Workers, Closed!Worker(w) \/ Closed!Answer(w) PROVE ClaimsInv'
  BY <1>1, ClaimsWorker
<1>2. ASSUME UNCHANGED <<wpc, next, exhausted, local, shared>>,
             DrainStates \subseteq DrainStates'
      PROVE  ClaimsInv'
  <2>1. \A t \in Closed!Tallies : Closed!Total(t)' = Closed!Total(t)
    BY <1>2, TotalsStay
  <2>2. /\ Closed!Total("ok")' = Closed!Total("ok")
        /\ Closed!Total("error")' = Closed!Total("error")
        /\ Closed!Total("drained")' = Closed!Total("drained")
        /\ Closed!Total("samples")' = Closed!Total("samples")
    BY <2>1 DEF Closed!Tallies
  <2>3. Working(BusyStates)' = Working(BusyStates) /\ Closed!Claimed' = Closed!Claimed
    BY <1>2 DEF Working, CountIn, BusyStates, Closed!Claimed
  <2>4. Working(DrainStates) <= Working(DrainStates)' /\ Working(DrainStates) \in Nat
        /\ Working(DrainStates)' \in Nat
    <3> DEFINE old == {d \in Workers : wpc[d] \in DrainStates}
               new == {d \in Workers : wpc'[d] \in DrainStates'}
    <3>1. old \subseteq new /\ IsFiniteSet(new)
      BY <1>2, FS_Subset
    <3>2. Working(DrainStates) = Cardinality(old) /\ Working(DrainStates)' = Cardinality(new)
      BY DEF Working, CountIn
    <3> HIDE DEF old, new
    <3>3. Cardinality(old) <= Cardinality(new) /\ IsFiniteSet(old)
      BY <3>1, FS_Subset
    <3>. QED
      BY <3>1, <3>2, <3>3, FS_CardinalityType
  <2>5. Closed!Total("drained") \in Nat
    BY TotalIsNat DEF ClaimsInv, Closed!Tallies
  <2>6. Closed!Total("drained")' <= Working(DrainStates)'
    <3>1. Closed!Total("drained") <= Working(DrainStates)
      BY DEF ClaimsInv
    <3>. QED
      BY <2>2, <2>4, <2>5, <3>1
  <2>. QED
    BY <1>2, <2>2, <2>3, <2>6 DEF ClaimsInv
<1>3. CASE Closed!Tick
  <2>1. cnow' = cnow + 1 /\ cnow \in Nat /\ UNCHANGED <<wpc, next, exhausted, local, shared>>
    BY <1>3 DEF Closed!Tick, Closed!workerVars, Closed!counts, ClaimsInv, Closed!TypeOK
  <2>2. cnow > ClosedDeadline => cnow' > ClosedDeadline
    BY <2>1
  <2>. QED
    BY <1>2, <2>1, <2>2 DEF DrainStates
<1>4. CASE Closed!Main
  <2>1. UNCHANGED <<cnow, wpc, next, exhausted, local, shared>>
    BY <1>4 DEF Closed!Main, Closed!MainReady, Closed!MainRelease, Closed!MainJoin,
       Closed!Report, Closed!MainStep, Closed!workerVars, Closed!counts
  <2>. QED
    BY <1>2, <2>1 DEF DrainStates
<1>5. CASE UNCHANGED Closed!vars
  <2>1. UNCHANGED <<cnow, wpc, next, exhausted, local, shared>>
    BY <1>5 DEF Closed!vars, Closed!workerVars, Closed!counts
  <2>. QED
    BY <1>2, <2>1 DEF DrainStates
<1>. QED
  BY <1>1, <1>3, <1>4, <1>5 DEF Closed!Next

\* The invariant counts what ClaimsAccounted does.
LEMMA ClaimsInvImplies ==
    ASSUME IsFiniteSet(Workers), ClaimsInv
    PROVE  Closed!ClaimsAccounted
<1>1. Working(BusyStates) = Cardinality(Closed!Busy)
  <2>1. Closed!Busy = {w \in Workers : wpc[w] \in BusyStates}
    BY DEF Closed!Busy, BusyStates
  <2>. QED
    BY <2>1 DEF Working, CountIn
<1>2. Working(DrainStates) <= Cardinality(Workers)
  <2> DEFINE some == {d \in Workers : wpc[d] \in DrainStates}
  <2>1. some \subseteq Workers
    OBVIOUS
  <2> HIDE DEF some
  <2>2. Cardinality(some) <= Cardinality(Workers)
    BY <2>1, FS_Subset
  <2>. QED
    BY <2>2 DEF some, Working, CountIn
<1>3. Closed!Total("drained") \in Nat /\ Working(DrainStates) \in Nat
      /\ Cardinality(Workers) \in Nat
  BY TotalIsNat, CountIsNat, FS_CardinalityType DEF ClaimsInv, Closed!Tallies, Working
<1>4. Closed!Total("drained") <= Cardinality(Workers)
  <2>1. Closed!Total("drained") <= Working(DrainStates)
    BY DEF ClaimsInv
  <2>. QED
    BY <1>2, <1>3, <2>1
<1>. QED
  BY <1>1, <1>4, ClosedCardinality DEF ClaimsInv, Closed!ClaimsAccounted

-----------------------------------------------------------------------------
(* The schedule of a rate.                                                 *)

\* Division rounds down to the largest multiple that fits.
LEMMA Floor ==
    ASSUME NEW a \in Nat, NEW n \in Nat \ {0}
    PROVE  /\ a \div n \in Nat /\ n * (a \div n) <= a /\ a < n * (a \div n + 1)
<1> DEFINE q == a \div n
           r == a % n
<1>1. q \in Nat /\ r \in Nat /\ r < n /\ a = n * q + r
  OBVIOUS
<1>2. n * (q + 1) = n * q + n
  BY <1>1
<1>. QED
  BY <1>1, <1>2

LEMMA TimesMonotone ==
    ASSUME NEW n \in Nat, NEW a \in Nat, NEW b \in Nat, a <= b
    PROVE  n * a <= n * b
<1>1. PICK c \in Nat : b = a + c
  <2>1. b - a \in Nat /\ b = a + (b - a)
    OBVIOUS
  <2>. QED
    BY <2>1
<1>2. n * (a + c) = n * a + n * c /\ n * c \in Nat /\ n * a \in Nat
  BY <1>1
<1>. QED
  BY <1>1, <1>2

LEMMA FloorBelow ==
    ASSUME NEW a \in Nat, NEW n \in Nat \ {0}, NEW m \in Nat
    PROVE  a \div n < m <=> a < n * m
<1> DEFINE q == a \div n
<1>1. q \in Nat /\ n * q <= a /\ a < n * (q + 1)
  BY Floor
<1> HIDE DEF q
<1>2. ASSUME q < m PROVE a < n * m
  <2>1. n * (q + 1) <= n * m /\ n * (q + 1) \in Nat /\ n * m \in Nat
    BY <1>1, <1>2, TimesMonotone
  <2>. QED
    BY <1>1, <2>1
<1>3. ASSUME m <= q PROVE n * m <= a
  <2>1. n * m <= n * q /\ n * q \in Nat /\ n * m \in Nat
    BY <1>1, <1>3, TimesMonotone
  <2>. QED
    BY <1>1, <2>1
<1>4. n * m \in Nat /\ (q < m \/ m <= q)
  BY <1>1
<1>5. ~(n * m <= a /\ a < n * m)
  BY <1>4
<1>. QED
  BY <1>2, <1>3, <1>4, <1>5 DEF q

\* The set of common divisors has a largest element, and gcd is one of them.
LEMMA GcdDivides ==
    ASSUME NEW left \in Nat \ {0}, NEW right \in Nat \ {0}
    PROVE  /\ Gcd(left, right) \in Nat \ {0}
           /\ left % Gcd(left, right) = 0 /\ right % Gcd(left, right) = 0
<1> DEFINE common == {d \in 1 .. left : left % d = 0 /\ right % d = 0}
           gaps == {left - d : d \in common}
<1>1. 1 \in common
  OBVIOUS
<1>2. gaps # {} /\ gaps \subseteq Nat
  BY <1>1
<1>3. PICK gap \in gaps : \A other \in gaps : <<other, gap>> \notin OpToRel(<, Nat)
  BY <1>2, NatLessThanWellFounded, WFMin
<1>4. PICK d \in common : gap = left - d
  OBVIOUS
<1>5. ASSUME NEW e \in common PROVE e <= d
  <2> SUFFICES ASSUME d < e PROVE FALSE
    OBVIOUS
  <2>1. left - e \in gaps /\ left - e \in Nat /\ gap \in Nat /\ left - e < gap
    BY <1>2, <1>4
  <2>. QED
    BY <1>3, <2>1 DEF OpToRel
<1>6. Gcd(left, right) \in common
  <2> HIDE DEF common
  <2>1. Gcd(left, right) = CHOOSE x \in common : \A e \in common : e <= x
    BY DEF Gcd, common
  <2>. QED
    BY <1>5, <2>1
<1>. QED
  BY <1>6

\* A positive number is a positive multiple of each of its divisors.
LEMMA Quotient ==
    ASSUME NEW a \in Nat \ {0}, NEW d \in Nat \ {0}, a % d = 0
    PROVE  a \div d \in Nat \ {0} /\ a = d * (a \div d)
<1> DEFINE q == a \div d
           r == a % d
<1>1. q \in Nat /\ a = d * q + r
  OBVIOUS
<1>2. q # 0
  <2> SUFFICES ASSUME q = 0 PROVE FALSE
    OBVIOUS
  <2>1. d * 0 = 0
    OBVIOUS
  <2>. QED
    BY <1>1, <2>1
<1>. QED
  BY <1>1, <1>2

LEMMA Cancel ==
    ASSUME NEW d \in Nat \ {0}, NEW a \in Nat, NEW b \in Nat, d * a <= d * b
    PROVE  a <= b
<1> SUFFICES ASSUME b + 1 <= a PROVE FALSE
  OBVIOUS
<1>1. d * (b + 1) <= d * a /\ d * (b + 1) = d * b + d /\ d * a \in Nat /\ d * b \in Nat
  BY TimesMonotone
<1>. QED
  BY <1>1

\* A rate that the probe accepts is in lowest terms positive, and at most one
\* request per tick.
LEMMA ReducedRate ==
    ASSUME NEW n \in Nat, NEW d \in Nat \ {0}, NEW ticks \in Nat \ {0},
           Acceptable(n, d, ticks)
    PROVE  LET rate == Reduced(n, d)
           IN  /\ rate.num \in Nat \ {0} /\ rate.den \in Nat \ {0}
               /\ rate.num <= ticks * rate.den
               /\ \E g \in Nat \ {0} : n = g * rate.num /\ d = g * rate.den
<1> DEFINE g == Gcd(n, d)
           num == n \div g
           den == d \div g
<1>1. n \in Nat \ {0} /\ n <= ticks * d
  BY DEF Acceptable
<1>2. g \in Nat \ {0} /\ n % g = 0 /\ d % g = 0
  BY <1>1, GcdDivides
<1> HIDE DEF g
<1>3. num \in Nat \ {0} /\ n = g * num /\ den \in Nat \ {0} /\ d = g * den
  BY <1>1, <1>2, Quotient
<1>4. Reduced(n, d) = [num |-> num, den |-> den]
  BY DEF Reduced, g
<1> HIDE DEF num, den
<1>5. ticks * (g * den) = g * (ticks * den) /\ ticks * den \in Nat
  BY <1>2, <1>3
<1>6. g * num <= g * (ticks * den)
  BY <1>1, <1>3, <1>5
<1>7. num <= ticks * den
  BY <1>2, <1>3, <1>5, <1>6, Cancel
<1>8. \E h \in Nat \ {0} : n = h * num /\ d = h * den
  BY <1>2, <1>3
<1>9. Reduced(n, d).num = num /\ Reduced(n, d).den = den
  BY <1>4
<1>. QED
  BY <1>3, <1>7, <1>8, <1>9

\* The slots of a duration are those due before its end.
LEMMA SlotsDue ==
    ASSUME NEW n \in Nat \ {0}, NEW d \in Nat \ {0}, NEW ticks \in Nat \ {0},
           NEW length \in Nat, NEW k \in Nat
    PROVE  (k * ticks * d) \div n < length * ticks
             <=> k < (length * n + d - 1) \div d
<1> DEFINE load == length * n
<1>1. load \in Nat
  OBVIOUS
<1>2. (k * ticks * d) \div n < length * ticks <=> d * k < load
  <2>1. k * ticks * d \in Nat /\ length * ticks \in Nat
    OBVIOUS
  <2>2. (k * ticks * d) \div n < length * ticks <=> k * ticks * d < n * (length * ticks)
    BY <2>1, FloorBelow
  <2>3. k * ticks * d = ticks * (d * k) /\ n * (length * ticks) = ticks * load
    OBVIOUS
  <2>4. d * k \in Nat
    OBVIOUS
  <2> HIDE DEF load
  <2>5. ticks * load <= ticks * (d * k) <=> load <= d * k
    BY <1>1, <2>4, TimesMonotone, Cancel
  <2>6. ticks * load \in Nat /\ ticks * (d * k) \in Nat
    BY <1>1, <2>4
  <2>. QED
    BY <1>1, <2>2, <2>3, <2>4, <2>5, <2>6
<1>3. k < (load + d - 1) \div d <=> d * k < load
  <2> HIDE DEF load
  <2> DEFINE top == load + d - 1
  <2>1. top \in Nat
    BY <1>1
  <2>2. k + 1 <= top \div d <=> d * (k + 1) <= top
    <3>1. top \div d < k + 1 <=> top < d * (k + 1)
      BY <2>1, FloorBelow
    <3>2. top \div d \in Nat /\ d * (k + 1) \in Nat
      BY <2>1, Floor
    <3>. QED
      BY <2>1, <3>1, <3>2
  <2>3. d * (k + 1) = d * k + d /\ d * k \in Nat
    OBVIOUS
  <2>4. top \div d \in Nat
    BY <2>1, Floor
  <2>. QED
    BY <1>1, <2>2, <2>3, <2>4
<1>. QED
  BY <1>2, <1>3

\* Two slots of a rate of at most one request per tick are due a tick apart.
LEMMA SlotsApart ==
    ASSUME NEW n \in Nat \ {0}, NEW d \in Nat \ {0}, NEW ticks \in Nat \ {0},
           n <= ticks * d, NEW k \in Nat \ {0}
    PROVE  ((k - 1) * ticks * d) \div n < (k * ticks * d) \div n
<1> DEFINE before == (k - 1) * ticks * d
           after == k * ticks * d
<1>1. before \in Nat /\ after \in Nat
  <2>1. k - 1 \in Nat
    OBVIOUS
  <2>. QED
    BY <2>1
<1>2. after = before + ticks * d
  OBVIOUS
<1>3. before + n <= after
  <2> HIDE DEF before, after
  <2>. QED
    BY <1>1, <1>2
<1> HIDE DEF before, after
<1>4. after \div n \in Nat /\ after < n * (after \div n + 1)
  BY <1>1, Floor
<1>5. n * (after \div n + 1) = n * (after \div n) + n /\ n * (after \div n) \in Nat
  BY <1>4
<1>6. before < n * (after \div n)
  BY <1>1, <1>3, <1>4, <1>5
<1>7. before \div n < after \div n
  BY <1>1, <1>4, <1>6, FloorBelow
<1>. QED
  BY <1>7 DEF before, after

-----------------------------------------------------------------------------
(* A run of the probe takes one of its loops; the variables of the others  *)
(* rest.                                                                   *)

ClosedInv == IF mode = "closed" THEN StartInv /\ ClaimsInv ELSE ClosedRests

RateInv ==
    /\ given.num \in Nat /\ given.den \in Nat \ {0} /\ Acceptable(given.num, given.den, Ticks)
    /\ seconds \in Nat /\ walked \in Nat

LEMMA ClosedInvInit == ProbeInit => ClosedInv
<1> SUFFICES ASSUME ProbeInit PROVE ClosedInv
  OBVIOUS
<1>1. CASE mode = "closed" /\ Closed!Init
  <2>1. StartInv /\ Closed!TypeOK
    BY <1>1, StartInit, TypeInit, ProbeConstants
  <2>2. ClaimsInv
    BY <1>1, <2>1, NoClaims, ProbeConstants DEF Closed!Init, BusyStates
  <2>. QED
    BY <1>1, <2>1, <2>2 DEF ClosedInv
<1>. QED
  BY <1>1 DEF ProbeInit, ClosedInv

LEMMA ClosedInvStep == ClosedInv /\ [ProbeNext]_allVars => ClosedInv'
<1> SUFFICES ASSUME ClosedInv, [ProbeNext]_allVars PROVE ClosedInv'
  OBVIOUS
<1>1. UNCHANGED mode /\ (mode # "closed" => UNCHANGED closedVars)
  BY DEF ProbeNext, OpenStep, ClosedStep, allVars
<1>2. CASE mode = "closed"
  <2>1. [Closed!Next]_(Closed!vars)
    BY <1>2 DEF ProbeNext, OpenStep, ClosedStep, allVars, closedVars, Closed!vars,
       Closed!workerVars, Closed!counts
  <2>2. StartInv' /\ Closed!TypeOK'
    BY <1>2, <2>1, StartStep, TypeStep, ProbeConstants DEF ClosedInv, ClaimsInv
  <2>3. ClaimsInv'
    BY <1>2, <2>1, <2>2, ClaimsStep, ProbeConstants DEF ClosedInv
  <2>. QED
    BY <1>1, <1>2, <2>2, <2>3 DEF ClosedInv
<1>3. CASE mode # "closed"
  BY <1>1, <1>3 DEF ClosedInv, ClosedRests, closedVars
<1>. QED
  BY <1>2, <1>3

\* Every row that a worker claims is counted once, whatever the number of workers
\* and rows, the deadline and the order in which the RPCs return and the workers
\* merge.
THEOREM EveryClaimAccounted == ProbeSpec => []ClaimsAccounted
<1>1. ClosedInv => ClaimsAccounted
  <2> SUFFICES ASSUME ClosedInv PROVE Closed!ClaimsAccounted
    BY DEF ClaimsAccounted
  <2>1. CASE mode = "closed"
    BY <2>1, ClaimsInvImplies, ProbeConstants DEF ClosedInv
  <2>2. CASE mode # "closed"
    <3>1. ClosedRests
      BY <2>2 DEF ClosedInv
    <3>2. Closed!TypeOK
      BY <3>1 DEF ClosedRests, Closed!TypeOK, Closed!MainStates, Closed!WorkerStates,
         Closed!NoCounts
    <3>3. ClaimsInv
      BY <3>1, <3>2, NoClaims, ProbeConstants DEF ClosedRests, BusyStates
    <3>. QED
      BY <3>3, ClaimsInvImplies, ProbeConstants
  <2>. QED
    BY <2>1, <2>2
<1>. QED
  BY <1>1, ClosedInvInit, ClosedInvStep, PTL DEF ProbeSpec

\* No row is claimed or sent before the shared start, however late main or a
\* worker is; and a probe that gives up at the barrier has claimed none at all.
THEOREM NoRowBeforeTheStart == ProbeSpec => []NothingSentEarly
<1>1. ClosedInv => NothingSentEarly
  <2> SUFFICES ASSUME ClosedInv PROVE Closed!NothingSentEarly
    BY DEF NothingSentEarly
  <2>1. CASE mode = "closed"
    BY <2>1 DEF ClosedInv, StartInv, Closed!NothingSentEarly, Closed!Busy, Waiting
  <2>2. CASE mode # "closed"
    BY <2>2 DEF ClosedInv, ClosedRests, Closed!NothingSentEarly, Closed!Busy
  <2>. QED
    BY <2>1, <2>2
<1>. QED
  BY <1>1, ClosedInvInit, ClosedInvStep, PTL DEF ProbeSpec

\* Every variable of the closed loop keeps its type, for any number of workers and rows.
THEOREM LoopTypeCorrect == Closed!Spec => []Closed!TypeOK
<1>1. Closed!Init => Closed!TypeOK
  BY TypeInit, ProbeConstants
<1>2. Closed!TypeOK /\ [Closed!Next]_(Closed!vars) => Closed!TypeOK'
  BY TypeStep
<1>. QED
  BY <1>1, <1>2, PTL DEF Closed!Spec

LEMMA RateInvInit == ProbeInit => RateInv
<1>1. CASE RateRests
  <2>1. given.num = 1 /\ given.den = 1 /\ seconds = 1 /\ walked = 0
    BY <1>1 DEF RateRests
  <2>2. Acceptable(1, 1, Ticks)
    BY ProbeConstants DEF Acceptable
  <2>. QED
    BY <2>1, <2>2 DEF RateInv
<1>2. CASE RateInit
  <2>1. given.num \in 1 .. MaxNumerator /\ given.den \in Denominators
        /\ Acceptable(given.num, given.den, Ticks)
    BY <1>2 DEF RateInit
  <2>2. seconds \in 1 .. MaxSeconds /\ walked = 0
    BY <1>2 DEF RateInit
  <2>3. \A m : \A k \in 1 .. m : k \in Nat
    OBVIOUS
  <2>. QED
    BY <2>1, <2>2, <2>3, ProbeConstants DEF RateInv
<1>. QED
  BY <1>1, <1>2 DEF ProbeInit

LEMMA RateInvStep == RateInv /\ [ProbeNext]_allVars => RateInv'
<1> SUFFICES ASSUME RateInv, [ProbeNext]_allVars PROVE RateInv'
  OBVIOUS
<1>1. UNCHANGED <<given, seconds>> /\ walked' \in {walked, walked + 1}
  BY DEF ProbeNext, OpenStep, ClosedStep, WalkSlot, allVars, rateVars
<1>. QED
  BY <1>1 DEF RateInv

\* The slots of any decimal rate and any duration are exactly those due in its
\* half-open interval: none is offered late, none is left out.
THEOREM SlotsAreThePlateau == ProbeSpec => []SlotsFillThePlateau
<1>1. RateInv => SlotsFillThePlateau
  <2> SUFFICES ASSUME RateInv PROVE SlotsFillThePlateau
    OBVIOUS
  <2> DEFINE n == GivenRate.num
             d == GivenRate.den
  <2>1. n \in Nat \ {0} /\ d \in Nat \ {0} /\ Ticks \in Nat \ {0}
    BY ReducedRate, ProbeConstants DEF RateInv, GivenRate
  <2>2. seconds \in Nat /\ walked \in Nat
    BY DEF RateInv
  <2> HIDE DEF n, d
  <2>3. (walked * Ticks * d) \div n < seconds * Ticks
          <=> walked < (seconds * n + d - 1) \div d
    BY <2>1, <2>2, SlotsDue
  <2>. QED
    BY <2>3 DEF SlotsFillThePlateau, OffsetFor, SlotsFor, n, d
<1>. QED
  BY <1>1, RateInvInit, RateInvStep, PTL DEF ProbeSpec

\* Every offset is the exact one rounded down, and later than the one before: the
\* schedule does not drift, whatever the rate and however far it is walked.
THEOREM OffsetsNeverDrift == ProbeSpec => []OffsetsExact
<1>1. RateInv => OffsetsExact
  <2> SUFFICES ASSUME RateInv PROVE OffsetsExact
    OBVIOUS
  <2> DEFINE n == GivenRate.num
             d == GivenRate.den
             before == (walked - 1) * Ticks * d
             after == walked * Ticks * d
  <2>1. n \in Nat \ {0} /\ d \in Nat \ {0} /\ Ticks \in Nat \ {0} /\ n <= Ticks * d
    BY ReducedRate, ProbeConstants DEF RateInv, GivenRate
  <2>2. walked \in Nat
    BY DEF RateInv
  <2>3. after \in Nat
    BY <2>1, <2>2
  <2>4. walked > 0 => before \div n < after \div n
    <3> HIDE DEF n, d
    <3>. QED
      BY <2>1, <2>2, SlotsApart
  <2> HIDE DEF n, d, before, after
  <2>5. n * (after \div n) <= after /\ after < n * (after \div n + 1) /\ after \div n \in Nat
    BY <2>1, <2>3, Floor
  <2>6. (after \div n) * n = n * (after \div n) /\ (after \div n + 1) * n = n * (after \div n + 1)
    BY <2>1, <2>5
  <2>7. PICK g \in Nat \ {0} : given.num = g * n /\ given.den = g * d
    BY ReducedRate, ProbeConstants DEF RateInv, GivenRate, n, d
  <2> DEFINE offset == after \div n
  <2>8. g * (n * offset) <= g * after /\ ~(g * (n * (offset + 1)) <= g * after)
    <3> HIDE DEF offset
    <3>1. n * offset \in Nat /\ n * (offset + 1) \in Nat /\ offset \in Nat
      BY <2>1, <2>5 DEF offset
    <3>2. ~(n * (offset + 1) <= after) /\ n * offset <= after
      BY <2>3, <2>5, <3>1 DEF offset
    <3>. QED
      BY <2>3, <3>1, <3>2, TimesMonotone, Cancel
  <2>9. /\ offset * given.num = g * (n * offset)
        /\ (offset + 1) * given.num = g * (n * (offset + 1))
        /\ walked * Ticks * given.den = g * after
    BY <2>1, <2>2, <2>5, <2>7 DEF after
  <2>10. g * (n * (offset + 1)) \in Nat /\ g * after \in Nat
    BY <2>1, <2>3, <2>5
  <2>11. /\ offset * given.num <= walked * Ticks * given.den
         /\ walked * Ticks * given.den < (offset + 1) * given.num
         /\ walked > 0 => before \div n < offset
    BY <2>4, <2>8, <2>9, <2>10
  <2>12. /\ OffsetFor(GivenRate, Ticks, walked) = offset
         /\ OffsetFor(GivenRate, Ticks, walked - 1) = before \div n
    BY DEF OffsetFor, n, d, before, after
  <2> HIDE DEF offset
  <2>. QED
    BY <2>11, <2>12 DEF OffsetsExact
<1>. QED
  BY <1>1, RateInvInit, RateInvStep, PTL DEF ProbeSpec
=============================================================================
