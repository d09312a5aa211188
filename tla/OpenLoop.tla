------------------------------ MODULE OpenLoop ------------------------------
(***************************************************************************)
(* run_open_loop of instrumentation/reference/src/bin/                     *)
(* sustained-corpus-probe.rs: a dispatcher that walks a fixed schedule of  *)
(* slots, and one task per initiated RPC.  A slot is initiated, or dropped *)
(* because the dispatcher came too late, or because max_in_flight RPCs are *)
(* out; it is never waited for.  After the last slot the probe drains.     *)
(*                                                                         *)
(* Time advances in ticks, at any moment of any thread.  The clock         *)
(* saturates once no comparison of the code can tell later times apart,    *)
(* and so does the age of an RPC once its timeout has expired.             *)
(***************************************************************************)
EXTENDS OfferedRate, FiniteSets

CONSTANTS
    Numerator, Denominator,   \* the offered rate, as parse reduced it
    TicksPerSecond,           \* what a second is: 1e9 nanoseconds in the code
    Duration,      \* duration_seconds
    MaxInFlight,   \* max_in_flight
    LateAfter,     \* dispatch_late_after, in ticks
    DropAfter,     \* drop_late_after, in ticks
    RpcTimeout     \* rpc_timeout, in ticks

ASSUME OpenLoopAssumption ==
    /\ Numerator \in Nat \ {0} /\ Denominator \in Nat \ {0}
    /\ TicksPerSecond \in Nat \ {0}
    /\ Acceptable(Numerator, Denominator, TicksPerSecond)
    /\ Duration \in Nat \ {0} /\ MaxInFlight \in Nat \ {0}
    /\ LateAfter \in Nat /\ DropAfter \in Nat /\ DropAfter >= LateAfter
    /\ RpcTimeout \in Nat \ {0}

Rate == [num |-> Numerator, den |-> Denominator]
OfferedSlots == SlotsFor(Rate, Duration)
Scheduled(s) == OffsetFor(Rate, TicksPerSecond, s)
Slots == 0 .. OfferedSlots - 1
Deadline == Duration * TicksPerSecond
LastTick == Deadline + LateAfter + 1     \* where the clock saturates

VARIABLES
    now,         \* ticks since start_instant
    pc,          \* where the dispatcher is
    slot,        \* the slot the loop is at
    dispatched,  \* dispatch_time, read before the decision on the slot
    permits,     \* available permits of the in-flight semaphore
    task,        \* where the RPC task of each slot is
    age,         \* ticks since the RPC of the slot started
    status,      \* the status of a resolved RPC
    inTime,      \* completed_within_plateau of a finished RPC
    res,         \* OpenLoopResults
    lateSlots,   \* history: the slots counted in dispatch_late_slots
    lostSlots    \* history: the slots dropped

clockVars == <<now, age>>
taskVars == <<task, status, inTime, permits>>
dispatcherVars == <<pc, slot, dispatched, res, lateSlots, lostSlots>>
vars == <<clockVars, taskVars, dispatcherVars>>

\* Every status but OK is counted the same way as any other.
Statuses == {"OK", "ERROR", "CLIENT_RPC_TIMEOUT"}
TaskStates == {"none", "spawned", "running", "resolved", "finished", "joined"}
Counters == {"initiated", "completed", "within", "after", "ok_within",
             "dropped_in_flight_limit", "dropped_schedule_late",
             "dispatch_late", "initiated_late"}

TypeOK ==
    /\ now \in 0 .. LastTick
    /\ pc \in {"sleep", "join", "clock", "decide", "drain", "done"}
    /\ slot \in 0 .. OfferedSlots
    /\ dispatched \in 0 .. LastTick
    /\ permits \in 0 .. MaxInFlight
    /\ task \in [Slots -> TaskStates]
    /\ age \in [Slots -> 0 .. RpcTimeout]
    /\ status \in [Slots -> Statuses]
    /\ inTime \in [Slots -> BOOLEAN]
    /\ res \in [Counters -> Nat]
    /\ lateSlots \subseteq Slots /\ lostSlots \subseteq Slots

Init ==
    /\ now = 0 /\ pc = "sleep" /\ slot = 0 /\ dispatched = 0
    /\ permits = MaxInFlight
    /\ task = [s \in Slots |-> "none"]
    /\ age = [s \in Slots |-> 0]
    /\ status = [s \in Slots |-> "OK"]
    /\ inTime = [s \in Slots |-> FALSE]
    /\ res = [c \in Counters |-> 0]
    /\ lateSlots = {} /\ lostSlots = {}

\* res with one more of each of the counters in cs.
Plus(cs) == [c \in Counters |-> IF c \in cs THEN res[c] + 1 ELSE res[c]]

Lag == dispatched - Scheduled(slot)
\* Seeded fault: a lag of exactly the threshold is late here, but not when
\* dispatch_late_slots is counted.
IsLateOrOnTheEdge == Lag >= LateAfter

IsLate == Lag > LateAfter
TooLate == dispatched >= Deadline \/ Lag > DropAfter

-----------------------------------------------------------------------------
(* Time.                                                                   *)

Running == {s \in Slots : task[s] = "running"}

Tick ==
    /\ pc # "done"
    /\ now < LastTick \/ \E s \in Running : age[s] < RpcTimeout
    /\ now' = IF now < LastTick THEN now + 1 ELSE now
    /\ age' = [s \in Slots |-> IF s \in Running /\ age[s] < RpcTimeout
                               THEN age[s] + 1 ELSE age[s]]
    /\ UNCHANGED <<taskVars, dispatcherVars>>

-----------------------------------------------------------------------------
(* The dispatcher.                                                         *)

\* sleep_until(scheduled): wakes at or after the slot's time.
Wake ==
    /\ pc = "sleep" /\ slot < OfferedSlots
    /\ now >= Scheduled(slot)
    /\ pc' = "join"
    /\ UNCHANGED <<clockVars, taskVars, slot, dispatched, res, lateSlots, lostSlots>>

\* record_completion of one finished task, in the loop or in the drain.
Join(s) ==
    /\ pc \in {"join", "drain"}
    /\ task[s] = "finished"
    /\ task' = [task EXCEPT ![s] = "joined"]
    /\ res' = Plus({"completed", IF inTime[s] THEN "within" ELSE "after"}
                     \cup IF inTime[s] /\ status[s] = "OK" THEN {"ok_within"} ELSE {})
    /\ UNCHANGED <<clockVars, status, inTime, permits, pc, slot, dispatched,
                   lateSlots, lostSlots>>

\* try_join_next finds nothing more.
NothingToJoin ==
    /\ pc = "join"
    /\ \A s \in Slots : task[s] # "finished"
    /\ pc' = "clock"
    /\ UNCHANGED <<clockVars, taskVars, slot, dispatched, res, lateSlots, lostSlots>>

ReadClock ==
    /\ pc = "clock"
    /\ pc' = "decide"
    /\ dispatched' = now
    /\ LET late == now - Scheduled(slot) > LateAfter IN
          /\ res' = Plus(IF late THEN {"dispatch_late"} ELSE {})
          /\ lateSlots' = IF late THEN lateSlots \cup {slot} ELSE lateSlots
    /\ UNCHANGED <<clockVars, taskVars, slot, lostSlots>>

\* The end of an iteration; dispatch_time goes out of scope.
NextSlot ==
    /\ slot' = slot + 1
    /\ pc' = IF slot + 1 < OfferedSlots THEN "sleep" ELSE "drain"
    /\ dispatched' = 0

DropScheduleLate ==
    /\ pc = "decide" /\ TooLate
    /\ res' = Plus({"dropped_schedule_late"})
    /\ lostSlots' = lostSlots \cup {slot}
    /\ NextSlot
    /\ UNCHANGED <<clockVars, taskVars, lateSlots>>

\* Seeded fault: a slot over the limit is dropped without being counted.
DropUncounted ==
    /\ pc = "decide" /\ ~TooLate /\ permits = 0
    /\ lostSlots' = lostSlots \cup {slot}
    /\ NextSlot
    /\ UNCHANGED <<clockVars, taskVars, res, lateSlots>>

\* Seeded fault: the dispatcher awaits a permit instead of dropping the slot.
AwaitPermit ==
    /\ pc = "decide" /\ ~TooLate /\ permits = 0
    /\ UNCHANGED vars

DropInFlightLimit ==
    /\ pc = "decide" /\ ~TooLate /\ permits = 0
    /\ res' = Plus({"dropped_in_flight_limit"})
    /\ lostSlots' = lostSlots \cup {slot}
    /\ NextSlot
    /\ UNCHANGED <<clockVars, taskVars, lateSlots>>

\* Seeded fault: the permit is dropped at once, not moved into the task.
InitiateWithoutPermit ==
    /\ pc = "decide" /\ ~TooLate /\ permits > 0
    /\ task' = [task EXCEPT ![slot] = "spawned"]
    /\ res' = Plus({"initiated"} \cup IF IsLate THEN {"initiated_late"} ELSE {})
    /\ NextSlot
    /\ UNCHANGED <<clockVars, permits, status, inTime, lateSlots, lostSlots>>

Initiate ==
    /\ pc = "decide" /\ ~TooLate /\ permits > 0
    /\ permits' = permits - 1
    /\ task' = [task EXCEPT ![slot] = "spawned"]
    /\ res' = Plus({"initiated"} \cup IF IsLate THEN {"initiated_late"} ELSE {})
    /\ NextSlot
    /\ UNCHANGED <<clockVars, status, inTime, lateSlots, lostSlots>>

\* Every task is joined: the report is made.
Finalize ==
    /\ pc = "drain"
    /\ \A s \in Slots : task[s] \in {"none", "joined"}
    /\ pc' = "done"
    /\ UNCHANGED <<clockVars, taskVars, slot, dispatched, res, lateSlots, lostSlots>>

-----------------------------------------------------------------------------
(* The task of an RPC, which holds its permit to its end.                  *)

TaskStep(s, from, to) == task[s] = from /\ task' = [task EXCEPT ![s] = to]

Start(s) ==
    /\ TaskStep(s, "spawned", "running")
    /\ UNCHANGED <<clockVars, status, inTime, permits, dispatcherVars>>

\* The classify call returns, at any time or never.
Answer(s) ==
    /\ TaskStep(s, "running", "resolved")
    /\ \E outcome \in {"OK", "ERROR"} : status' = [status EXCEPT ![s] = outcome]
    /\ age' = [age EXCEPT ![s] = 0]
    /\ UNCHANGED <<now, inTime, permits, dispatcherVars>>

\* Seeded fault: an RPC is awaited without a timeout.
NeverTimeOut(s) ==
    /\ age[s] = RpcTimeout
    /\ task[s] = "running"
    /\ UNCHANGED vars

TimeOut(s) ==
    /\ age[s] = RpcTimeout
    /\ TaskStep(s, "running", "resolved")
    /\ status' = [status EXCEPT ![s] = "CLIENT_RPC_TIMEOUT"]
    /\ age' = [age EXCEPT ![s] = 0]
    /\ UNCHANGED <<now, inTime, permits, dispatcherVars>>

\* The completion is dated, and the task ends and drops its permit.
Finish(s) ==
    /\ TaskStep(s, "resolved", "finished")
    /\ inTime' = [inTime EXCEPT ![s] = now <= Deadline]
    /\ permits' = permits + 1
    /\ UNCHANGED <<clockVars, status, dispatcherVars>>

-----------------------------------------------------------------------------
Dispatcher ==
    \/ Wake \/ NothingToJoin \/ ReadClock \/ DropScheduleLate
    \/ DropInFlightLimit \/ Initiate \/ Finalize
    \/ \E s \in Slots : Join(s)

Task(s) == Start(s) \/ TimeOut(s) \/ Finish(s)

Next == Tick \/ Dispatcher \/ \E s \in Slots : Task(s) \/ Answer(s)

Spec == Init /\ [][Next]_vars

\* Time passes and the runtime polls the dispatcher and the RPC tasks, timers
\* included.  No fairness for Answer: the classifier may never reply.
FairSpec ==
    /\ Spec
    /\ WF_vars(Tick) /\ WF_vars(Dispatcher)
    /\ \A s \in Slots : WF_vars(Task(s))

-----------------------------------------------------------------------------
(* Properties.                                                             *)

InFlight == {s \in Slots : task[s] \in {"spawned", "running", "resolved"}}
Unjoined == {s \in Slots : task[s] \in {"spawned", "running", "resolved", "finished"}}

\* Never more than max_in_flight RPCs are out, and every permit is either
\* available or held by exactly one of them (the _permit of the spawned task).
InFlightBounded == permits + Cardinality(InFlight) = MaxInFlight

\* The three assertions of finalize, as they hold at every step: the slots
\* passed are initiated or dropped, the initiated are joined or still tasks,
\* the joined are in the plateau or in the drain.
Accounted ==
    /\ slot = res["initiated"] + res["dropped_in_flight_limit"]
                               + res["dropped_schedule_late"]
    /\ res["initiated"] = res["completed"] + Cardinality(Unjoined)
    /\ res["completed"] = res["within"] + res["after"]

\* finalize's assertions cannot fail: "every offered slot must be initiated or
\* dropped", "every initiated RPC must finish during the bounded drain", "every
\* completion must be assigned to the plateau or drain".
FinalizeHolds ==
    pc = "done" =>
        /\ OfferedSlots = res["initiated"] + res["dropped_in_flight_limit"]
                                           + res["dropped_schedule_late"]
        /\ res["initiated"] = res["completed"]
        /\ res["completed"] = res["within"] + res["after"]

\* dropped_or_late_slots_union of the report counts each slot that was late or
\* dropped once, also the ones that are both.
LateOrLostCountedOnce ==
    pc \in {"sleep", "drain", "done"} =>
        Cardinality(lateSlots \cup lostSlots)
          = res["dropped_in_flight_limit"] + res["dropped_schedule_late"]
            + res["initiated_late"]

\* The schedule is open-loop: between two of its sleeps the dispatcher never
\* waits, whatever the RPCs do and however many are out.
ScheduleNeverBlocks == pc \in {"join", "clock", "decide"} => ENABLED <<Dispatcher>>_vars

\* The probe ends though the classifier never answers: the drain is bounded by
\* the RPC timeout.
ProbeEnds == <>(pc = "done")
=============================================================================
