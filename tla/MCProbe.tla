------------------------------ MODULE MCProbe -------------------------------
(* The probe on a small instance of each of its loops: the open one, the     *)
(* closed one, and the schedule of every small decimal rate, walked slot by  *)
(* slot.  A behaviour runs one of them, which `mode' says (the probe takes   *)
(* --concurrency or --target-qps); the variables of the others rest.         *)
EXTENDS OpenLoop

CONSTANTS
    w1, w2, Workers, Rows, ClosedStart, ClosedDeadline,     \* the closed loop
    MaxNumerator, Denominators, Ticks, MaxSeconds           \* the rates

ASSUME ProbeConstants ==
    /\ IsFiniteSet(Workers) /\ Rows \in Nat
    /\ ClosedStart \in Nat /\ ClosedDeadline \in Nat
    /\ Denominators \subseteq Nat \ {0} /\ Ticks \in Nat \ {0}

VARIABLES
    mode,
    cnow, mpc, wpc, next, answer, local, shared, exhausted, \* the closed loop
    given, seconds, walked      \* the rate as read, the duration, the slot

closedVars == <<cnow, mpc, wpc, next, answer, local, shared, exhausted>>
rateVars == <<given, seconds, walked>>
allVars == <<vars, closedVars, rateVars, mode>>

Closed == INSTANCE ClosedLoop WITH
    now <- cnow, SharedStart <- ClosedStart, Deadline <- ClosedDeadline

GivenRate == Reduced(given.num, given.den)

OpenInit == Init
OpenRests ==
    /\ now = 0 /\ pc = "done" /\ slot = 0 /\ dispatched = 0 /\ permits = MaxInFlight
    /\ task = [s \in Slots |-> "none"] /\ age = [s \in Slots |-> 0]
    /\ status = [s \in Slots |-> "OK"] /\ inTime = [s \in Slots |-> FALSE]
    /\ res = [c \in Counters |-> 0] /\ lateSlots = {} /\ lostSlots = {}

ClosedRests ==
    /\ cnow = 0 /\ mpc = "reported" /\ next = 0 /\ exhausted = FALSE
    /\ wpc = [w \in Workers |-> "done"] /\ answer = [w \in Workers |-> "ok"]
    /\ local = [w \in Workers |-> Closed!NoCounts] /\ shared = Closed!NoCounts

RateInit ==
    /\ given \in {r \in [num : 1 .. MaxNumerator, den : Denominators] :
                    Acceptable(r.num, r.den, Ticks)}
    /\ seconds \in 1 .. MaxSeconds
    /\ walked = 0

RateRests == given = [num |-> 1, den |-> 1] /\ seconds = 1 /\ walked = 0

ProbeInit ==
    \/ mode = "open" /\ OpenInit /\ ClosedRests /\ RateRests
    \/ mode = "closed" /\ OpenRests /\ Closed!Init /\ RateRests
    \/ mode = "rate" /\ OpenRests /\ ClosedRests /\ RateInit

WalkSlot ==
    /\ walked < SlotsFor(GivenRate, seconds)
    /\ walked' = walked + 1
    /\ UNCHANGED <<given, seconds>>

OpenStep(A) == mode = "open" /\ A /\ UNCHANGED <<mode, closedVars, rateVars>>
ClosedStep(A) == mode = "closed" /\ A /\ UNCHANGED <<mode, vars, rateVars>>

ProbeNext ==
    \/ OpenStep(Next)
    \/ ClosedStep(Closed!Next)
    \/ mode = "rate" /\ WalkSlot /\ UNCHANGED <<mode, vars, closedVars>>

\* The fairness of each loop, as its module states it.
ProbeSpec ==
    /\ ProbeInit /\ [][ProbeNext]_allVars
    /\ WF_allVars(OpenStep(Tick)) /\ WF_allVars(OpenStep(Dispatcher))
    /\ \A s \in Slots : WF_allVars(OpenStep(Task(s)))
    /\ WF_allVars(ClosedStep(Closed!Tick)) /\ WF_allVars(ClosedStep(Closed!Main))
    /\ \A w \in Workers : WF_allVars(ClosedStep(Closed!Worker(w)))
                       /\ WF_allVars(ClosedStep(Closed!Answer(w)))

-----------------------------------------------------------------------------
\* Every row the closed loop claimed is an RPC on its way or counted once, and
\* each success in the plateau is one sample (ClosedLoop).
ClaimsAccounted == Closed!ClaimsAccounted

\* No RPC of the closed loop leaves before the shared start, nor from a probe
\* that gives up at its barrier (ClosedLoop).
NothingSentEarly == Closed!NothingSentEarly

\* The closed loop ends, or gives up, if the classifier answers (ClosedLoop).
LoopEnds == Closed!LoopEnds

\* The slots are exactly the offsets in the half-open plateau [start, start +
\* duration): the ones counted are due before the deadline, and the first one
\* not counted is not ("slot_interval" of the probe's report).
SlotsFillThePlateau ==
    (OffsetFor(GivenRate, Ticks, walked) < seconds * Ticks)
        <=> (walked < SlotsFor(GivenRate, seconds))

\* Rounding each offset on its own never drifts from the exact schedule by a
\* tick, however long the schedule, and no two slots fall together
\* ("schedule_formula" of the probe's report).
OffsetsExact ==
    LET offset == OffsetFor(GivenRate, Ticks, walked)
        exact  == walked * Ticks * given.den       \* times given.num
    IN  /\ offset * given.num <= exact
        /\ exact < (offset + 1) * given.num
        /\ walked > 0 => OffsetFor(GivenRate, Ticks, walked - 1) < offset
=============================================================================
