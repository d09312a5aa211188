-------------------------- MODULE MCLedgerRecovery --------------------------
(* What surrounds a measurement, on small instances: the planners that       *)
(* reserve rows of the corpus before a campaign, and the same-Pod recovery   *)
(* cycle.  A behaviour is of one of them, which `mode' says; the variables   *)
(* of the other rest.                                                        *)
EXTENDS SequenceLedger, FiniteSets, Sequences, TLC

CONSTANTS                                                    \* the cycle
    Offsets, PostSlots, Checkpoints, Instants, Barrier, Bound, BoundDeadline,
    CancelDeadline, RequestTimeout, DeleteTimeout, OverloadStart, OverloadEnd,
    PostStart, PostEnd, RpcTimeout, LogInterval, MetricSettle, CounterSettle,
    GreenMax, AmberMax, MaxFaults

VARIABLES
    mode,
    clock, target, logged, driverJobs, hurt, faults, bound, monitor, seen, runner,
    due, files, status                                       \* the cycle

cycleVars ==
    <<clock, target, logged, driverJobs, hurt, faults, bound, monitor, seen, runner,
      due, files, status>>
allVars == <<vars, cycleVars, mode>>

Recovery == INSTANCE SamePodRecovery WITH jobs <- driverJobs

\* The plan and the script's limits are numbers, of which those of the cycle are as
\* large as the script requires of them.  The clock stops no later than the deadline of
\* the barrier (T0 is at least 360 seconds ahead), in the window of the checkpoint, and
\* between its deadline and T0, with time for a request; the settling time of the
\* telemetry has room for an interval of the log: the target logs after the last
\* response and before its counters are read.
ASSUME RecoveryConstants ==
    /\ Offsets \in Seq(Nat) /\ Offsets # <<>> /\ PostSlots \in Nat /\ PostSlots >= 2
    /\ {Barrier, Bound, BoundDeadline, CancelDeadline} \subseteq Int
    /\ {OverloadStart, OverloadEnd, PostStart, PostEnd} \subseteq Nat /\ PostStart <= PostEnd
    /\ {RequestTimeout, DeleteTimeout, RpcTimeout, MetricSettle, CounterSettle} \subseteq Nat
    /\ LogInterval \in Nat \ {0}
    /\ Instants \subseteq Int /\ \E first \in Instants : \A i \in Instants : first <= i
    /\ \E i \in Instants : i <= Barrier
    /\ \E i \in Instants : Bound <= i /\ i <= BoundDeadline
    /\ \E i \in Instants : BoundDeadline < i /\ i + RequestTimeout < 0
    /\ \E i, k \in Instants :
          /\ PostEnd + RpcTimeout <= i /\ i + LogInterval <= k
          /\ k <= PostEnd + RpcTimeout + MetricSettle
          /\ \A m \in Instants : m <= i \/ k <= m

MCIndices == {-1, 0, 1, 2}
Symmetry == Permutations(Planners)

SparseProbes == <<34, 55, 89>>
Watched == {582}
SomeInstants ==
    {-180, -175, -155, -150, -25, 0, 185, 305, 339, 360, 394, 400,
     580, 582, 610, 625, 655}
MinusBarrier == -180
MinusBound == -175
MinusBoundDeadline == -155
MinusCancelDeadline == -25

PlannersRest ==
    /\ pc = [p \in Planners |-> "refused"] /\ index = [p \in Planners |-> 0]
    /\ jobs = [p \in Planners |-> 2] /\ listed = [p \in Planners |-> {}]
    /\ file = [p \in Planners |-> "none"]

MCInit ==
    \/ mode = "ledger" /\ Init /\ Recovery!Init
    \/ mode = "recovery" /\ PlannersRest /\ Recovery!Init

MCNext ==
    \/ mode = "ledger" /\ Next /\ UNCHANGED <<mode, cycleVars>>
    \/ mode = "recovery" /\ Recovery!Next /\ UNCHANGED <<mode, vars>>

MCSpec == MCInit /\ [][MCNext]_allVars

-----------------------------------------------------------------------------
\* A valid summary measured one undisturbed Pod and the drivers alone
\* (SamePodRecovery).
ValidIsExclusive == Recovery!ValidIsExclusive

\* The recovery time follows the order of the requests (SamePodRecovery).
RecoveryIsChronological == Recovery!RecoveryIsChronological

\* A run that was never authorized sends nothing, or says that it could not
\* prove it (SamePodRecovery).
UnauthorizedLoadIsReported == Recovery!UnauthorizedLoadIsReported

\* When nothing goes wrong the cycle is measured (SamePodRecovery).
CleanCycleIsMeasured == Recovery!CleanCycleIsMeasured
=============================================================================
