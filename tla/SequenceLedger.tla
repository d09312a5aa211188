--------------------------- MODULE SequenceLedger ---------------------------
(***************************************************************************)
(* The planner of the horizontal scale campaign                            *)
(* (hack/arena-sc-horizontal-scale-plan.py): every campaign reserves a     *)
(* block of the sequence namespace, gives each driver Job a range of it,   *)
(* and marks the reservation with a sequence-ledger.json under the ledger  *)
(* root, which every later planner must find disjoint from its own.        *)
(*                                                                         *)
(* A planner is one run of main.  It is not under the cluster's lock, and  *)
(* it may be killed at any step: write_text opens the file before it fills *)
(* it, so a ledger may be left torn.  The ledgers are listed first and     *)
(* read afterwards.                                                        *)
(***************************************************************************)
EXTENDS Integers

CONSTANTS
    Planners,           \* the runs of the planner
    Indices,            \* the campaign_index values they are given
    JobCounts,          \* how many Jobs their rungs need
    NamespaceStart,     \* SEQUENCE_NAMESPACE_START
    NamespaceEnd,       \* SEQUENCE_NAMESPACE_END
    CampaignSpan,       \* CAMPAIGN_SPAN
    JobSpan,            \* JOB_SEQUENCE_SPAN
    MaxRows             \* MAX_ROWS

ASSUME LedgerAssumption ==
    /\ Indices \subseteq Int /\ JobCounts \subseteq Nat
    /\ NamespaceStart \in Nat /\ NamespaceEnd \in Nat
    /\ CampaignSpan \in Nat \ {0} /\ MaxRows \in Nat
    /\ JobSpan = MaxRows + 1

VARIABLES
    pc,         \* where each planner is
    index,      \* its campaign_index
    jobs,       \* how many Jobs its plan has
    listed,     \* the planners whose ledgers it found under the root
    file        \* its sequence-ledger.json

vars == <<pc, index, jobs, listed, file>>

PlannerStates == {"build", "list", "read", "plan", "open", "fill", "reserved", "refused", "killed"}

TypeOK ==
    /\ pc \in [Planners -> PlannerStates]
    /\ index \in [Planners -> Indices] /\ jobs \in [Planners -> JobCounts]
    /\ listed \in [Planners -> SUBSET Planners]
    /\ file \in [Planners -> {"none", "torn", "whole"}]
    /\ \A p \in Planners :
        /\ file[p] = "whole" <=> pc[p] = "reserved"
        /\ file[p] = "torn" => pc[p] \in {"fill", "killed"}

Init ==
    /\ pc = [p \in Planners |-> "build"]
    /\ index \in [Planners -> Indices] /\ jobs \in [Planners -> JobCounts]
    /\ listed = [p \in Planners |-> {}]
    /\ file = [p \in Planners |-> "none"]

----------------------------------------------------------------------------
\* The arithmetic of build_plan.

ReservationStart(i) == NamespaceStart + i * CampaignSpan
ReservationEnd(i) == ReservationStart(i) + CampaignSpan

\* Seeded fault: a Job's range is one row short.
JobStartShort(i, a) == ReservationStart(i) + a * MaxRows

\* The Job with allocation ordinal a owns JobStart(i, a) .. JobEnd(i, a) - 1.
JobStart(i, a) == ReservationStart(i) + a * JobSpan
JobEnd(i, a) == JobStart(i, a) + JobSpan

\* The rows the ledger expects of it: expected_first_sequence .. expected_last_sequence.
RowsOf(i, a) == JobStart(i, a) .. JobStart(i, a) + MaxRows

IndexInRange(i) == 0 <= i /\ i < (NamespaceEnd - NamespaceStart) \div CampaignSpan

\* No Job's range runs over the end of the reservation.
Fits(i, n) == \A a \in 0 .. n - 1 : JobEnd(i, a) <= ReservationEnd(i)

Overlap(i, j) == ReservationStart(i) < ReservationEnd(j) /\ ReservationStart(j) < ReservationEnd(i)

----------------------------------------------------------------------------

Goto(p, l) == pc' = [pc EXCEPT ![p] = l]

BuildPlan(p) ==
    /\ pc[p] = "build"
    /\ Goto(p, IF IndexInRange(index[p]) /\ Fits(index[p], jobs[p]) THEN "list" ELSE "refused")
    /\ UNCHANGED <<index, jobs, listed, file>>

\* _iter_existing_ledgers: a torn ledger is a file too, and the planner's own is skipped.
ListLedgers(p) ==
    /\ pc[p] = "list"
    /\ listed' = [listed EXCEPT ![p] = {q \in Planners \ {p} : file[q] # "none"}]
    /\ Goto(p, "read")
    /\ UNCHANGED <<index, jobs, file>>

\* Seeded fault: a malformed ledger is skipped.
ConflictSkipsMalformed(p, q) == file[q] = "whole" /\ Overlap(index[p], index[q])

\* A malformed ledger cannot prove that its range is disjoint.
Conflict(p, q) == file[q] = "torn" \/ Overlap(index[p], index[q])

AssertNoOverlap(p) ==
    /\ pc[p] = "read"
    /\ Goto(p, IF \E q \in listed[p] : Conflict(p, q) THEN "refused" ELSE "plan")
    /\ UNCHANGED <<index, jobs, listed, file>>

WritePlan(p) ==
    /\ pc[p] = "plan"
    /\ Goto(p, "open")
    /\ UNCHANGED <<index, jobs, listed, file>>

\* The ledger is written last: it is the irreversible reservation marker.
OpenLedger(p) ==
    /\ pc[p] = "open"
    /\ file' = [file EXCEPT ![p] = "torn"]
    /\ Goto(p, "fill")
    /\ UNCHANGED <<index, jobs, listed>>

FillLedger(p) ==
    /\ pc[p] = "fill"
    /\ file' = [file EXCEPT ![p] = "whole"]
    /\ Goto(p, "reserved")
    /\ UNCHANGED <<index, jobs, listed>>

Kill(p) ==
    /\ pc[p] \notin {"reserved", "refused", "killed"}
    /\ Goto(p, "killed")
    /\ UNCHANGED <<index, jobs, listed, file>>

Planner(p) ==
    \/ BuildPlan(p) \/ ListLedgers(p) \/ AssertNoOverlap(p)
    \/ WritePlan(p) \/ OpenLedger(p) \/ FillLedger(p) \/ Kill(p)

Next == \E p \in Planners : Planner(p)

Spec == Init /\ [][Next]_vars

----------------------------------------------------------------------------

\* The campaign of p may run: its planner has exited with status 0.
Reserved(p) == pc[p] = "reserved"

\* A reservation, even one whose planner was killed while it marked it, is
\* never given out again to a planner that found its ledger
\* (assert_no_overlap, and the order in which main writes).
NeverRecycled ==
    \A p, q \in Planners :
        Reserved(p) /\ q \in listed[p] =>
            file[q] = "whole" /\ ~Overlap(index[p], index[q])

\* No row of the corpus is sent twice: the Jobs of one campaign, and those of
\* two campaigns of which one found the other's ledger, share no sequence
\* (the ranges of build_plan and the check of assert_no_overlap together).
RowsNeverShared ==
    \A p, q \in Planners : \A a \in 0 .. jobs[p] - 1, b \in 0 .. jobs[q] - 1 :
        /\ Reserved(p)
        /\ (p = q /\ a # b) \/ (q \in listed[p] /\ Reserved(q))
        => RowsOf(index[p], a) \cap RowsOf(index[q], b) = {}

\* What the ledger's own rule says: its existence consumes the reservation, so
\* two campaigns never hold overlapping ones.  The check and the write are not
\* one step, and two planners may each miss the other's ledger.
ReservationsDisjoint ==
    \A p, q \in Planners :
        p # q /\ Reserved(p) /\ Reserved(q) => ~Overlap(index[p], index[q])
=============================================================================
