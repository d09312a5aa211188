--------------------------- MODULE ScaleCampaign ---------------------------
(***************************************************************************)
(* Horizontal scale campaigns over one cluster                             *)
(* (hack/arena-sc-horizontal-scale-campaign.sh).  A campaign takes the     *)
(* benchmark lock, a ConfigMap; creates its target Deployment and scales   *)
(* it batch by batch; runs its cells one after the other, each a set of    *)
(* driver Jobs that must all be ARMED before the lead to T0 is over; and   *)
(* cleans up from an EXIT trap, driven by flags the script has set so far. *)
(*                                                                         *)
(* The script, its drivers, the target Pods and the clock interleave.  A   *)
(* signal, a failed command or a failed gate may end the script between    *)
(* any two commands, and a command that created an object may still be     *)
(* reported as failed.  Time is known relative to the T0 of the cell only. *)
(***************************************************************************)
EXTENDS Integers, Sequences

CONSTANTS
    Campaigns,  \* the runs of the script, by SCALE_RUN_ID
    Endpoints,  \* the target Pods, by endpoint ordinal
    Active,     \* the active endpoints of each cell of the plan
    Batches,    \* how many scale batches reach RUNG_REPLICAS
    LastSent,   \* a driver's last row past its sequence base (9_999: 10000 rows, no warm-up)
    LastWanted, \* the last row that a completed report must show (10_000 in the code)
    NoOwner     \* the lock's ConfigMap does not exist

ASSUME CampaignAssumption ==
    /\ Active \in Seq(SUBSET Endpoints) /\ Batches \in Nat \ {0}
    /\ LastSent \in Nat /\ LastWanted \in Nat
    /\ NoOwner \notin Campaigns

Cells == Len(Active)
Gone == -1
Undisturbed == Cells + 1

VARIABLES
    lock,       \* the run-id of the lock's ConfigMap
    target,     \* each target Deployment: Gone, or the batches it was scaled to
    jobs,       \* each campaign's driver Jobs, by endpoint
    phase,      \* where the clock is relative to T0 of the cell
    drift,      \* the cell in which its target Pods first changed
    pc,         \* where each script is
    flags,      \* live_started, lock_acquired, target_created, measurement_complete, planned
    verified,   \* armed_verified_epoch_ms of the cell
    cell,       \* how many cells are recorded
    error,      \* cleanup_error is not empty
    status      \* campaign-status.json

cluster == <<lock, target, jobs, phase, drift>>
script == <<flags, verified, cell, error, status>>
vars == <<cluster, pc, script>>

Phases == {"lead", "gate", "plateau", "drain", "over"}
JobStates == {"absent", "suspended", "started", "armed", "loading", "complete", "failed", "crashed"}
InCell == {"creating", "jobCreated", "releasing", "arming", "armCheck", "armed", "measuring",
           "collect", "deleting"}
Working == {"setup", "unlocked", "lockCreated", "locked", "targetCreated", "scaling",
            "cells", "cellDone", "settling"} \cup InCell
InCleanup == {"cleanup", "cleanTarget", "verify", "unlock", "report"}
Statuses == {"none", "planned", "completed", "aborted", "cleanup_failed"}

TypeOK ==
    /\ lock \in Campaigns \cup {NoOwner}
    /\ target \in [Campaigns -> Gone .. Batches]
    /\ jobs \in [Campaigns -> [Endpoints -> JobStates]]
    /\ phase \in [Campaigns -> Phases] /\ verified \in [Campaigns -> Phases \cup {"none"}]
    /\ drift \in [Campaigns -> 0 .. Undisturbed]
    /\ pc \in [Campaigns -> Working \cup InCleanup \cup {"ended", "killed"}]
    /\ flags \in [Campaigns -> SUBSET {"live", "lock", "target", "complete", "planned"}]
    /\ cell \in [Campaigns -> 0 .. Cells]
    /\ error \in [Campaigns -> BOOLEAN] /\ status \in [Campaigns -> Statuses]

NoJobs == [e \in Endpoints |-> "absent"]

\* The run directory is the script's own and nothing of the run exists yet.
Init ==
    /\ lock = NoOwner
    /\ target = [c \in Campaigns |-> Gone] /\ jobs = [c \in Campaigns |-> NoJobs]
    /\ phase = [c \in Campaigns |-> "over"] /\ verified = [c \in Campaigns |-> "none"]
    /\ drift = [c \in Campaigns |-> Undisturbed]
    /\ pc = [c \in Campaigns |-> "setup"] /\ flags = [c \in Campaigns |-> {}]
    /\ cell = [c \in Campaigns |-> 0]
    /\ error = [c \in Campaigns |-> FALSE] /\ status = [c \in Campaigns |-> "none"]

----------------------------------------------------------------------------

Goto(c, l) == pc' = [pc EXCEPT ![c] = l]
Step(c, from, to) == pc[c] = from /\ Goto(c, to)
Flag(c, f) == flags' = [flags EXCEPT ![c] = @ \cup {f}]
SetJob(c, e, s) == jobs' = [jobs EXCEPT ![c][e] = s]

ActiveNow(c) == IF cell[c] < Cells THEN Active[cell[c] + 1] ELSE {}
CurrentJobs(c) == {jobs[c][e] : e \in ActiveNow(c)}

\* Seeded fault: readiness is compared, but not the restart count.
HealthyIfReady(c) == target[c] # Gone

\* capture_health and the gates like it: the target Pods are the same ones and never restarted.
Healthy(c) == drift[c] = Undisturbed

----------------------------------------------------------------------------
\* Before and under the lock.

\* PLAN_ONLY=1: the plan is printed and the script exits.
PlanOnly(c) ==
    /\ Step(c, "setup", "cleanup")
    /\ Flag(c, "planned")
    /\ UNCHANGED <<cluster, verified, cell, error, status>>

\* The plan is reserved, the reference Deployment is parked and the capacity suffices.
GoLive(c) ==
    /\ Step(c, "setup", "unlocked")
    /\ Flag(c, "live")
    /\ UNCHANGED <<cluster, verified, cell, error, status>>

\* The ConfigMap is created; the reply may be lost, and the script then dies.
CreateLock(c) ==
    /\ lock = NoOwner
    /\ lock' = c
    /\ Step(c, "unlocked", "lockCreated") \/ Step(c, "unlocked", "cleanup")
    /\ UNCHANGED <<target, jobs, phase, drift, script>>

FlagLock(c) ==
    /\ Step(c, "lockCreated", "locked")
    /\ Flag(c, "lock")
    /\ UNCHANGED <<cluster, verified, cell, error, status>>

CreateTarget(c) ==
    /\ target' = [target EXCEPT ![c] = 0]
    /\ Step(c, "locked", "targetCreated") \/ Step(c, "locked", "cleanup")
    /\ UNCHANGED <<lock, jobs, phase, drift, script>>

FlagTarget(c) ==
    /\ Step(c, "targetCreated", "scaling")
    /\ Flag(c, "target")
    /\ UNCHANGED <<cluster, verified, cell, error, status>>

\* Two more replicas, which become Ready and stay so for the stability gate.
ScaleBatch(c) ==
    /\ pc[c] = "scaling" /\ target[c] < Batches /\ Healthy(c)
    /\ target' = [target EXCEPT ![c] = @ + 1]
    /\ UNCHANGED <<lock, jobs, phase, drift, pc, script>>

\* The topology gate, the inventory and the counters' baseline.
FreezeInventory(c) ==
    /\ target[c] = Batches /\ Healthy(c)
    /\ Step(c, "scaling", "cells")
    /\ UNCHANGED <<cluster, script>>

----------------------------------------------------------------------------
\* The cells.

\* No Job of the run remains, and T0 is START_LEAD_SECONDS ahead.
StartCell(c) ==
    /\ cell[c] < Cells /\ jobs[c] = NoJobs
    /\ Step(c, "cells", "creating")
    /\ phase' = [phase EXCEPT ![c] = "lead"]
    /\ verified' = [verified EXCEPT ![c] = "none"]
    /\ UNCHANGED <<lock, target, jobs, drift, flags, cell, error, status>>

CreateJob(c, e) ==
    /\ e \in ActiveNow(c) /\ jobs[c][e] = "absent"
    /\ Step(c, "creating", "jobCreated")
    /\ SetJob(c, e, "suspended")
    /\ UNCHANGED <<lock, target, phase, drift, script>>

CaptureHealth(c) ==
    /\ Healthy(c)
    /\ Step(c, "jobCreated", "creating") \/ Step(c, "cellDone", "cells")
    /\ UNCHANGED <<cluster, script>>

AllSuspended(c) ==
    /\ CurrentJobs(c) \subseteq {"suspended"}
    /\ Step(c, "creating", "releasing")
    /\ UNCHANGED <<cluster, script>>

ReleaseJob(c, e) ==
    /\ pc[c] = "releasing" /\ jobs[c][e] = "suspended"
    /\ SetJob(c, e, "started")
    /\ UNCHANGED <<lock, target, phase, drift, pc, script>>

AllReleased(c) ==
    /\ "suspended" \notin CurrentJobs(c)
    /\ Step(c, "releasing", "arming")
    /\ UNCHANGED <<cluster, script>>

\* The loop reads the clock before it collects the drivers' logs.
BeforeArmedDeadline(c) ==
    /\ phase[c] = "lead"
    /\ Step(c, "arming", "armCheck")
    /\ UNCHANGED <<cluster, script>>

AllArmed(c) == CurrentJobs(c) \cap {"suspended", "started", "failed"} = {}

\* Seeded fault: the clock is not read again once the logs are collected.
ValidateArmedLate(c) ==
    /\ Healthy(c)
    /\ \/ AllArmed(c) /\ Step(c, "armCheck", "armed") /\ verified' = [verified EXCEPT ![c] = phase[c]]
       \/ ~AllArmed(c) /\ Step(c, "armCheck", "arming") /\ UNCHANGED verified
    /\ UNCHANGED <<cluster, flags, cell, error, status>>

\* --validate-armed-cell: every driver's record, and the clock at the validation itself.
ValidateArmed(c) ==
    /\ Healthy(c)
    /\ \/ /\ AllArmed(c) /\ phase[c] = "lead"
          /\ Step(c, "armCheck", "armed")
          /\ verified' = [verified EXCEPT ![c] = phase[c]]
       \/ /\ ~AllArmed(c) \/ phase[c] # "lead"
          /\ Step(c, "armCheck", "arming")
          /\ UNCHANGED verified
    /\ UNCHANGED <<cluster, flags, cell, error, status>>

\* The driver Pods are Running, Ready and not restarted.
CheckDrivers(c) ==
    /\ CurrentJobs(c) \cap {"complete", "failed", "crashed"} = {}
    /\ Step(c, "armed", "measuring")
    /\ UNCHANGED <<cluster, script>>

AllComplete(c) ==
    /\ Healthy(c) /\ CurrentJobs(c) \subseteq {"complete"}
    /\ Step(c, "measuring", "collect")
    /\ UNCHANGED <<cluster, script>>

\* validate_report: what a driver says it sent is what the gate expects it to.
RowsMatch == LastSent = LastWanted

\* Every driver's report is collected and the cell's accounting validated.
CollectReports(c) ==
    /\ RowsMatch
    /\ Step(c, "collect", "deleting")
    /\ UNCHANGED <<cluster, script>>

\* A deletion that fails leaves any of the Jobs behind.
SomeJobsLeft(c) == {[e \in Endpoints |-> IF e \in E THEN jobs[c][e] ELSE "absent"] : E \in SUBSET Endpoints}

DeleteCellJobs(c) ==
    \/ /\ Step(c, "deleting", "cellDone")
       /\ jobs' = [jobs EXCEPT ![c] = NoJobs]
       /\ cell' = [cell EXCEPT ![c] = @ + 1]
       /\ UNCHANGED <<lock, target, phase, drift, flags, verified, error, status>>
    \/ /\ Step(c, "deleting", "cleanup")
       /\ \E left \in SomeJobsLeft(c) : jobs' = [jobs EXCEPT ![c] = left]
       /\ UNCHANGED <<lock, target, phase, drift, script>>

\* The targets are the frozen ones and their counters reconcile with the drivers.
Reconcile(c) ==
    /\ cell[c] = Cells /\ Healthy(c)
    /\ Step(c, "cells", "settling")
    /\ UNCHANGED <<cluster, script>>

Summarize(c) ==
    /\ Step(c, "settling", "cleanup")
    /\ Flag(c, "complete")
    /\ UNCHANGED <<cluster, verified, cell, error, status>>

----------------------------------------------------------------------------
\* The ways out.

\* Seeded fault: the drivers may drain for ever.
NoDrainLimit(c) == FALSE

DrainLimit(c) == phase[c] = "over"

\* A gate that fails.
MustDie(c) ==
    \/ pc[c] = "unlocked" /\ lock # NoOwner
    \/ pc[c] \in {"scaling", "jobCreated", "armCheck", "measuring", "cellDone"} /\ ~Healthy(c)
    \/ pc[c] = "cells" /\ cell[c] = Cells /\ ~Healthy(c)
    \/ pc[c] = "cells" /\ cell[c] < Cells /\ jobs[c] # NoJobs
    \/ pc[c] = "arming" /\ phase[c] # "lead"
    \/ pc[c] = "armed" /\ CurrentJobs(c) \cap {"complete", "failed", "crashed"} # {}
    \/ pc[c] = "measuring" /\ CurrentJobs(c) \cap {"failed", "crashed"} # {}
    \/ pc[c] = "measuring" /\ ~(CurrentJobs(c) \subseteq {"complete"}) /\ DrainLimit(c)
    \/ pc[c] = "collect" /\ ~RowsMatch

Die(c) ==
    /\ MustDie(c)
    /\ Goto(c, "cleanup")
    /\ UNCHANGED <<cluster, script>>

\* INT, TERM, or a command that fails under errexit.
Interrupt(c) ==
    /\ pc[c] \in Working
    /\ Goto(c, "cleanup")
    /\ UNCHANGED <<cluster, script>>

\* KILL, or a second signal: the cleanup has put the default handlers back.
Kill(c) ==
    /\ pc[c] \in Working \cup InCleanup
    /\ Goto(c, "killed")
    /\ UNCHANGED <<cluster, script>>

----------------------------------------------------------------------------
\* The EXIT trap.

CleanJobs(c) ==
    /\ Step(c, "cleanup", "cleanTarget")
    /\ \/ "live" \notin flags[c] /\ UNCHANGED <<jobs, error>>
       \/ /\ "live" \in flags[c]
          /\ jobs' = [jobs EXCEPT ![c] = NoJobs] /\ UNCHANGED error
       \/ /\ "live" \in flags[c]
          /\ \E left \in SomeJobsLeft(c) : jobs' = [jobs EXCEPT ![c] = left]
          /\ error' = [error EXCEPT ![c] = TRUE]
    /\ UNCHANGED <<lock, target, phase, drift, flags, verified, cell, status>>

CleanTarget(c) ==
    /\ Step(c, "cleanTarget", "verify")
    /\ \/ "target" \notin flags[c] /\ UNCHANGED <<target, error>>
       \/ /\ "target" \in flags[c]
          /\ target' = [target EXCEPT ![c] = Gone] /\ UNCHANGED error
       \/ /\ "target" \in flags[c]
          /\ \E left \in {target[c], Gone} : target' = [target EXCEPT ![c] = left]
          /\ error' = [error EXCEPT ![c] = TRUE]
    /\ UNCHANGED <<lock, jobs, phase, drift, flags, verified, cell, status>>

\* Nothing that carries the run's label remains and the reference Deployment is
\* unchanged; what cannot be read, or has changed, is an error.
Verify(c) ==
    /\ Step(c, "verify", "unlock")
    /\ \/ "live" \notin flags[c] /\ UNCHANGED error
       \/ "live" \in flags[c] /\ target[c] = Gone /\ jobs[c] = NoJobs /\ UNCHANGED error
       \/ "live" \in flags[c] /\ error' = [error EXCEPT ![c] = TRUE]
    /\ UNCHANGED <<cluster, flags, verified, cell, status>>

\* Seeded fault: the lock is deleted whoever holds it.
UnlockAnyone(c) ==
    /\ Step(c, "unlock", "report")
    /\ lock' = NoOwner
    /\ UNCHANGED <<target, jobs, phase, drift, script>>

\* The lock is released even if the workload could not be removed.
Unlock(c) ==
    /\ Step(c, "unlock", "report")
    /\ \/ "lock" \notin flags[c] /\ UNCHANGED <<lock, error>>
       \/ "lock" \in flags[c] /\ lock = c /\ lock' = NoOwner /\ UNCHANGED error
       \/ /\ "lock" \in flags[c]
          /\ lock' \in {lock} \cup (IF lock = c THEN {NoOwner} ELSE {})
          /\ error' = [error EXCEPT ![c] = TRUE]
    /\ UNCHANGED <<target, jobs, phase, drift, flags, verified, cell, status>>

\* Seeded fault: a complete measurement hides a failed cleanup.
ReportedStatusHides(c) ==
    IF "complete" \in flags[c] THEN "completed"
    ELSE IF error[c] THEN "cleanup_failed"
    ELSE IF "planned" \in flags[c] THEN "planned" ELSE "aborted"

ReportedStatus(c) ==
    IF error[c] THEN "cleanup_failed"
    ELSE IF "complete" \in flags[c] THEN "completed"
    ELSE IF "planned" \in flags[c] THEN "planned" ELSE "aborted"

Report(c) ==
    /\ Step(c, "report", "ended")
    /\ status' = [status EXCEPT ![c] = ReportedStatus(c)]
    /\ UNCHANGED <<cluster, flags, verified, cell, error>>

----------------------------------------------------------------------------
\* The cluster: the clock, the drivers and the target Pods.

Tick(c) ==
    /\ pc[c] \in InCell \/ jobs[c] # NoJobs
    /\ \E p \in {<<"lead", "gate">>, <<"gate", "plateau">>, <<"plateau", "drain">>, <<"drain", "over">>} :
        phase[c] = p[1] /\ phase' = [phase EXCEPT ![c] = p[2]]
    /\ UNCHANGED <<lock, target, jobs, drift, pc, script>>

\* A driver arms, waits for T0, loads its endpoint through the plateau and reports.
JobMove(c, e, from, to) == jobs[c][e] = from /\ SetJob(c, e, to)

Driver(c, e) ==
    /\ \/ phase[c] \in {"lead", "gate"} /\ JobMove(c, e, "started", "armed")
       \/ phase[c] \notin {"lead", "gate"} /\ JobMove(c, e, "armed", "loading")
       \/ phase[c] \in {"drain", "over"} /\ JobMove(c, e, "loading", "complete")
       \/ JobMove(c, e, "started", "failed")
       \/ JobMove(c, e, "armed", "crashed") \/ JobMove(c, e, "loading", "crashed")
    /\ UNCHANGED <<lock, target, phase, drift, pc, script>>

\* A target Pod restarts or is replaced, which every later look at the Pods shows.
Drift(c) ==
    /\ target[c] > 0 /\ Healthy(c)
    /\ drift' = [drift EXCEPT ![c] = cell[c]]
    /\ UNCHANGED <<lock, target, jobs, phase, pc, script>>

----------------------------------------------------------------------------

Run(c) ==
    \/ PlanOnly(c) \/ GoLive(c) \/ CreateLock(c) \/ FlagLock(c) \/ CreateTarget(c) \/ FlagTarget(c)
    \/ ScaleBatch(c) \/ FreezeInventory(c)
    \/ StartCell(c) \/ \E e \in Endpoints : CreateJob(c, e) \/ ReleaseJob(c, e)
    \/ CaptureHealth(c) \/ AllSuspended(c) \/ AllReleased(c)
    \/ BeforeArmedDeadline(c) \/ ValidateArmed(c) \/ CheckDrivers(c) \/ AllComplete(c)
    \/ CollectReports(c) \/ DeleteCellJobs(c) \/ Reconcile(c) \/ Summarize(c) \/ Die(c)

Cleanup(c) == CleanJobs(c) \/ CleanTarget(c) \/ Verify(c) \/ Unlock(c) \/ Report(c)

World(c) == Tick(c) \/ Drift(c) \/ \E e \in Endpoints : Driver(c, e)

Next == \E c \in Campaigns : Run(c) \/ Cleanup(c) \/ Interrupt(c) \/ Kill(c) \/ World(c)

Spec == Init /\ [][Next]_vars

\* The script runs its commands, each of which has a timeout, and time passes.
Fairness == \A c \in Campaigns : WF_vars(Run(c)) /\ WF_vars(Cleanup(c)) /\ WF_vars(Tick(c))

FairSpec == Spec /\ Fairness

----------------------------------------------------------------------------

\* Between the creation of its lock and its release a campaign owns the lock,
\* however another campaign starts, fails or cleans up (lock_acquired and the
\* owner check of cleanup).
HoldersOwnTheLock ==
    \A c \in Campaigns :
        pc[c] \in Working \ {"setup", "unlocked"}
            \/ ("lock" \in flags[c] /\ pc[c] \in InCleanup \ {"report"})
        => lock = c

\* What a campaign leaves behind, it reports: a Job or a target Deployment of a
\* campaign that has ended means cleanup_failed, whatever flags the script had
\* set when it was stopped.
LeftoversReported ==
    \A c \in Campaigns :
        pc[c] = "ended" /\ (jobs[c] # NoJobs \/ target[c] # Gone) => status[c] = "cleanup_failed"

\* While a campaign is under the lock, the Jobs of another one are leftovers
\* of a cleanup that knows that it failed (the order of cleanup's steps).
OthersAreLeftovers ==
    \A c, d \in Campaigns :
        c # d /\ pc[c] \in Working \ {"setup", "unlocked"} /\ jobs[d] # NoJobs =>
            error[d] /\ pc[d] \in {"report", "ended", "killed"}

\* A cell is measured only if all its drivers were verified ARMED before the
\* lead to T0 was over, although the script reads the clock, then the logs.
BarrierClosedInTime ==
    \A c \in Campaigns :
        pc[c] \in {"measuring", "collect"} =>
            /\ verified[c] = "lead"
            /\ CurrentJobs(c) \subseteq {"armed", "loading", "complete", "crashed"}

\* A completed campaign has recorded every cell, and no target Pod changed
\* before the last one was recorded, whenever the checks of its health ran.
CompletedUndisturbed ==
    \A c \in Campaigns : status[c] = "completed" => cell[c] = Cells /\ drift[c] >= Cells

\* The script ends, or is killed: no gate and no drain waits for ever.
CampaignEnds == \A c \in Campaigns : <>(pc[c] \in {"ended", "killed"})

\* The frozen configuration that every ARMED record must match has the rows of the
\* cell; a cell whose drivers matched it, and then completed, is not refused
\* for the rows they sent (validate_armed and validate_report).
ArmedCellsAreAccepted ==
    \A c \in Campaigns : pc[c] = "collect" => ~MustDie(c)
=============================================================================
