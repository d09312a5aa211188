----------------------------- MODULE RayonSweep -----------------------------
(***************************************************************************)
(* The Rayon resource sweep (hack/arena-sc-rayon-resource-sweep.sh) with   *)
(* the cell runner it calls for every cell of its plan                     *)
(* (hack/arena-sc-inference-cell.sh, one target, RESET_TARGETS=false).     *)
(*                                                                         *)
(* The sweep takes the same lock as the campaigns, clones the reference    *)
(* Deployment at zero replicas, and for every cell replaces the one target *)
(* Pod, runs one driver Job against it and records the result.  Unlike the *)
(* campaigns it keeps the lock if it could not put everything back, its    *)
(* cleanup cannot be interrupted, and it does not ask who owns the lock.   *)
(***************************************************************************)
EXTENDS Integers

CONSTANTS
    Sweeps,      \* the runs of the script, by SWEEP_RUN_ID
    SweepCells,  \* planned_cells
    NoOwner      \* the lock's ConfigMap does not exist

VARIABLES
    lock,       \* the run-id of the lock's ConfigMap
    clone,      \* each sweep's Deployment: absent, parked at no replica, or with a Pod
    driver,     \* the driver Job of its active cell
    reference,  \* did the reference Deployment change since the sweep captured it?
    spc,        \* where each script is
    sflags,     \* the variables lock_acquired, sweep_deployment_created, ... it has set
    recorded,   \* the lines of sweep-results.ndjson
    failed,     \* cleanup_failed
    sstatus     \* sweep-status.json

sweepCluster == <<clone, driver, reference>>
sweepScript == <<sflags, recorded, failed, sstatus>>

Driving == {"started", "loading"}
UnderLock == {"locked", "captured", "cloned", "cells", "reset", "ready", "marked", "waiting",
              "collected", "deleting"}
SweepWorking == {"setup", "unlocked", "lockCreated"} \cup UnderLock
SweepCleanup == {"cleanup", "cleanClone", "checkReference", "unlock", "report"}
Flags == {"owned", "lock", "before", "clone", "driver", "complete", "planned"}

SweepTypeOK ==
    /\ clone \in [Sweeps -> {"absent", "parked", "running"}]
    /\ driver \in [Sweeps -> Driving \cup {"absent", "complete", "failed"}]
    /\ reference \in [Sweeps -> BOOLEAN]
    /\ spc \in [Sweeps -> SweepWorking \cup SweepCleanup \cup {"ended", "killed"}]
    /\ sflags \in [Sweeps -> SUBSET Flags]
    /\ recorded \in [Sweeps -> 0 .. SweepCells]
    /\ failed \in [Sweeps -> BOOLEAN]
    /\ sstatus \in [Sweeps -> {"none", "planned", "completed", "aborted"}]

SweepInit ==
    /\ clone = [s \in Sweeps |-> "absent"] /\ driver = [s \in Sweeps |-> "absent"]
    /\ reference = [s \in Sweeps |-> FALSE]
    /\ spc = [s \in Sweeps |-> "setup"] /\ sflags = [s \in Sweeps |-> {}]
    /\ recorded = [s \in Sweeps |-> 0] /\ failed = [s \in Sweeps |-> FALSE]
    /\ sstatus = [s \in Sweeps |-> "none"]

----------------------------------------------------------------------------

Go(s, from, to) == spc[s] = from /\ spc' = [spc EXCEPT ![s] = to]
Set(s, f) == sflags' = [sflags EXCEPT ![s] = @ \cup f]
CloneIs(s, d) == clone' = [clone EXCEPT ![s] = d]
DriverIs(s, j) == driver' = [driver EXCEPT ![s] = j]
CleanupFails(s) == failed' = [failed EXCEPT ![s] = TRUE]

----------------------------------------------------------------------------
\* Up to the clone.

\* PLAN_ONLY=1: the schedule is printed.
PlanOnly(s) ==
    /\ Go(s, "setup", "cleanup")
    /\ Set(s, {"owned", "planned"})
    /\ UNCHANGED <<lock, sweepCluster, recorded, failed, sstatus>>

\* The plan is written in a new SWEEP_DIR, and access, nodes and telemetry are in order.
Preflight(s) ==
    /\ Go(s, "setup", "unlocked")
    /\ Set(s, {"owned"})
    /\ UNCHANGED <<lock, sweepCluster, recorded, failed, sstatus>>

\* The ConfigMap is created; the reply may be lost, and the script then dies.
CreateLock(s) ==
    /\ lock = NoOwner
    /\ lock' = s
    /\ Go(s, "unlocked", "lockCreated") \/ Go(s, "unlocked", "cleanup")
    /\ UNCHANGED <<sweepCluster, sweepScript>>

FlagLock(s) ==
    /\ Go(s, "lockCreated", "locked")
    /\ Set(s, {"lock"})
    /\ UNCHANGED <<lock, sweepCluster, recorded, failed, sstatus>>

CaptureReference(s) ==
    /\ Go(s, "locked", "captured")
    /\ Set(s, {"before"})
    /\ reference' = [reference EXCEPT ![s] = FALSE]
    /\ UNCHANGED <<lock, clone, driver, recorded, failed, sstatus>>

CreateClone(s) ==
    /\ Go(s, "captured", "cloned") \/ Go(s, "captured", "cleanup")
    /\ CloneIs(s, "parked")
    /\ UNCHANGED <<lock, driver, reference, sweepScript>>

FlagClone(s) ==
    /\ Go(s, "cloned", "cells")
    /\ Set(s, {"clone"})
    /\ UNCHANGED <<lock, sweepCluster, recorded, failed, sstatus>>

----------------------------------------------------------------------------
\* One cell.

\* The previous Pod goes, and the containers are patched to the cell's thread count.
ResetClone(s) ==
    /\ recorded[s] < SweepCells
    /\ Go(s, "cells", "reset") \/ Go(s, "cells", "cleanup")
    /\ CloneIs(s, "parked")
    /\ UNCHANGED <<lock, driver, reference, sweepScript>>

\* One fresh Pod, through its gates; a gate that fails leaves the Pod running.
RollOut(s) ==
    /\ Go(s, "reset", "ready") \/ Go(s, "reset", "cleanup")
    /\ CloneIs(s, "running")
    /\ UNCHANGED <<lock, driver, reference, sweepScript>>

\* Seeded fault: the run-id of the Jobs is noted once the runner has succeeded.
MarkDriverLate(s) ==
    /\ Go(s, "ready", "marked")
    /\ UNCHANGED <<lock, sweepCluster, sweepScript>>

\* active_driver_run_id is set before the runner starts.
MarkDriver(s) ==
    /\ Go(s, "ready", "marked")
    /\ Set(s, {"driver"})
    /\ UNCHANGED <<lock, sweepCluster, recorded, failed, sstatus>>

\* The runner fixes T0, starts its sampler and applies the Job.  A runner that
\* fails, or outlives its killed caller, may have applied it.
RunCell(s) ==
    /\ \E to \in {"waiting", "cleanup", "killed"} : Go(s, "marked", to)
    /\ DriverIs(s, "started")
    /\ UNCHANGED <<lock, clone, reference, sweepScript>>

\* The Job completed in time, its accounting is in order and the target is the same Pod.
CollectCell(s) ==
    /\ driver[s] = "complete"
    /\ Go(s, "waiting", "collected")
    /\ UNCHANGED <<lock, sweepCluster, sweepScript>>

\* The telemetry is complete, and the result is recorded.
RecordCell(s) ==
    /\ Go(s, "collected", "deleting")
    /\ recorded' = [recorded EXCEPT ![s] = @ + 1]
    /\ UNCHANGED <<lock, sweepCluster, sflags, failed, sstatus>>

\* delete_active_driver_jobs: the run-id is forgotten only when nothing failed.
DriverDeleted(s) ==
    /\ DriverIs(s, "absent")
    /\ sflags' = [sflags EXCEPT ![s] = @ \ {"driver"}]

DriverNotDeleted(s) == \E left \in {"absent", driver[s]} : DriverIs(s, left)

\* DELETE_COMPLETED_JOBS=1 deletes the cell's Job; with 0 the sweep forgets it.
FinishCell(s) ==
    \/ /\ Go(s, "deleting", "cells")
       /\ DriverDeleted(s)
       /\ UNCHANGED <<lock, clone, reference, recorded, failed, sstatus>>
    \/ /\ Go(s, "deleting", "cells")
       /\ sflags' = [sflags EXCEPT ![s] = @ \ {"driver"}]
       /\ UNCHANGED <<lock, sweepCluster, recorded, failed, sstatus>>
    \/ /\ Go(s, "deleting", "cleanup")
       /\ DriverNotDeleted(s)
       /\ UNCHANGED <<lock, clone, reference, sweepScript>>

FinishSweep(s) ==
    /\ recorded[s] = SweepCells
    /\ Go(s, "cells", "cleanup")
    /\ Set(s, {"complete"})
    /\ UNCHANGED <<lock, sweepCluster, recorded, failed, sstatus>>

\* A gate or a command that fails, INT or TERM; also the lock of another program.
Abort(s) ==
    /\ spc[s] \in SweepWorking
    /\ spc' = [spc EXCEPT ![s] = "cleanup"]
    /\ UNCHANGED <<lock, sweepCluster, sweepScript>>

\* KILL: the cleanup ignores INT and TERM.
Kill(s) ==
    /\ spc[s] \in SweepWorking \cup SweepCleanup
    /\ spc' = [spc EXCEPT ![s] = "killed"]
    /\ UNCHANGED <<lock, sweepCluster, sweepScript>>

----------------------------------------------------------------------------
\* The EXIT trap.

CleanDriver(s) ==
    /\ Go(s, "cleanup", "cleanClone")
    /\ \/ "driver" \notin sflags[s] /\ UNCHANGED <<driver, sflags, failed>>
       \/ "driver" \in sflags[s] /\ DriverDeleted(s) /\ UNCHANGED failed
       \/ "driver" \in sflags[s] /\ DriverNotDeleted(s) /\ CleanupFails(s) /\ UNCHANGED sflags
    /\ UNCHANGED <<lock, clone, reference, recorded, sstatus>>

\* The deletion waits for the Pods, and what it does not find gone is an error.
CleanClone(s) ==
    /\ Go(s, "cleanClone", "checkReference")
    /\ \/ "clone" \notin sflags[s] /\ UNCHANGED <<clone, failed>>
       \/ "clone" \in sflags[s] /\ CloneIs(s, "absent") /\ UNCHANGED failed
       \/ /\ "clone" \in sflags[s]
          /\ \E left \in {"absent", clone[s]} : CloneIs(s, left)
          /\ CleanupFails(s)
    /\ UNCHANGED <<lock, driver, reference, sflags, recorded, sstatus>>

\* capture_reference_integrity, which also fails if nothing was captured on entry.
CheckReference(s) ==
    /\ Go(s, "checkReference", "unlock")
    /\ \/ "lock" \notin sflags[s] /\ UNCHANGED failed
       \/ {"lock", "before"} \subseteq sflags[s] /\ ~reference[s] /\ UNCHANGED failed
       \/ "lock" \in sflags[s] /\ CleanupFails(s)
    /\ UNCHANGED <<lock, sweepCluster, sflags, recorded, sstatus>>

\* The lock is kept for the operator if anything failed.
Unlock(s) ==
    /\ Go(s, "unlock", "report")
    /\ \/ ("lock" \notin sflags[s] \/ failed[s]) /\ UNCHANGED <<lock, failed>>
       \/ /\ "lock" \in sflags[s] /\ ~failed[s]
          /\ \/ lock' = NoOwner /\ UNCHANGED failed
             \/ lock' \in {NoOwner, lock} /\ CleanupFails(s)
    /\ UNCHANGED <<sweepCluster, sflags, recorded, sstatus>>

\* Seeded fault: a cleanup that failed leaves the exit status 0.
ReportedStatusOfRun(s) ==
    IF "complete" \in sflags[s] THEN "completed"
    ELSE IF "planned" \in sflags[s] THEN "planned" ELSE "aborted"

ReportedStatus(s) ==
    IF failed[s] THEN "aborted"
    ELSE IF "complete" \in sflags[s] THEN "completed"
    ELSE IF "planned" \in sflags[s] THEN "planned" ELSE "aborted"

\* Only a script that owns its SWEEP_DIR writes the status.
Report(s) ==
    /\ Go(s, "report", "ended")
    /\ sstatus' = IF "owned" \in sflags[s] THEN [sstatus EXCEPT ![s] = ReportedStatus(s)] ELSE sstatus
    /\ UNCHANGED <<lock, sweepCluster, sflags, recorded, failed>>

----------------------------------------------------------------------------
\* The cluster.

\* The driver starts at T0 or is too late for it, loads the target, and ends.
Drive(s) ==
    /\ \E m \in {<<"started", "loading">>, <<"started", "failed">>,
                 <<"loading", "complete">>, <<"loading", "failed">>} :
          driver[s] = m[1] /\ DriverIs(s, m[2])
    /\ UNCHANGED <<lock, clone, reference, spc, sweepScript>>

\* Someone changes the reference Deployment.
TouchReference(s) ==
    /\ "before" \in sflags[s] /\ spc[s] \notin {"ended", "killed"} /\ ~reference[s]
    /\ reference' = [reference EXCEPT ![s] = TRUE]
    /\ UNCHANGED <<lock, clone, driver, spc, sweepScript>>

----------------------------------------------------------------------------

SweepRun(s) ==
    \/ PlanOnly(s) \/ Preflight(s) \/ CreateLock(s) \/ FlagLock(s) \/ CaptureReference(s)
    \/ CreateClone(s) \/ FlagClone(s) \/ ResetClone(s) \/ RollOut(s) \/ MarkDriver(s)
    \/ RunCell(s) \/ CollectCell(s) \/ RecordCell(s) \/ FinishCell(s) \/ FinishSweep(s)
    \/ Abort(s)

SweepExit(s) == CleanDriver(s) \/ CleanClone(s) \/ CheckReference(s) \/ Unlock(s) \/ Report(s)

SweepNext == \E s \in Sweeps : SweepRun(s) \/ SweepExit(s) \/ Kill(s) \/ Drive(s) \/ TouchReference(s)

----------------------------------------------------------------------------

\* A sweep that has the lock has it until it lets go, although it would delete
\* the ConfigMap of anybody else as well (lock_acquired, cleanup).
SweepOwnsTheLock ==
    \A s \in Sweeps :
        spc[s] \in UnderLock \cup {"lockCreated"}
            \/ ("lock" \in sflags[s] /\ spc[s] \in SweepCleanup \ {"report"})
        => lock = s

\* "The lock is retained if cleanup or that integrity proof fails"
\* (docs/methodology/arena-sc-rayon-resource-sweep-plan-20260828.md:60-61): where a
\* sweep has no lock, or none any more, none of its Pods runs and none of its
\* drivers loads anything.
NothingRunsUnlocked ==
    \A s \in Sweeps :
        lock # s => clone[s] # "running" /\ driver[s] \notin Driving

\* A sweep is reported complete only if every cell of its plan was recorded, its
\* Pods are gone, and it gave the lock back.
CompletedSweepIsClean ==
    \A s \in Sweeps :
        sstatus[s] = "completed" =>
            recorded[s] = SweepCells /\ clone[s] = "absent" /\ lock # s
=============================================================================
