-------------------------- MODULE SharedLockProofs --------------------------
(***************************************************************************)
(* Proofs about campaigns and sweeps on one cluster, for every number of   *)
(* both: the benchmark lock excludes them all, though a sweep deletes the  *)
(* lock without asking whose it is.                                        *)
(***************************************************************************)
EXTENDS SharedLock, ScaleCampaignProofs

SweepStates == Sweep!SweepWorking \cup Sweep!SweepCleanup \cup {"ended", "killed"}
SweepLocked == Sweep!UnderLock \cup {"lockCreated"}

\* A sweep that has taken the lock and has not yet given it back.
SweepHolds(s) ==
    \/ spc[s] \in SweepLocked
    \/ "lock" \in sflags[s] /\ spc[s] \in Sweep!SweepCleanup \ {"report"}

SweepLockInv ==
    /\ spc \in [Sweeps -> SweepStates]
    /\ DOMAIN sflags = Sweeps
    /\ \A s \in Sweeps : "lock" \in sflags[s] => spc[s] \notin {"setup", "unlocked", "lockCreated"}
    /\ \A s \in Sweeps : SweepHolds(s) => lock = s

SharedLockInv == LockInv /\ SweepLockInv

----------------------------------------------------------------------------

\* No program has started.
LEMMA SharedLockInit == SharedInit => SharedLockInv
<1> SUFFICES ASSUME SharedInit PROVE SharedLockInv
  OBVIOUS
<1>1. LockInv
  BY LockInit DEF SharedInit
<1>2. SweepLockInv
  BY DEF SharedInit, Sweep!SweepInit, SweepLockInv, SweepHolds, SweepStates, SweepLocked,
     Sweep!SweepWorking, Sweep!UnderLock, Sweep!SweepCleanup
<1> QED BY <1>1, <1>2 DEF SharedLockInv

\* A step of sweep s that takes the lock from nobody but itself.
LEMMA SweepMoveKeepsLock ==
    ASSUME SweepLockInv, NEW s \in Sweeps, NEW to \in SweepStates,
           spc' = [spc EXCEPT ![s] = to],
           DOMAIN sflags' = Sweeps,
           \A t \in Sweeps \ {s} : sflags'[t] = sflags[t],
           lock' = lock \/ lock \in {s, NoOwner},
           "lock" \in sflags'[s] => to \notin {"setup", "unlocked", "lockCreated"},
           to \in SweepLocked \/ ("lock" \in sflags'[s] /\ to \in Sweep!SweepCleanup \ {"report"})
                => lock' = s
    PROVE  SweepLockInv'
<1>1. spc' \in [Sweeps -> SweepStates] /\ spc'[s] = to
  BY DEF SweepLockInv
<1>2. \A t \in Sweeps \ {s} : spc'[t] = spc[t]
  BY DEF SweepLockInv
<1>3. \A t \in Sweeps : "lock" \in sflags'[t] => spc'[t] \notin {"setup", "unlocked", "lockCreated"}
  BY <1>1, <1>2 DEF SweepLockInv
<1>4. \A t \in Sweeps \ {s} : SweepHolds(t)' => SweepHolds(t)
  BY <1>2 DEF SweepHolds
<1>5. \A t \in Sweeps \ {s} : lock = t => lock' = t
  BY SharedLockAssumption
<1>6. \A t \in Sweeps \ {s} : SweepHolds(t)' => lock' = t
  BY <1>4, <1>5 DEF SweepLockInv
<1>7. SweepHolds(s)' => lock' = s
  BY <1>1 DEF SweepHolds
<1> QED BY <1>1, <1>3, <1>6, <1>7 DEF SweepLockInv

\* A step of the cluster: no script moves, and no lock.
LEMMA SweepStillKeepsLock ==
    ASSUME SweepLockInv, UNCHANGED <<lock, spc, sflags>>
    PROVE  SweepLockInv'
  BY DEF SweepLockInv, SweepHolds

\* A command of a sweep under the lock.
LEMMA SweepInsideKeepsLock ==
    ASSUME SweepLockInv, NEW s \in Sweeps, spc[s] \in SweepLocked,
           NEW to \in Sweep!UnderLock,
           spc' = [spc EXCEPT ![s] = to],
           DOMAIN sflags' = Sweeps, \A t \in Sweeps \ {s} : sflags'[t] = sflags[t],
           UNCHANGED lock
    PROVE  SweepLockInv'
<1>1. to \in SweepStates /\ to \notin {"setup", "unlocked", "lockCreated"}
  BY DEF SweepStates, Sweep!SweepWorking, Sweep!UnderLock
<1>2. lock = s
  BY DEF SweepLockInv, SweepHolds
<1> QED BY <1>1, <1>2, SweepMoveKeepsLock

\* A sweep that stops working, or goes on with its cleanup, keeps what it holds.
LEMMA SweepExitKeepsLock ==
    ASSUME SweepLockInv, NEW s \in Sweeps,
           NEW to \in Sweep!SweepCleanup \cup {"ended", "killed"},
           spc[s] \in Sweep!SweepWorking \cup (Sweep!SweepCleanup \ {"report"}) \/ to \in {"ended", "killed"},
           spc' = [spc EXCEPT ![s] = to], UNCHANGED lock,
           DOMAIN sflags' = Sweeps, \A t \in Sweeps \ {s} : sflags'[t] = sflags[t],
           "lock" \in sflags'[s] => "lock" \in sflags[s]
    PROVE  SweepLockInv'
<1>1. to \in SweepStates /\ to \notin SweepLocked /\ to \notin {"setup", "unlocked", "lockCreated"}
  BY DEF SweepStates, SweepLocked, Sweep!SweepWorking, Sweep!UnderLock, Sweep!SweepCleanup
<1>2. "lock" \in sflags[s] => spc[s] \notin {"setup", "unlocked", "lockCreated"}
  BY DEF SweepLockInv
<1>3. "lock" \in sflags'[s] /\ to \in Sweep!SweepCleanup \ {"report"} => SweepHolds(s)
  BY <1>2 DEF SweepHolds, SweepLocked, Sweep!SweepWorking, Sweep!SweepCleanup
<1>4. SweepHolds(s) => lock = s
  BY DEF SweepLockInv
<1> QED BY <1>1, <1>3, <1>4, SweepMoveKeepsLock

\* The ConfigMap is created where there is none.
LEMMA SweepCreateKeepsLock ==
    ASSUME SweepLockInv, NEW s \in Sweeps, Sweep!CreateLock(s)
    PROVE  SweepLockInv'
<1>1. spc[s] = "unlocked" /\ lock = NoOwner /\ lock' = s /\ sflags' = sflags
  BY DEF Sweep!CreateLock, Sweep!Go, Sweep!sweepScript
<1>2. PICK to \in {"lockCreated", "cleanup"} : spc' = [spc EXCEPT ![s] = to]
  BY DEF Sweep!CreateLock, Sweep!Go
<1>3. to \in SweepStates
  BY DEF SweepStates, Sweep!SweepWorking, Sweep!SweepCleanup
<1>4. "lock" \notin sflags[s]
  BY <1>1 DEF SweepLockInv
<1>5. DOMAIN sflags' = Sweeps
  BY <1>1 DEF SweepLockInv
<1> QED BY <1>1, <1>2, <1>3, <1>4, <1>5, SweepMoveKeepsLock

\* Whose lock a sweep deletes is not asked, but it is its own.
LEMMA SweepUnlockKeepsLock ==
    ASSUME SweepLockInv, NEW s \in Sweeps, Sweep!Unlock(s)
    PROVE  SweepLockInv'
<1>1. spc[s] = "unlock" /\ spc' = [spc EXCEPT ![s] = "report"] /\ sflags' = sflags
  BY DEF Sweep!Unlock, Sweep!Go
<1>2. lock' = lock \/ lock = s
  BY <1>1 DEF Sweep!Unlock, SweepLockInv, SweepHolds, Sweep!SweepCleanup
<1>3. "report" \in SweepStates /\ "report" \notin SweepLocked
  BY DEF SweepStates, SweepLocked, Sweep!UnderLock, Sweep!SweepCleanup
<1>4. DOMAIN sflags' = Sweeps
  BY <1>1 DEF SweepLockInv
<1> QED BY <1>1, <1>2, <1>3, <1>4, SweepMoveKeepsLock

----------------------------------------------------------------------------

\* Every command of a sweep keeps its invariant.
LEMMA SweepRunKeepsLock ==
    ASSUME SweepLockInv, NEW s \in Sweeps, Sweep!SweepRun(s)
    PROVE  SweepLockInv'
<1> USE DEF Sweep!Go, Sweep!Set, Sweep!sweepCluster, Sweep!sweepScript
<1>0. DOMAIN sflags = Sweeps
  BY DEF SweepLockInv
<1>w. {"setup", "unlocked", "cells", "captured", "reset", "marked", "deleting"} \subseteq Sweep!SweepWorking
  BY DEF Sweep!SweepWorking, Sweep!UnderLock
<1>l. Sweep!UnderLock \subseteq SweepLocked /\ "cleanup" \in Sweep!SweepCleanup
  BY DEF SweepLocked, Sweep!SweepCleanup
<1>1. CASE Sweep!PlanOnly(s)
  <2>1. spc[s] = "setup" /\ spc' = [spc EXCEPT ![s] = "cleanup"] /\ UNCHANGED lock
    BY <1>1 DEF Sweep!PlanOnly
  <2>2. sflags' = [sflags EXCEPT ![s] = @ \cup {"owned", "planned"}]
    BY <1>1 DEF Sweep!PlanOnly
  <2> QED BY <1>0, <1>w, <1>l, <2>1, <2>2, SweepExitKeepsLock
<1>2. CASE Sweep!Preflight(s)
  <2>1. spc[s] = "setup" /\ spc' = [spc EXCEPT ![s] = "unlocked"] /\ UNCHANGED lock
    BY <1>2 DEF Sweep!Preflight
  <2>2. sflags' = [sflags EXCEPT ![s] = @ \cup {"owned"}]
    BY <1>2 DEF Sweep!Preflight
  <2>3. "lock" \notin sflags[s]
    BY <2>1 DEF SweepLockInv
  <2>4. "unlocked" \in SweepStates /\ "unlocked" \notin SweepLocked
    BY DEF SweepStates, SweepLocked, Sweep!SweepWorking, Sweep!UnderLock
  <2> QED BY <1>0, <2>1, <2>2, <2>3, <2>4, SweepMoveKeepsLock
<1>3. CASE Sweep!CreateLock(s)
  BY <1>3, SweepCreateKeepsLock
<1>4. CASE Sweep!FlagLock(s) \/ Sweep!CaptureReference(s) \/ Sweep!FlagClone(s) \/ Sweep!MarkDriver(s)
            \/ Sweep!CollectCell(s) \/ Sweep!RecordCell(s)
  <2>1. /\ spc[s] \in SweepLocked /\ UNCHANGED lock
        /\ \E to \in Sweep!UnderLock : spc' = [spc EXCEPT ![s] = to]
    BY <1>4 DEF Sweep!FlagLock, Sweep!CaptureReference, Sweep!FlagClone, Sweep!MarkDriver,
       Sweep!CollectCell, Sweep!RecordCell, SweepLocked, Sweep!UnderLock
  <2>2. sflags' = sflags \/ \E f \in {"lock", "before", "clone", "driver"} : sflags' = [sflags EXCEPT ![s] = @ \cup {f}]
    BY <1>4 DEF Sweep!FlagLock, Sweep!CaptureReference, Sweep!FlagClone, Sweep!MarkDriver,
       Sweep!CollectCell, Sweep!RecordCell
  <2>3. DOMAIN sflags' = Sweeps /\ \A t \in Sweeps \ {s} : sflags'[t] = sflags[t]
    BY <1>0, <2>2
  <2> QED BY <2>1, <2>3, SweepInsideKeepsLock
<1>5. CASE Sweep!CreateClone(s) \/ Sweep!ResetClone(s) \/ Sweep!RollOut(s) \/ Sweep!RunCell(s)
  <2>1. /\ spc[s] \in {"captured", "cells", "reset", "marked"} /\ UNCHANGED <<lock, sflags>>
        /\ \E to \in {"cloned", "reset", "ready", "waiting", "cleanup", "killed"} : spc' = [spc EXCEPT ![s] = to]
    BY <1>5 DEF Sweep!CreateClone, Sweep!ResetClone, Sweep!RollOut, Sweep!RunCell
  <2>2. PICK to \in {"cloned", "reset", "ready", "waiting", "cleanup", "killed"} : spc' = [spc EXCEPT ![s] = to]
    BY <2>1
  <2>3. CASE to \in Sweep!UnderLock
    BY <1>0, <2>1, <2>2, <2>3, SweepInsideKeepsLock DEF SweepLocked, Sweep!UnderLock
  <2>4. CASE to \in {"cleanup", "killed"}
    BY <1>0, <1>w, <1>l, <2>1, <2>2, <2>4, SweepExitKeepsLock
  <2> QED BY <2>3, <2>4 DEF Sweep!UnderLock
<1>6. CASE Sweep!FinishCell(s)
  <2> USE DEF Sweep!FinishCell, Sweep!DriverDeleted, Sweep!DriverNotDeleted
  <2>1. CASE spc' = [spc EXCEPT ![s] = "cells"]
    <3>1. spc[s] = "deleting" /\ UNCHANGED lock
      BY <1>6
    <3>2. sflags' = sflags \/ sflags' = [sflags EXCEPT ![s] = @ \ {"driver"}]
      BY <1>6
    <3>3. DOMAIN sflags' = Sweeps /\ \A t \in Sweeps \ {s} : sflags'[t] = sflags[t]
      BY <1>0, <3>2
    <3> QED BY <2>1, <3>1, <3>3, SweepInsideKeepsLock DEF SweepLocked, Sweep!UnderLock
  <2>2. CASE spc' = [spc EXCEPT ![s] = "cleanup"] /\ UNCHANGED sflags
    <3>1. spc[s] = "deleting" /\ UNCHANGED lock
      BY <1>6
    <3> QED BY <1>0, <1>w, <1>l, <2>2, <3>1, SweepExitKeepsLock
  <2> QED BY <1>6, <2>1, <2>2
<1>7. CASE Sweep!FinishSweep(s)
  <2>1. spc[s] = "cells" /\ spc' = [spc EXCEPT ![s] = "cleanup"] /\ UNCHANGED lock
    BY <1>7 DEF Sweep!FinishSweep
  <2>2. sflags' = [sflags EXCEPT ![s] = @ \cup {"complete"}]
    BY <1>7 DEF Sweep!FinishSweep
  <2> QED BY <1>0, <1>w, <1>l, <2>1, <2>2, SweepExitKeepsLock
<1>8. CASE Sweep!Abort(s)
  BY <1>0, <1>l, <1>8, SweepExitKeepsLock DEF Sweep!Abort
<1> QED BY <1>1, <1>2, <1>3, <1>4, <1>5, <1>6, <1>7, <1>8 DEF Sweep!SweepRun

\* Every step of a sweep's EXIT trap keeps its invariant.
LEMMA SweepTrapKeepsLock ==
    ASSUME SweepLockInv, NEW s \in Sweeps, Sweep!SweepExit(s)
    PROVE  SweepLockInv'
<1> USE DEF Sweep!Go, Sweep!sweepCluster, Sweep!SweepCleanup
<1>0. DOMAIN sflags = Sweeps
  BY DEF SweepLockInv
<1>1. CASE Sweep!CleanDriver(s)
  <2>1. spc[s] = "cleanup" /\ spc' = [spc EXCEPT ![s] = "cleanClone"] /\ UNCHANGED lock
    BY <1>1 DEF Sweep!CleanDriver
  <2>2. sflags' = sflags \/ sflags' = [sflags EXCEPT ![s] = @ \ {"driver"}]
    BY <1>1 DEF Sweep!CleanDriver, Sweep!DriverDeleted
  <2> QED BY <1>0, <2>1, <2>2, SweepExitKeepsLock
<1>2. CASE Sweep!CleanClone(s)
  BY <1>0, <1>2, SweepExitKeepsLock DEF Sweep!CleanClone
<1>3. CASE Sweep!CheckReference(s)
  BY <1>0, <1>3, SweepExitKeepsLock DEF Sweep!CheckReference
<1>4. CASE Sweep!Unlock(s)
  BY <1>4, SweepUnlockKeepsLock
<1>5. CASE Sweep!Report(s)
  BY <1>0, <1>5, SweepExitKeepsLock DEF Sweep!Report
<1> QED BY <1>1, <1>2, <1>3, <1>4, <1>5 DEF Sweep!SweepExit

\* Every step of the sweeps keeps their invariant.
LEMMA SweepStepKeepsLock ==
    ASSUME SweepLockInv, Sweep!SweepNext
    PROVE  SweepLockInv'
<1> USE DEF Sweep!sweepCluster, Sweep!sweepScript
<1>0. DOMAIN sflags = Sweeps
  BY DEF SweepLockInv
<1>1. ASSUME NEW s \in Sweeps, Sweep!SweepRun(s) PROVE SweepLockInv'
  BY <1>1, SweepRunKeepsLock
<1>2. ASSUME NEW s \in Sweeps, Sweep!SweepExit(s) PROVE SweepLockInv'
  BY <1>2, SweepTrapKeepsLock
<1>3. ASSUME NEW s \in Sweeps, Sweep!Kill(s) PROVE SweepLockInv'
  BY <1>0, <1>3, SweepExitKeepsLock DEF Sweep!Kill
<1>4. ASSUME NEW s \in Sweeps, Sweep!Drive(s) \/ Sweep!TouchReference(s) PROVE SweepLockInv'
  BY <1>4, SweepStillKeepsLock DEF Sweep!Drive, Sweep!TouchReference
<1> QED BY <1>1, <1>2, <1>3, <1>4 DEF Sweep!SweepNext

----------------------------------------------------------------------------

\* A sweep changes the lock only while nobody has it, or while it has it itself.
LEMMA SweepsTakeTheirOwn ==
    ASSUME SweepLockInv, Sweep!SweepNext
    PROVE  lock' = lock \/ lock \in Sweeps \cup {NoOwner}
<1>1. PICK s \in Sweeps : \/ Sweep!SweepRun(s) \/ Sweep!SweepExit(s) \/ Sweep!Kill(s)
                          \/ Sweep!Drive(s) \/ Sweep!TouchReference(s)
  BY DEF Sweep!SweepNext
<1>2. Sweep!SweepRun(s) => lock' = lock \/ lock = NoOwner
  BY DEF Sweep!SweepRun, Sweep!PlanOnly, Sweep!Preflight, Sweep!CreateLock, Sweep!FlagLock,
     Sweep!CaptureReference, Sweep!CreateClone, Sweep!FlagClone, Sweep!ResetClone, Sweep!RollOut,
     Sweep!MarkDriver, Sweep!RunCell, Sweep!CollectCell, Sweep!RecordCell, Sweep!FinishCell,
     Sweep!FinishSweep, Sweep!Abort
<1>3. Sweep!Unlock(s) => lock' = lock \/ lock = s
  BY DEF Sweep!Unlock, Sweep!Go, SweepLockInv, SweepHolds, Sweep!SweepCleanup
<1>4. Sweep!SweepExit(s) => lock' = lock \/ lock = s
  BY <1>3 DEF Sweep!SweepExit, Sweep!CleanDriver, Sweep!CleanClone, Sweep!CheckReference, Sweep!Report
<1>5. Sweep!Kill(s) \/ Sweep!Drive(s) \/ Sweep!TouchReference(s) => lock' = lock
  BY DEF Sweep!Kill, Sweep!Drive, Sweep!TouchReference
<1> QED BY <1>1, <1>2, <1>4, <1>5

\* So does a campaign.
LEMMA CampaignsTakeTheirOwn ==
    ASSUME LockInv, Next
    PROVE  lock' = lock \/ lock \in Campaigns \cup {NoOwner}
<1>1. PICK c \in Campaigns : Run(c) \/ Cleanup(c) \/ Interrupt(c) \/ Kill(c) \/ World(c)
  BY DEF Next
<1>2. lock' = lock \/ CreateLock(c) \/ Unlock(c)
  <2>1. Run(c) => lock' = lock \/ CreateLock(c)
    BY DEF Run, PlanOnly, GoLive, FlagLock, CreateTarget, FlagTarget, ScaleBatch,
       FreezeInventory, StartCell, CreateJob, ReleaseJob, CaptureHealth, AllSuspended, AllReleased,
       BeforeArmedDeadline, ValidateArmed, CheckDrivers, AllComplete, CollectReports,
       DeleteCellJobs, Reconcile, Summarize, Die, cluster
  <2>2. Cleanup(c) => lock' = lock \/ Unlock(c)
    BY DEF Cleanup, CleanJobs, CleanTarget, Verify, Report, cluster
  <2>3. Interrupt(c) \/ Kill(c) \/ World(c) => lock' = lock
    BY DEF Interrupt, Kill, World, Tick, Drift, Driver, cluster
  <2> QED BY <1>1, <2>1, <2>2, <2>3
<1>3. CreateLock(c) => lock = NoOwner
  BY DEF CreateLock
<1>4. Unlock(c) => lock' = lock \/ lock = c
  BY DEF Unlock
<1> QED BY <1>2, <1>3, <1>4

\* What one kind of program does to the lock leaves the other kind's alone.
LEMMA SharedStepKeepsLock ==
    ASSUME SharedLockInv, [SharedNext]_sharedVars
    PROVE  SharedLockInv'
<1> USE DEF SharedLockInv
<1>1. CASE Next /\ UNCHANGED sweepOnly
  <2>1. LockInv'
    BY <1>1, StepKeepsLock
  <2>2. UNCHANGED <<spc, sflags>> /\ (lock' = lock \/ lock \in Campaigns \cup {NoOwner})
    BY <1>1, CampaignsTakeTheirOwn DEF sweepOnly
  <2>3. \A s \in Sweeps : lock = s => lock' = s
    BY <2>2, SharedLockAssumption
  <2>4. SweepLockInv'
    BY <2>2, <2>3 DEF SweepLockInv, SweepHolds
  <2> QED BY <2>1, <2>4
<1>2. CASE Sweep!SweepNext /\ UNCHANGED <<target, jobs, phase, drift, pc, script>>
  <2>1. SweepLockInv'
    BY <1>2, SweepStepKeepsLock
  <2>2. UNCHANGED <<pc, flags>> /\ (lock' = lock \/ lock \in Sweeps \cup {NoOwner})
    BY <1>2, SweepsTakeTheirOwn DEF script
  <2>3. \A c \in Campaigns : lock = c => lock' = c
    BY <2>2, SharedLockAssumption, CampaignAssumption
  <2>4. LockInv'
    BY <2>2, <2>3 DEF LockInv, Holds
  <2> QED BY <2>1, <2>4
<1>3. CASE UNCHANGED sharedVars
  BY <1>3, StillKeepsLock, SweepStillKeepsLock DEF sharedVars, vars, cluster, script, sweepOnly
<1> QED BY <1>1, <1>2, <1>3 DEF SharedNext

\* The exclusion invariant of campaigns and sweeps together.
THEOREM SharedLockInvariant == SharedSpec => []SharedLockInv
<1>1. SharedLockInv /\ [SharedNext]_sharedVars => SharedLockInv'
  BY SharedStepKeepsLock
<1> QED BY SharedLockInit, <1>1, PTL DEF SharedSpec

\* A campaign or a sweep owns the lock from its creation to its release, whatever
\* the others start, fail at or clean up: also though a sweep's cleanup does not
\* compare the lock's run-id with its own before it deletes it.
THEOREM SharedLockExcludes == SharedSpec => []EveryHolderOwnsTheLock
<1>1. SharedLockInv => EveryHolderOwnsTheLock
  BY DEF SharedLockInv, EveryHolderOwnsTheLock, LockInv, HoldersOwnTheLock, Holds, Locked,
     SweepLockInv, SweepHolds, SweepLocked, Sweep!SweepOwnsTheLock
<1> QED BY <1>1, SharedLockInvariant, PTL

----------------------------------------------------------------------------

\* Why a sweep's Pod may run and its driver may load it: the sweep owns the lock,
\* has noted what to delete, and will keep the lock if it cannot.
SweepOrderly(s) ==
    /\ clone[s] = "running" \/ driver[s] \in Sweep!Driving => lock = s
    /\ spc[s] \in {"cells", "reset", "ready", "marked", "waiting", "collected", "deleting"}
            => "clone" \in sflags[s]
    /\ spc[s] \in {"marked", "waiting", "collected", "deleting"} => "driver" \in sflags[s]
    /\ spc[s] \in {"collected", "deleting"} => driver[s] = "complete"
    /\ clone[s] = "running" => \/ "clone" \in sflags[s]
                               \/ spc[s] \notin Sweep!SweepWorking \cup {"cleanup", "cleanClone"}
    /\ driver[s] \in Sweep!Driving => \/ "driver" \in sflags[s]
                                     \/ spc[s] \notin Sweep!SweepWorking \cup {"cleanup"}
    /\ clone[s] = "running" /\ spc[s] \in {"checkReference", "unlock"} => failed[s]
    /\ driver[s] \in Sweep!Driving /\ spc[s] \in {"cleanClone", "checkReference", "unlock"} => failed[s]

SweepLoadType ==
    /\ DOMAIN clone = Sweeps /\ DOMAIN driver = Sweeps
    /\ failed \in [Sweeps -> BOOLEAN]

SweepLoadInv == SweepLoadType /\ \A s \in Sweeps : SweepOrderly(s)

\* Nothing runs when the scripts start.
LEMMA SweepLoadInit == SharedInit => SweepLoadInv
  BY DEF SharedInit, Sweep!SweepInit, SweepLoadInv, SweepLoadType, SweepOrderly, Sweep!Driving

\* The domains of what a sweep changes stay.
LEMMA SweepTypesStay ==
    ASSUME SweepLoadInv, NEW s \in Sweeps,
           \/ Sweep!SweepRun(s) \/ Sweep!SweepExit(s) \/ Sweep!Kill(s)
           \/ Sweep!Drive(s) \/ Sweep!TouchReference(s)
    PROVE  SweepLoadType'
<1> USE DEF Sweep!sweepCluster, Sweep!sweepScript, SweepLoadInv, SweepLoadType,
        Sweep!CloneIs, Sweep!DriverIs, Sweep!CleanupFails, Sweep!DriverDeleted, Sweep!DriverNotDeleted
<1>1. CASE Sweep!SweepRun(s)
  BY <1>1 DEF Sweep!SweepRun, Sweep!PlanOnly, Sweep!Preflight, Sweep!CreateLock, Sweep!FlagLock,
     Sweep!CaptureReference, Sweep!CreateClone, Sweep!FlagClone, Sweep!ResetClone, Sweep!RollOut,
     Sweep!MarkDriver, Sweep!RunCell, Sweep!CollectCell, Sweep!RecordCell, Sweep!FinishCell,
     Sweep!FinishSweep, Sweep!Abort
<1>2. CASE Sweep!SweepExit(s)
  BY <1>2 DEF Sweep!SweepExit, Sweep!CleanDriver, Sweep!CleanClone, Sweep!CheckReference,
     Sweep!Unlock, Sweep!Report
<1>3. CASE Sweep!Kill(s) \/ Sweep!Drive(s) \/ Sweep!TouchReference(s)
  BY <1>3 DEF Sweep!Kill, Sweep!Drive, Sweep!TouchReference
<1> QED BY <1>1, <1>2, <1>3

\* What a program may change of sweep t, which is not it: the lock, unless t has it.
SweepApart(t) ==
    /\ spc'[t] = spc[t] /\ sflags'[t] = sflags[t] /\ failed'[t] = failed[t]
    /\ clone'[t] = clone[t] /\ driver'[t] = driver[t]
    /\ lock = t => lock' = t

\* Such a change keeps t orderly.
LEMMA SweepApartStaysOrderly ==
    ASSUME NEW t, SweepOrderly(t), SweepApart(t)
    PROVE  SweepOrderly(t)'
  BY DEF SweepOrderly, SweepApart

\* No step of sweep s changes more of sweep t.
LEMMA SweepStepsApart ==
    ASSUME SweepLockInv, SweepLoadInv, NEW s \in Sweeps, NEW t \in Sweeps \ {s},
           \/ Sweep!SweepRun(s) \/ Sweep!SweepExit(s) \/ Sweep!Kill(s)
           \/ Sweep!Drive(s) \/ Sweep!TouchReference(s)
    PROVE  SweepApart(t)
<1> USE DEF Sweep!sweepCluster, Sweep!sweepScript, Sweep!Go, Sweep!Set,
        Sweep!CloneIs, Sweep!DriverIs, Sweep!CleanupFails, Sweep!DriverDeleted, Sweep!DriverNotDeleted
<1>0. /\ DOMAIN spc = Sweeps /\ DOMAIN sflags = Sweeps /\ DOMAIN clone = Sweeps
      /\ DOMAIN driver = Sweeps /\ DOMAIN failed = Sweeps /\ t # NoOwner
  BY SharedLockAssumption DEF SweepLockInv, SweepLoadInv, SweepLoadType
<1>1. CASE Sweep!SweepRun(s)
  <2>1. spc'[t] = spc[t]
    BY <1>0, <1>1 DEF Sweep!SweepRun, Sweep!PlanOnly, Sweep!Preflight, Sweep!CreateLock, Sweep!FlagLock,
       Sweep!CaptureReference, Sweep!CreateClone, Sweep!FlagClone, Sweep!ResetClone, Sweep!RollOut,
       Sweep!MarkDriver, Sweep!RunCell, Sweep!CollectCell, Sweep!RecordCell, Sweep!FinishCell,
       Sweep!FinishSweep, Sweep!Abort
  <2>2. sflags'[t] = sflags[t] /\ failed'[t] = failed[t]
    BY <1>0, <1>1 DEF Sweep!SweepRun, Sweep!PlanOnly, Sweep!Preflight, Sweep!CreateLock, Sweep!FlagLock,
       Sweep!CaptureReference, Sweep!CreateClone, Sweep!FlagClone, Sweep!ResetClone, Sweep!RollOut,
       Sweep!MarkDriver, Sweep!RunCell, Sweep!CollectCell, Sweep!RecordCell, Sweep!FinishCell,
       Sweep!FinishSweep, Sweep!Abort
  <2>3. clone'[t] = clone[t] /\ driver'[t] = driver[t]
    BY <1>0, <1>1 DEF Sweep!SweepRun, Sweep!PlanOnly, Sweep!Preflight, Sweep!CreateLock, Sweep!FlagLock,
       Sweep!CaptureReference, Sweep!CreateClone, Sweep!FlagClone, Sweep!ResetClone, Sweep!RollOut,
       Sweep!MarkDriver, Sweep!RunCell, Sweep!CollectCell, Sweep!RecordCell, Sweep!FinishCell,
       Sweep!FinishSweep, Sweep!Abort
  <2>4. lock = t => lock' = t
    BY <1>0, <1>1 DEF Sweep!SweepRun, Sweep!PlanOnly, Sweep!Preflight, Sweep!CreateLock, Sweep!FlagLock,
       Sweep!CaptureReference, Sweep!CreateClone, Sweep!FlagClone, Sweep!ResetClone, Sweep!RollOut,
       Sweep!MarkDriver, Sweep!RunCell, Sweep!CollectCell, Sweep!RecordCell, Sweep!FinishCell,
       Sweep!FinishSweep, Sweep!Abort
  <2> QED BY <2>1, <2>2, <2>3, <2>4 DEF SweepApart
<1>2. CASE Sweep!SweepExit(s)
  <2>1. CASE Sweep!CleanDriver(s)
    BY <1>0, <2>1 DEF Sweep!CleanDriver, SweepApart
  <2>2. CASE Sweep!CleanClone(s)
    BY <1>0, <2>2 DEF Sweep!CleanClone, SweepApart
  <2>3. CASE Sweep!CheckReference(s)
    BY <1>0, <2>3 DEF Sweep!CheckReference, SweepApart
  <2>4. CASE Sweep!Unlock(s)
    <3>1. lock' = lock \/ lock = s
      BY <2>4 DEF Sweep!Unlock, SweepLockInv, SweepHolds, Sweep!SweepCleanup
    <3> QED BY <1>0, <2>4, <3>1 DEF Sweep!Unlock, SweepApart
  <2>5. CASE Sweep!Report(s)
    BY <1>0, <2>5 DEF Sweep!Report, SweepApart
  <2> QED BY <1>2, <2>1, <2>2, <2>3, <2>4, <2>5 DEF Sweep!SweepExit
<1>3. CASE Sweep!Kill(s)
  BY <1>0, <1>3 DEF Sweep!Kill, SweepApart
<1>4. CASE Sweep!Drive(s) \/ Sweep!TouchReference(s)
  BY <1>0, <1>4 DEF Sweep!Drive, Sweep!TouchReference, SweepApart
<1> QED BY <1>1, <1>2, <1>3, <1>4

\* Every command of a sweep keeps it orderly: it sets the flag of a Pod or a driver
\* before either can run.
LEMMA SweepRunOrderly ==
    ASSUME SweepLockInv, SweepLoadInv, NEW s \in Sweeps, Sweep!SweepRun(s)
    PROVE  SweepOrderly(s)'
<1> USE DEF Sweep!sweepCluster, Sweep!sweepScript, Sweep!Go, Sweep!Set, Sweep!CloneIs, Sweep!DriverIs,
        SweepOrderly, Sweep!SweepWorking, Sweep!UnderLock, Sweep!Driving
<1>0. /\ DOMAIN spc = Sweeps /\ DOMAIN sflags = Sweeps /\ DOMAIN clone = Sweeps
      /\ DOMAIN driver = Sweeps /\ s # NoOwner /\ SweepOrderly(s)
  BY SharedLockAssumption DEF SweepLockInv, SweepLoadInv, SweepLoadType
<1>h. spc[s] \in SweepLocked => lock = s
  BY DEF SweepLockInv, SweepHolds
<1>1. CASE Sweep!PlanOnly(s)
  BY <1>0, <1>1 DEF Sweep!PlanOnly
<1>2. CASE Sweep!Preflight(s)
  BY <1>0, <1>2 DEF Sweep!Preflight
<1>3. CASE Sweep!CreateLock(s)
  BY <1>0, <1>3 DEF Sweep!CreateLock
<1>4. CASE Sweep!FlagLock(s)
  BY <1>0, <1>4 DEF Sweep!FlagLock
<1>5. CASE Sweep!CaptureReference(s)
  BY <1>0, <1>5 DEF Sweep!CaptureReference
<1>6. CASE Sweep!CreateClone(s)
  BY <1>0, <1>6, <1>h DEF Sweep!CreateClone, SweepLocked
<1>7. CASE Sweep!FlagClone(s)
  BY <1>0, <1>7 DEF Sweep!FlagClone
<1>8. CASE Sweep!ResetClone(s)
  BY <1>0, <1>8, <1>h DEF Sweep!ResetClone, SweepLocked
<1>9. CASE Sweep!RollOut(s)
  BY <1>0, <1>9, <1>h DEF Sweep!RollOut, SweepLocked
<1>10. CASE Sweep!MarkDriver(s)
  BY <1>0, <1>10 DEF Sweep!MarkDriver
<1>11. CASE Sweep!RunCell(s)
  BY <1>0, <1>11, <1>h DEF Sweep!RunCell, SweepLocked
<1>12. CASE Sweep!CollectCell(s)
  BY <1>0, <1>12 DEF Sweep!CollectCell
<1>13. CASE Sweep!RecordCell(s)
  BY <1>0, <1>13 DEF Sweep!RecordCell
<1>14. CASE Sweep!FinishCell(s)
  BY <1>0, <1>14 DEF Sweep!FinishCell, Sweep!DriverDeleted, Sweep!DriverNotDeleted
<1>15. CASE Sweep!FinishSweep(s)
  BY <1>0, <1>15 DEF Sweep!FinishSweep
<1>16. CASE Sweep!Abort(s)
  BY <1>0, <1>16 DEF Sweep!Abort
<1> QED BY <1>1, <1>2, <1>3, <1>4, <1>5, <1>6, <1>7, <1>8,
          <1>9, <1>10, <1>11, <1>12, <1>13, <1>14, <1>15, <1>16 DEF Sweep!SweepRun

\* Every step of the EXIT trap, and KILL, keep it orderly: what could not be
\* deleted keeps the lock.
LEMMA SweepTrapOrderly ==
    ASSUME SweepLockInv, SweepLoadInv, NEW s \in Sweeps, Sweep!SweepExit(s) \/ Sweep!Kill(s)
    PROVE  SweepOrderly(s)'
<1> USE DEF Sweep!sweepCluster, Sweep!sweepScript, Sweep!Go, Sweep!CloneIs, Sweep!DriverIs,
        Sweep!CleanupFails, SweepOrderly, Sweep!SweepWorking, Sweep!UnderLock, Sweep!Driving
<1>0. /\ DOMAIN spc = Sweeps /\ DOMAIN sflags = Sweeps /\ DOMAIN clone = Sweeps
      /\ DOMAIN driver = Sweeps /\ failed \in [Sweeps -> BOOLEAN] /\ SweepOrderly(s)
  BY DEF SweepLockInv, SweepLoadInv, SweepLoadType
<1>1. CASE Sweep!CleanDriver(s)
  BY <1>0, <1>1 DEF Sweep!CleanDriver, Sweep!DriverDeleted, Sweep!DriverNotDeleted
<1>2. CASE Sweep!CleanClone(s)
  BY <1>0, <1>2 DEF Sweep!CleanClone
<1>3. CASE Sweep!CheckReference(s)
  BY <1>0, <1>3 DEF Sweep!CheckReference
<1>4. CASE Sweep!Unlock(s)
  BY <1>0, <1>4 DEF Sweep!Unlock
<1>5. CASE Sweep!Report(s)
  BY <1>0, <1>5 DEF Sweep!Report
<1>6. CASE Sweep!Kill(s)
  BY <1>0, <1>6 DEF Sweep!Kill
<1> QED BY <1>1, <1>2, <1>3, <1>4, <1>5, <1>6 DEF Sweep!SweepExit

\* A driver that goes on, and a reference that changes, keep it orderly.
LEMMA SweepWorldOrderly ==
    ASSUME SweepLoadInv, NEW s \in Sweeps, Sweep!Drive(s) \/ Sweep!TouchReference(s)
    PROVE  SweepOrderly(s)'
<1>0. DOMAIN driver = Sweeps /\ SweepOrderly(s)
  BY DEF SweepLoadInv, SweepLoadType
<1>1. UNCHANGED <<lock, clone, spc, sflags, failed>>
  BY DEF Sweep!Drive, Sweep!TouchReference, Sweep!sweepScript
<1>2. driver'[s] \in Sweep!Driving => driver[s] \in Sweep!Driving
  BY <1>0 DEF Sweep!Drive, Sweep!TouchReference, Sweep!DriverIs, Sweep!Driving
<1>3. driver[s] = "complete" => driver'[s] = "complete"
  BY <1>0 DEF Sweep!Drive, Sweep!TouchReference, Sweep!DriverIs
<1> QED BY <1>0, <1>1, <1>2, <1>3 DEF SweepOrderly

\* Every step of the sweeps keeps them orderly.
LEMMA SweepStepKeepsLoad ==
    ASSUME SweepLockInv, SweepLoadInv, Sweep!SweepNext
    PROVE  SweepLoadInv'
<1>1. PICK s \in Sweeps : \/ Sweep!SweepRun(s) \/ Sweep!SweepExit(s) \/ Sweep!Kill(s)
                          \/ Sweep!Drive(s) \/ Sweep!TouchReference(s)
  BY DEF Sweep!SweepNext
<1>2. SweepLoadType'
  BY <1>1, SweepTypesStay
<1>3. \A t \in Sweeps \ {s} : SweepOrderly(t)'
  BY <1>1, SweepStepsApart, SweepApartStaysOrderly DEF SweepLoadInv
<1>4. SweepOrderly(s)'
  BY <1>1, SweepRunOrderly, SweepTrapOrderly, SweepWorldOrderly
<1> QED BY <1>2, <1>3, <1>4 DEF SweepLoadInv

----------------------------------------------------------------------------

SharedLoadInv == LoadInv /\ SweepLockInv /\ SweepLoadInv

\* A campaign's step leaves the sweeps orderly, a sweep's the campaigns.
LEMMA SharedStepKeepsLoad ==
    ASSUME SharedLoadInv, SharedLockInv', [SharedNext]_sharedVars
    PROVE  SharedLoadInv'
<1> USE DEF SharedLoadInv, SharedLockInv
<1>0. LockInv
  BY DEF LoadInv
<1>1. CASE Next /\ UNCHANGED sweepOnly
  <2>1. LoadInv'
    BY <1>1, StepKeepsLoad
  <2>2. UNCHANGED sweepOnly /\ (lock' = lock \/ lock \in Campaigns \cup {NoOwner})
    BY <1>0, <1>1, CampaignsTakeTheirOwn
  <2>3. \A t \in Sweeps : SweepApart(t)
    BY <2>2, SharedLockAssumption DEF SweepApart, sweepOnly
  <2>4. \A t \in Sweeps : SweepOrderly(t)'
    BY <2>3, SweepApartStaysOrderly DEF SweepLoadInv
  <2>5. SweepLoadInv'
    BY <2>2, <2>4 DEF SweepLoadInv, SweepLoadType, sweepOnly
  <2> QED BY <2>1, <2>5
<1>2. CASE Sweep!SweepNext /\ UNCHANGED <<target, jobs, phase, drift, pc, script>>
  <2>1. SweepLoadInv'
    BY <1>2, SweepStepKeepsLoad
  <2>2. UNCHANGED <<pc, flags, error>> /\ (lock' = lock \/ lock \in Sweeps \cup {NoOwner})
    BY <1>2, SweepsTakeTheirOwn DEF script
  <2>3. \A c \in Campaigns : lock = c => lock' = c
    BY <2>2, SharedLockAssumption, CampaignAssumption
  <2>4. \A c \in Campaigns : Orderly(c)'
    BY <1>2, <2>2, <2>3 DEF LoadInv, Orderly, Loaded, Explained
  <2>5. LoadType'
    BY <1>2, <2>2 DEF LoadInv, LoadType
  <2> QED BY <2>1, <2>4, <2>5 DEF LoadInv
<1>3. CASE UNCHANGED sharedVars
  <2>1. UNCHANGED vars /\ UNCHANGED sweepOnly
    BY <1>3 DEF sharedVars
  <2>2. LoadInv'
    BY <2>1, StepKeepsLoad
  <2>3. UNCHANGED <<lock, clone, driver, spc, sflags, failed>>
    BY <2>1 DEF vars, cluster, sweepOnly
  <2>4. SweepLoadInv'
    BY <2>3 DEF SweepLoadInv, SweepLoadType, SweepOrderly
  <2> QED BY <2>2, <2>4
<1> QED BY <1>1, <1>2, <1>3 DEF SharedNext

\* The invariant of campaigns and sweeps together.
THEOREM SharedLoadInvariant == SharedSpec => []SharedLoadInv
<1>1. SharedInit => SharedLoadInv
  BY LoadInit, SharedLockInit, SweepLoadInit DEF SharedInit, SharedLoadInv, SharedLockInv
<1>2. SharedLoadInv /\ SharedLockInv' /\ [SharedNext]_sharedVars => SharedLoadInv'
  BY SharedStepKeepsLoad
<1> QED BY <1>1, <1>2, SharedLockInvariant, PTL DEF SharedSpec

\* Whoever works under the lock meets no load but what a campaign left that knows
\* that its cleanup failed; a sweep leaves none, because it keeps the lock.
THEOREM OnlyReportedLoad == SharedSpec => []OthersLoadIsReported
<1>1. SharedLoadInv => OthersLoadIsReported
  <2> SUFFICES ASSUME SharedLoadInv PROVE OthersLoadIsReported
    OBVIOUS
  <2>1. \A s \in Sweeps : lock # s => clone[s] # "running" /\ driver[s] \notin Sweep!Driving
    BY DEF SharedLoadInv, SweepLoadInv, SweepOrderly
  <2>2. ASSUME NEW c \in Campaigns, CampaignLoad(c), lock # c PROVE error[c]
    <3>1. ~Holds(c)
      BY <2>2 DEF SharedLoadInv, LoadInv, LockInv
    <3>2. Explained(c)
      BY <2>2 DEF SharedLoadInv, LoadInv, Orderly, Loaded, CampaignLoad
    <3> QED BY <2>2, <3>1, <3>2 DEF Explained, Holds, InCleanup
  <2> QED BY <2>1, <2>2 DEF OthersLoadIsReported, Sweep!NothingRunsUnlocked
<1> QED BY <1>1, SharedLoadInvariant, PTL

----------------------------------------------------------------------------

\* Why a sweep that reports completion is clean: it set the flags of the lock and
\* of its clone before its last cell, so that its cleanup removed both, or failed.
SweepClosing(s) ==
    /\ spc[s] \in Sweep!UnderLock => "lock" \in sflags[s]
    /\ "complete" \in sflags[s] => /\ "lock" \in sflags[s] /\ "clone" \in sflags[s]
                                   /\ recorded[s] = SweepCells
                                   /\ spc[s] \notin Sweep!SweepWorking
    /\ "complete" \in sflags[s] /\ ~failed[s]
           /\ spc[s] \in {"checkReference", "unlock", "report", "ended"} => clone[s] = "absent"
    /\ "complete" \in sflags[s] /\ ~failed[s] /\ spc[s] \in {"report", "ended"} => lock # s
    /\ sstatus[s] = "completed" => "complete" \in sflags[s] /\ ~failed[s] /\ spc[s] = "ended"

SweepClosingType == DOMAIN recorded = Sweeps /\ DOMAIN sstatus = Sweeps

SweepClosingInv == SweepClosingType /\ \A s \in Sweeps : SweepClosing(s)

\* No sweep has set a flag when the scripts start.
LEMMA SweepClosingInit == SharedInit => SweepClosingInv
  BY DEF SharedInit, Sweep!SweepInit, SweepClosingInv, SweepClosingType, SweepClosing, Sweep!UnderLock

\* The domains of what a sweep records stay.
LEMMA SweepRecordsStay ==
    ASSUME SweepClosingType, NEW s \in Sweeps,
           \/ Sweep!SweepRun(s) \/ Sweep!SweepExit(s) \/ Sweep!Kill(s)
           \/ Sweep!Drive(s) \/ Sweep!TouchReference(s)
    PROVE  SweepClosingType'
<1> USE DEF Sweep!sweepCluster, Sweep!sweepScript, SweepClosingType
<1>1. CASE Sweep!SweepRun(s)
  BY <1>1 DEF Sweep!SweepRun, Sweep!PlanOnly, Sweep!Preflight, Sweep!CreateLock, Sweep!FlagLock,
     Sweep!CaptureReference, Sweep!CreateClone, Sweep!FlagClone, Sweep!ResetClone, Sweep!RollOut,
     Sweep!MarkDriver, Sweep!RunCell, Sweep!CollectCell, Sweep!RecordCell, Sweep!FinishCell,
     Sweep!FinishSweep, Sweep!Abort
<1>2. CASE Sweep!SweepExit(s)
  BY <1>2 DEF Sweep!SweepExit, Sweep!CleanDriver, Sweep!CleanClone, Sweep!CheckReference,
     Sweep!Unlock, Sweep!Report
<1>3. CASE Sweep!Kill(s) \/ Sweep!Drive(s) \/ Sweep!TouchReference(s)
  BY <1>3 DEF Sweep!Kill, Sweep!Drive, Sweep!TouchReference
<1> QED BY <1>1, <1>2, <1>3

\* What a step of another program leaves of a sweep's records.
SweepRecordsApart(t) ==
    /\ recorded'[t] = recorded[t] /\ sstatus'[t] = sstatus[t]
    /\ lock' = t => lock = t

\* Such a step keeps t as it was.
LEMMA SweepApartKeepsClosing ==
    ASSUME NEW t, SweepClosing(t), SweepApart(t), SweepRecordsApart(t)
    PROVE  SweepClosing(t)'
  BY DEF SweepClosing, SweepApart, SweepRecordsApart

\* No step of sweep s writes what sweep t records, or takes the lock for it.
LEMMA SweepRecordsStepsApart ==
    ASSUME SweepClosingType, NEW s \in Sweeps, NEW t \in Sweeps \ {s},
           \/ Sweep!SweepRun(s) \/ Sweep!SweepExit(s) \/ Sweep!Kill(s)
           \/ Sweep!Drive(s) \/ Sweep!TouchReference(s)
    PROVE  SweepRecordsApart(t)
<1> USE DEF Sweep!sweepCluster, Sweep!sweepScript, Sweep!Go
<1>0. DOMAIN recorded = Sweeps /\ DOMAIN sstatus = Sweeps /\ t # NoOwner /\ t # s
  BY SharedLockAssumption DEF SweepClosingType
<1>1. CASE Sweep!SweepRun(s)
  <2>1. UNCHANGED sstatus /\ (UNCHANGED recorded \/ recorded' = [recorded EXCEPT ![s] = @ + 1])
    BY <1>1 DEF Sweep!SweepRun, Sweep!PlanOnly, Sweep!Preflight, Sweep!CreateLock, Sweep!FlagLock,
       Sweep!CaptureReference, Sweep!CreateClone, Sweep!FlagClone, Sweep!ResetClone, Sweep!RollOut,
       Sweep!MarkDriver, Sweep!RunCell, Sweep!CollectCell, Sweep!RecordCell, Sweep!FinishCell,
       Sweep!FinishSweep, Sweep!Abort
  <2>2. lock' = lock \/ lock' = s
    BY <1>1 DEF Sweep!SweepRun, Sweep!PlanOnly, Sweep!Preflight, Sweep!CreateLock, Sweep!FlagLock,
       Sweep!CaptureReference, Sweep!CreateClone, Sweep!FlagClone, Sweep!ResetClone, Sweep!RollOut,
       Sweep!MarkDriver, Sweep!RunCell, Sweep!CollectCell, Sweep!RecordCell, Sweep!FinishCell,
       Sweep!FinishSweep, Sweep!Abort
  <2> QED BY <1>0, <2>1, <2>2 DEF SweepRecordsApart
<1>2. CASE Sweep!SweepExit(s)
  <2>1. UNCHANGED recorded /\ (lock' = lock \/ lock' = NoOwner)
    BY <1>2 DEF Sweep!SweepExit, Sweep!CleanDriver, Sweep!CleanClone, Sweep!CheckReference,
       Sweep!Unlock, Sweep!Report
  <2>2. UNCHANGED sstatus \/ sstatus' = [sstatus EXCEPT ![s] = Sweep!ReportedStatus(s)]
    BY <1>2 DEF Sweep!SweepExit, Sweep!CleanDriver, Sweep!CleanClone, Sweep!CheckReference,
       Sweep!Unlock, Sweep!Report
  <2> QED BY <1>0, <2>1, <2>2 DEF SweepRecordsApart
<1>3. CASE Sweep!Kill(s) \/ Sweep!Drive(s) \/ Sweep!TouchReference(s)
  BY <1>3 DEF Sweep!Kill, Sweep!Drive, Sweep!TouchReference, SweepRecordsApart
<1> QED BY <1>1, <1>2, <1>3

\* Every command of a sweep keeps its own closing: only the last cell's end sets
\* the complete flag.
LEMMA SweepRunKeepsClosing ==
    ASSUME SweepLockInv, SweepLoadInv, SweepClosingInv, NEW s \in Sweeps, Sweep!SweepRun(s)
    PROVE  SweepClosing(s)'
<1> USE DEF Sweep!sweepCluster, Sweep!sweepScript, Sweep!Go, Sweep!Set,
        Sweep!SweepWorking, Sweep!UnderLock
<1>0. /\ DOMAIN spc = Sweeps /\ DOMAIN sflags = Sweeps /\ DOMAIN recorded = Sweeps
      /\ SweepClosing(s) /\ (spc[s] = "cells" => "clone" \in sflags[s])
  BY DEF SweepLockInv, SweepLoadInv, SweepClosingInv, SweepClosingType, SweepOrderly
<1>n. spc[s] \in Sweep!SweepWorking => "complete" \notin sflags[s] /\ sstatus[s] # "completed"
  BY <1>0 DEF SweepClosing
<1>1. CASE Sweep!PlanOnly(s)
  BY <1>0, <1>n, <1>1 DEF Sweep!PlanOnly, SweepClosing
<1>2. CASE Sweep!Preflight(s)
  BY <1>0, <1>n, <1>2 DEF Sweep!Preflight, SweepClosing
<1>3. CASE Sweep!CreateLock(s)
  BY <1>0, <1>n, <1>3 DEF Sweep!CreateLock, SweepClosing
<1>4. CASE Sweep!FlagLock(s)
  BY <1>0, <1>n, <1>4 DEF Sweep!FlagLock, SweepClosing
<1>5. CASE Sweep!CaptureReference(s)
  BY <1>0, <1>n, <1>5 DEF Sweep!CaptureReference, SweepClosing
<1>6. CASE Sweep!CreateClone(s)
  BY <1>0, <1>n, <1>6 DEF Sweep!CreateClone, SweepClosing
<1>7. CASE Sweep!FlagClone(s)
  BY <1>0, <1>n, <1>7 DEF Sweep!FlagClone, SweepClosing
<1>8. CASE Sweep!ResetClone(s)
  BY <1>0, <1>n, <1>8 DEF Sweep!ResetClone, SweepClosing
<1>9. CASE Sweep!RollOut(s)
  BY <1>0, <1>n, <1>9 DEF Sweep!RollOut, SweepClosing
<1>10. CASE Sweep!MarkDriver(s)
  BY <1>0, <1>n, <1>10 DEF Sweep!MarkDriver, SweepClosing
<1>11. CASE Sweep!RunCell(s)
  BY <1>0, <1>n, <1>11 DEF Sweep!RunCell, SweepClosing
<1>12. CASE Sweep!CollectCell(s)
  BY <1>0, <1>n, <1>12 DEF Sweep!CollectCell, SweepClosing
<1>13. CASE Sweep!RecordCell(s)
  BY <1>0, <1>n, <1>13 DEF Sweep!RecordCell, SweepClosing
<1>14. CASE Sweep!FinishCell(s)
  BY <1>0, <1>n, <1>14 DEF Sweep!FinishCell, Sweep!DriverDeleted, Sweep!DriverNotDeleted, SweepClosing
<1>15. CASE Sweep!FinishSweep(s)
  BY <1>0, <1>n, <1>15 DEF Sweep!FinishSweep, SweepClosing
<1>16. CASE Sweep!Abort(s)
  BY <1>0, <1>n, <1>16 DEF Sweep!Abort, SweepClosing
<1> QED BY <1>1, <1>2, <1>3, <1>4, <1>5, <1>6, <1>7, <1>8,
          <1>9, <1>10, <1>11, <1>12, <1>13, <1>14, <1>15, <1>16 DEF Sweep!SweepRun

\* Every step of the EXIT trap keeps it: a step that leaves something behind fails.
LEMMA SweepTrapKeepsClosing ==
    ASSUME SweepLockInv, SweepLoadInv, SweepClosingInv, NEW s \in Sweeps,
           Sweep!SweepExit(s) \/ Sweep!Kill(s) \/ Sweep!Drive(s) \/ Sweep!TouchReference(s)
    PROVE  SweepClosing(s)'
<1> USE DEF Sweep!sweepCluster, Sweep!sweepScript, Sweep!Go, Sweep!CleanupFails,
        Sweep!SweepWorking, Sweep!UnderLock
<1>0. /\ DOMAIN spc = Sweeps /\ DOMAIN sflags = Sweeps /\ DOMAIN clone = Sweeps
      /\ failed \in [Sweeps -> BOOLEAN] /\ DOMAIN sstatus = Sweeps /\ s # NoOwner
      /\ SweepClosing(s)
  BY SharedLockAssumption DEF SweepLockInv, SweepLoadInv, SweepLoadType, SweepClosingInv, SweepClosingType
<1>1. CASE Sweep!CleanDriver(s)
  BY <1>0, <1>1 DEF Sweep!CleanDriver, Sweep!DriverDeleted, SweepClosing
<1>2. CASE Sweep!CleanClone(s)
  BY <1>0, <1>2 DEF Sweep!CleanClone, Sweep!CloneIs, SweepClosing
<1>3. CASE Sweep!CheckReference(s)
  BY <1>0, <1>3 DEF Sweep!CheckReference, SweepClosing
<1>4. CASE Sweep!Unlock(s)
  BY <1>0, <1>4 DEF Sweep!Unlock, SweepClosing
<1>5. CASE Sweep!Report(s)
  BY <1>0, <1>5 DEF Sweep!Report, Sweep!ReportedStatus, SweepClosing
<1>6. CASE Sweep!Kill(s)
  BY <1>0, <1>6 DEF Sweep!Kill, Sweep!SweepCleanup, SweepClosing
<1>7. CASE Sweep!Drive(s) \/ Sweep!TouchReference(s)
  BY <1>0, <1>7 DEF Sweep!Drive, Sweep!TouchReference, SweepClosing
<1> QED BY <1>1, <1>2, <1>3, <1>4, <1>5, <1>6, <1>7 DEF Sweep!SweepExit

\* A sweep's step keeps its own closing and everyone else's, a campaign's all.
LEMMA SharedStepKeepsClosing ==
    ASSUME SharedLoadInv, SweepClosingInv, [SharedNext]_sharedVars
    PROVE  SweepClosingInv'
<1> USE DEF SharedLoadInv
<1>1. CASE Next /\ UNCHANGED sweepOnly
  <2>1. UNCHANGED sweepOnly /\ (lock' = lock \/ lock \in Campaigns \cup {NoOwner})
    BY <1>1, CampaignsTakeTheirOwn DEF LoadInv
  <2>2. lock' \in {lock, NoOwner} \cup Campaigns
    <3>1. PICK c \in Campaigns : Run(c) \/ Cleanup(c) \/ Interrupt(c) \/ Kill(c) \/ World(c)
      BY <1>1 DEF Next
    <3>2. Run(c) => lock' \in {lock, c}
      BY DEF Run, PlanOnly, GoLive, CreateLock, FlagLock, CreateTarget, FlagTarget, ScaleBatch,
         FreezeInventory, StartCell, CreateJob, ReleaseJob, CaptureHealth, AllSuspended, AllReleased,
         BeforeArmedDeadline, ValidateArmed, CheckDrivers, AllComplete, CollectReports,
         DeleteCellJobs, Reconcile, Summarize, Die, cluster
    <3>3. Cleanup(c) => lock' \in {lock, NoOwner}
      BY DEF Cleanup, CleanJobs, CleanTarget, Verify, Unlock, Report, cluster
    <3>4. Interrupt(c) \/ Kill(c) \/ World(c) => lock' = lock
      BY DEF Interrupt, Kill, World, Tick, Drift, Driver, cluster
    <3> QED BY <3>1, <3>2, <3>3, <3>4
  <2>3. \A t \in Sweeps : SweepApart(t) /\ SweepRecordsApart(t)
    BY <2>1, <2>2, SharedLockAssumption DEF SweepApart, SweepRecordsApart, sweepOnly
  <2>4. \A t \in Sweeps : SweepClosing(t)'
    BY <2>3, SweepApartKeepsClosing DEF SweepClosingInv
  <2> QED BY <2>1, <2>4 DEF SweepClosingInv, SweepClosingType, sweepOnly
<1>2. CASE Sweep!SweepNext /\ UNCHANGED <<target, jobs, phase, drift, pc, script>>
  <2>1. PICK s \in Sweeps : \/ Sweep!SweepRun(s) \/ Sweep!SweepExit(s) \/ Sweep!Kill(s)
                            \/ Sweep!Drive(s) \/ Sweep!TouchReference(s)
    BY <1>2 DEF Sweep!SweepNext
  <2>2. SweepClosingType'
    BY <2>1, SweepRecordsStay DEF SweepClosingInv
  <2>3. \A t \in Sweeps \ {s} : SweepApart(t) /\ SweepRecordsApart(t)
    BY <2>1, SweepStepsApart, SweepRecordsStepsApart DEF SweepClosingInv
  <2>4. \A t \in Sweeps \ {s} : SweepClosing(t)'
    BY <2>3, SweepApartKeepsClosing DEF SweepClosingInv
  <2>5. SweepClosing(s)'
    BY <2>1, SweepRunKeepsClosing, SweepTrapKeepsClosing
  <2> QED BY <2>2, <2>4, <2>5 DEF SweepClosingInv
<1>3. CASE UNCHANGED sharedVars
  <2>1. UNCHANGED <<lock, clone, spc, sflags, recorded, failed, sstatus>>
    BY <1>3 DEF sharedVars, vars, cluster, sweepOnly
  <2> QED BY <2>1 DEF SweepClosingInv, SweepClosingType, SweepClosing
<1> QED BY <1>1, <1>2, <1>3 DEF SharedNext

\* A sweep that reports completion recorded every cell of its plan, its clone is
\* gone and the lock is not its own any more, whatever campaigns and other sweeps
\* do meanwhile and whichever commands of its cleanup fail.
THEOREM FinishedSweepsAreClean == SharedSpec => []CompletedSweepsAreClean
<1>1. SharedLoadInv /\ SweepClosingInv /\ [SharedNext]_sharedVars => SweepClosingInv'
  BY SharedStepKeepsClosing
<1>2. SweepClosingInv => CompletedSweepsAreClean
  BY DEF SweepClosingInv, SweepClosing, CompletedSweepsAreClean, Sweep!CompletedSweepIsClean
<1> QED BY SweepClosingInit, <1>1, <1>2, SharedLoadInvariant, PTL DEF SharedSpec

----------------------------------------------------------------------------

\* With the types inductive: a sweep in the middle of a cell has one left to record.
MeasuresACell == {"reset", "ready", "marked", "waiting", "collected"}
SweepTypeInv ==
    Sweep!SweepTypeOK /\ \A s \in Sweeps : spc[s] \in MeasuresACell => recorded[s] < SweepCells

\* The sweeps' first state is of their types.
LEMMA SweepTypeInit == SharedInit => SweepTypeInv
  BY SharedLockAssumption
  DEF SharedInit, Sweep!SweepInit, SweepTypeInv, Sweep!SweepTypeOK, MeasuresACell,
         Sweep!SweepWorking

\* Every command of a sweep keeps the types.
LEMMA SweepRunKeepsTypes ==
    ASSUME SweepTypeInv, NEW s \in Sweeps, Sweep!SweepRun(s)
    PROVE  SweepTypeInv'
<1>t. SweepCells \in Nat
  BY SharedLockAssumption
<1>1. CASE Sweep!PlanOnly(s)
  BY <1>1, <1>t DEF SweepTypeInv, Sweep!SweepTypeOK, MeasuresACell, Sweep!SweepWorking,
         Sweep!UnderLock, Sweep!SweepCleanup,
         Sweep!sweepCluster, Sweep!sweepScript, Sweep!Go, Sweep!PlanOnly, Sweep!Set, Sweep!Flags
<1>2. CASE Sweep!Preflight(s)
  BY <1>2, <1>t DEF SweepTypeInv, Sweep!SweepTypeOK, MeasuresACell, Sweep!SweepWorking,
         Sweep!UnderLock, Sweep!SweepCleanup,
         Sweep!sweepCluster, Sweep!sweepScript, Sweep!Go, Sweep!Preflight, Sweep!Set, Sweep!Flags
<1>3. CASE Sweep!CreateLock(s)
  BY <1>3, <1>t DEF SweepTypeInv, Sweep!SweepTypeOK, MeasuresACell, Sweep!SweepWorking,
         Sweep!UnderLock, Sweep!SweepCleanup,
         Sweep!sweepCluster, Sweep!sweepScript, Sweep!Go, Sweep!CreateLock
<1>4. CASE Sweep!FlagLock(s)
  BY <1>4, <1>t DEF SweepTypeInv, Sweep!SweepTypeOK, MeasuresACell, Sweep!SweepWorking,
         Sweep!UnderLock, Sweep!SweepCleanup,
         Sweep!sweepCluster, Sweep!sweepScript, Sweep!Go, Sweep!FlagLock, Sweep!Set, Sweep!Flags
<1>5. CASE Sweep!CaptureReference(s)
  BY <1>5, <1>t DEF SweepTypeInv, Sweep!SweepTypeOK, MeasuresACell, Sweep!SweepWorking,
         Sweep!UnderLock, Sweep!SweepCleanup,
         Sweep!sweepCluster, Sweep!sweepScript, Sweep!Go, Sweep!CaptureReference, Sweep!Set,
         Sweep!Flags
<1>6. CASE Sweep!CreateClone(s)
  BY <1>6, <1>t DEF SweepTypeInv, Sweep!SweepTypeOK, MeasuresACell, Sweep!SweepWorking,
         Sweep!UnderLock, Sweep!SweepCleanup,
         Sweep!sweepCluster, Sweep!sweepScript, Sweep!Go, Sweep!CreateClone, Sweep!CloneIs
<1>7. CASE Sweep!FlagClone(s)
  BY <1>7, <1>t DEF SweepTypeInv, Sweep!SweepTypeOK, MeasuresACell, Sweep!SweepWorking,
         Sweep!UnderLock, Sweep!SweepCleanup,
         Sweep!sweepCluster, Sweep!sweepScript, Sweep!Go, Sweep!FlagClone, Sweep!Set, Sweep!Flags
<1>8. CASE Sweep!ResetClone(s)
  BY <1>8, <1>t DEF SweepTypeInv, Sweep!SweepTypeOK, MeasuresACell, Sweep!SweepWorking,
         Sweep!UnderLock, Sweep!SweepCleanup,
         Sweep!sweepCluster, Sweep!sweepScript, Sweep!Go, Sweep!ResetClone, Sweep!CloneIs
<1>9. CASE Sweep!RollOut(s)
  BY <1>9, <1>t DEF SweepTypeInv, Sweep!SweepTypeOK, MeasuresACell, Sweep!SweepWorking,
         Sweep!UnderLock, Sweep!SweepCleanup,
         Sweep!sweepCluster, Sweep!sweepScript, Sweep!Go, Sweep!RollOut, Sweep!CloneIs
<1>10. CASE Sweep!MarkDriver(s)
  BY <1>10, <1>t DEF SweepTypeInv, Sweep!SweepTypeOK, MeasuresACell, Sweep!SweepWorking,
         Sweep!UnderLock, Sweep!SweepCleanup,
         Sweep!sweepCluster, Sweep!sweepScript, Sweep!Go, Sweep!MarkDriver, Sweep!Set, Sweep!Flags
<1>11. CASE Sweep!RunCell(s)
  BY <1>11, <1>t DEF SweepTypeInv, Sweep!SweepTypeOK, MeasuresACell, Sweep!SweepWorking,
         Sweep!UnderLock, Sweep!SweepCleanup,
         Sweep!sweepCluster, Sweep!sweepScript, Sweep!Go, Sweep!RunCell, Sweep!DriverIs,
         Sweep!Driving
<1>12. CASE Sweep!CollectCell(s)
  BY <1>12, <1>t DEF SweepTypeInv, Sweep!SweepTypeOK, MeasuresACell, Sweep!SweepWorking,
         Sweep!UnderLock, Sweep!SweepCleanup,
         Sweep!sweepCluster, Sweep!sweepScript, Sweep!Go, Sweep!CollectCell
<1>13. CASE Sweep!RecordCell(s)
  BY <1>13, <1>t DEF SweepTypeInv, Sweep!SweepTypeOK, MeasuresACell, Sweep!SweepWorking,
         Sweep!UnderLock, Sweep!SweepCleanup,
         Sweep!sweepCluster, Sweep!sweepScript, Sweep!Go, Sweep!RecordCell
<1>14. CASE Sweep!FinishCell(s)
  BY <1>14, <1>t DEF SweepTypeInv, Sweep!SweepTypeOK, MeasuresACell, Sweep!SweepWorking,
         Sweep!UnderLock, Sweep!SweepCleanup,
         Sweep!sweepCluster, Sweep!sweepScript, Sweep!Go, Sweep!FinishCell, Sweep!DriverDeleted,
         Sweep!DriverNotDeleted, Sweep!DriverIs, Sweep!Driving
<1>15. CASE Sweep!FinishSweep(s)
  BY <1>15, <1>t DEF SweepTypeInv, Sweep!SweepTypeOK, MeasuresACell, Sweep!SweepWorking,
         Sweep!UnderLock, Sweep!SweepCleanup,
         Sweep!sweepCluster, Sweep!sweepScript, Sweep!Go, Sweep!FinishSweep, Sweep!Set, Sweep!Flags
<1>16. CASE Sweep!Abort(s)
  BY <1>16, <1>t DEF SweepTypeInv, Sweep!SweepTypeOK, MeasuresACell, Sweep!SweepWorking,
         Sweep!UnderLock, Sweep!SweepCleanup,
         Sweep!sweepCluster, Sweep!sweepScript, Sweep!Go, Sweep!Abort
<1> QED BY <1>1, <1>2, <1>3, <1>4, <1>5, <1>6, <1>7, <1>8, <1>9, <1>10, <1>11, <1>12, <1>13,
      <1>14, <1>15, <1>16 DEF Sweep!SweepRun

\* Every step of a sweep's cleanup, a signal and the cluster keeps the types.
LEMMA SweepRestKeepsTypes ==
    ASSUME SweepTypeInv, NEW s \in Sweeps,
           Sweep!SweepExit(s) \/ Sweep!Kill(s) \/ Sweep!Drive(s) \/ Sweep!TouchReference(s)
    PROVE  SweepTypeInv'
<1>t. SweepCells \in Nat
  BY SharedLockAssumption
<1>1. CASE Sweep!CleanDriver(s)
  <2>1. driver' \in [Sweeps -> Sweep!Driving \cup {"absent", "complete", "failed"}]
    BY <1>1 DEF Sweep!CleanDriver, Sweep!DriverDeleted, Sweep!DriverNotDeleted, Sweep!DriverIs,
       SweepTypeInv, Sweep!SweepTypeOK
  <2>2. sflags' \in [Sweeps -> SUBSET Sweep!Flags]
    <3>1. sflags' = sflags \/ sflags' = [sflags EXCEPT ![s] = @ \ {"driver"}]
      BY <1>1 DEF Sweep!CleanDriver, Sweep!DriverDeleted
    <3> QED BY <3>1 DEF SweepTypeInv, Sweep!SweepTypeOK
  <2>3. failed' \in [Sweeps -> BOOLEAN]
    <3>1. failed' = failed \/ failed' = [failed EXCEPT ![s] = TRUE]
      BY <1>1 DEF Sweep!CleanDriver, Sweep!CleanupFails
    <3> QED BY <3>1 DEF SweepTypeInv, Sweep!SweepTypeOK
  <2>4. Sweep!Go(s, "cleanup", "cleanClone") /\ UNCHANGED <<lock, clone, reference, recorded,
         sstatus>>
    BY <1>1 DEF Sweep!CleanDriver
  <2> QED BY <1>t, <2>1, <2>2, <2>3, <2>4 DEF SweepTypeInv, Sweep!SweepTypeOK, MeasuresACell,
         Sweep!SweepWorking, Sweep!UnderLock, Sweep!SweepCleanup,
         Sweep!sweepCluster, Sweep!sweepScript, Sweep!Go
<1>2. CASE Sweep!CleanClone(s)
  <2>1. clone' \in [Sweeps -> {"absent", "parked", "running"}]
    BY <1>2 DEF Sweep!CleanClone, Sweep!CloneIs, SweepTypeInv, Sweep!SweepTypeOK
  <2>2. failed' \in [Sweeps -> BOOLEAN]
    BY <1>2 DEF Sweep!CleanClone, Sweep!CleanupFails, SweepTypeInv, Sweep!SweepTypeOK
  <2>3. /\ Sweep!Go(s, "cleanClone", "checkReference")
        /\ UNCHANGED <<lock, driver, reference, sflags, recorded, sstatus>>
    BY <1>2 DEF Sweep!CleanClone
  <2> QED BY <1>t, <2>1, <2>2, <2>3 DEF SweepTypeInv, Sweep!SweepTypeOK, MeasuresACell,
         Sweep!SweepWorking, Sweep!UnderLock, Sweep!SweepCleanup,
         Sweep!sweepCluster, Sweep!sweepScript, Sweep!Go
<1>3. CASE Sweep!CheckReference(s)
  BY <1>3, <1>t DEF SweepTypeInv, Sweep!SweepTypeOK, MeasuresACell, Sweep!SweepWorking,
         Sweep!UnderLock, Sweep!SweepCleanup,
         Sweep!sweepCluster, Sweep!sweepScript, Sweep!Go, Sweep!CheckReference, Sweep!CleanupFails
<1>4. CASE Sweep!Unlock(s)
  BY <1>4, <1>t DEF SweepTypeInv, Sweep!SweepTypeOK, MeasuresACell, Sweep!SweepWorking,
         Sweep!UnderLock, Sweep!SweepCleanup,
         Sweep!sweepCluster, Sweep!sweepScript, Sweep!Go, Sweep!Unlock, Sweep!CleanupFails
<1>5. CASE Sweep!Report(s)
  BY <1>5, <1>t DEF SweepTypeInv, Sweep!SweepTypeOK, MeasuresACell, Sweep!SweepWorking,
         Sweep!UnderLock, Sweep!SweepCleanup,
         Sweep!sweepCluster, Sweep!sweepScript, Sweep!Go, Sweep!Report, Sweep!ReportedStatus
<1>6. CASE Sweep!Kill(s)
  BY <1>6, <1>t DEF SweepTypeInv, Sweep!SweepTypeOK, MeasuresACell, Sweep!SweepWorking,
         Sweep!UnderLock, Sweep!SweepCleanup,
         Sweep!sweepCluster, Sweep!sweepScript, Sweep!Go, Sweep!Kill
<1>7. CASE Sweep!Drive(s)
  BY <1>7, <1>t DEF SweepTypeInv, Sweep!SweepTypeOK, MeasuresACell, Sweep!SweepWorking,
         Sweep!UnderLock, Sweep!SweepCleanup,
         Sweep!sweepCluster, Sweep!sweepScript, Sweep!Go, Sweep!Drive, Sweep!DriverIs, Sweep!Driving
<1>8. CASE Sweep!TouchReference(s)
  BY <1>8, <1>t DEF SweepTypeInv, Sweep!SweepTypeOK, MeasuresACell, Sweep!SweepWorking,
         Sweep!UnderLock, Sweep!SweepCleanup,
         Sweep!sweepCluster, Sweep!sweepScript, Sweep!Go, Sweep!TouchReference
<1> QED BY <1>1, <1>2, <1>3, <1>4, <1>5, <1>6, <1>7, <1>8 DEF Sweep!SweepExit

\* The lock is with one of the programs, or with nobody.
LEMMA LockHasAnOwner ==
    ASSUME lock \in Campaigns \cup Sweeps \cup {NoOwner}, SharedNext
    PROVE  lock' \in Campaigns \cup Sweeps \cup {NoOwner}
<1>1. CASE Next
  <2>1. PICK c \in Campaigns : Run(c) \/ Cleanup(c) \/ Interrupt(c) \/ Kill(c) \/ World(c)
    BY <1>1 DEF Next
  <2>2. Run(c) => lock' \in {lock, c}
    BY DEF Run, PlanOnly, GoLive, CreateLock, FlagLock, CreateTarget, FlagTarget, ScaleBatch,
       FreezeInventory, StartCell, CreateJob, ReleaseJob, CaptureHealth, AllSuspended, AllReleased,
       BeforeArmedDeadline, ValidateArmed, CheckDrivers, AllComplete, CollectReports,
       DeleteCellJobs, Reconcile, Summarize, Die, cluster
  <2>3. Cleanup(c) => lock' \in {lock, NoOwner}
    BY DEF Cleanup, CleanJobs, CleanTarget, Verify, Unlock, Report, cluster
  <2>4. Interrupt(c) \/ Kill(c) \/ World(c) => lock' = lock
    BY DEF Interrupt, Kill, World, Tick, Drift, Driver, cluster
  <2> QED BY <2>1, <2>2, <2>3, <2>4
<1>2. CASE Sweep!SweepNext
  <2>1. PICK s \in Sweeps :
           \/ Sweep!SweepRun(s) \/ Sweep!SweepExit(s) \/ Sweep!Kill(s)
           \/ Sweep!Drive(s) \/ Sweep!TouchReference(s)
    BY <1>2 DEF Sweep!SweepNext
  <2>2. Sweep!SweepRun(s) => lock' \in {lock, s}
    BY DEF Sweep!SweepRun, Sweep!PlanOnly, Sweep!Preflight, Sweep!CreateLock, Sweep!FlagLock,
       Sweep!CaptureReference, Sweep!CreateClone, Sweep!FlagClone, Sweep!ResetClone, Sweep!RollOut,
       Sweep!MarkDriver, Sweep!RunCell, Sweep!CollectCell, Sweep!RecordCell, Sweep!FinishCell,
       Sweep!FinishSweep, Sweep!Abort
  <2>3. Sweep!SweepExit(s) => lock' \in {lock, NoOwner}
    BY DEF Sweep!SweepExit, Sweep!CleanDriver, Sweep!CleanClone, Sweep!CheckReference,
       Sweep!Unlock, Sweep!Report
  <2>4. Sweep!Kill(s) \/ Sweep!Drive(s) \/ Sweep!TouchReference(s) => lock' = lock
    BY DEF Sweep!Kill, Sweep!Drive, Sweep!TouchReference
  <2> QED BY <2>1, <2>2, <2>3, <2>4
<1> QED BY <1>1, <1>2 DEF SharedNext

\* Every variable of the sweeps and the lock keep their types, and no sweep records
\* more cells than its plan has.
THEOREM SharedTypeCorrect == SharedSpec => []AllTypes
<1> DEFINE Owned == lock \in Campaigns \cup Sweeps \cup {NoOwner}
<1>1. SharedInit => Owned
  BY DEF SharedInit, Init
<1>2. SweepTypeInv /\ Owned /\ [SharedNext]_sharedVars => (SweepTypeInv /\ Owned)'
  <2> SUFFICES ASSUME SweepTypeInv, Owned, [SharedNext]_sharedVars PROVE (SweepTypeInv /\ Owned)'
    OBVIOUS
  <2>1. CASE UNCHANGED sharedVars
    BY <2>1 DEF sharedVars, vars, cluster, sweepOnly, SweepTypeInv, Sweep!SweepTypeOK
  <2>2. CASE SharedNext
    <3>1. Owned'
      BY <2>2, LockHasAnOwner
    <3>2. CASE UNCHANGED sweepOnly
      BY <3>1, <3>2 DEF sweepOnly, SweepTypeInv, Sweep!SweepTypeOK
    <3>3. CASE Sweep!SweepNext
      BY <3>1, <3>3, SweepRunKeepsTypes, SweepRestKeepsTypes DEF Sweep!SweepNext
    <3> QED BY <2>2, <3>2, <3>3 DEF SharedNext
  <2> QED BY <2>1, <2>2
<1>3. SweepTypeInv /\ Owned => AllTypes
  BY DEF SweepTypeInv, AllTypes
<1> QED BY SweepTypeInit, <1>1, <1>2, <1>3, PTL DEF SharedSpec

----------------------------------------------------------------------------
(* Campaigns and sweeps implement ClusterLock.                             *)

\* The discipline by itself keeps load under the lock, or known: what the programs
\* need of each other is in it.
LEMMA DisciplineKeepsLoadOwned ==
    ASSUME Discipline!LoadIsOwned, [Discipline!Next]_(Discipline!vars)
    PROVE  Discipline!LoadIsOwned'
<1>0. NoOwner \notin Campaigns \cup Sweeps
  BY SharedLockAssumption, CampaignAssumption
<1>1. ASSUME NEW p \in Campaigns \cup Sweeps,
             \/ Discipline!Take(p) \/ Discipline!Begin(p) \/ Discipline!End(p)
             \/ Discipline!Give(p) \/ Discipline!Learn(p)
      PROVE  Discipline!LoadIsOwned'
  <2> USE DEF Discipline!LoadIsOwned, Discipline!MayLearn
  <2>1. CASE Discipline!Take(p)
    <3>1. Loading' = Loading /\ Known' = Known /\ \A q \in Loading : q \in Known \ Sweeps \/ q = NoOwner
      BY <2>1 DEF Discipline!Take
    <3>2. Loading \subseteq Campaigns \cup Sweeps
      BY DEF Loading
    <3>. QED
      BY <1>0, <3>1, <3>2
  <2>2. CASE Discipline!Begin(p)
    BY <2>2 DEF Discipline!Begin
  <2>3. CASE Discipline!End(p)
    BY <2>3 DEF Discipline!End
  <2>4. CASE Discipline!Give(p)
    BY <2>4 DEF Discipline!Give
  <2>5. CASE Discipline!Learn(p)
    BY <2>5 DEF Discipline!Learn
  <2>. QED
    BY <1>1, <2>1, <2>2, <2>3, <2>4, <2>5
<1>2. CASE UNCHANGED Discipline!vars
  BY <1>2 DEF Discipline!vars, Discipline!LoadIsOwned
<1>. QED
  BY <1>1, <1>2 DEF Discipline!Next

\* What one program does to its own load and to what it knows, and to the lock, is one
\* step of the discipline or none.
LEMMA OneProgramsStep ==
    ASSUME NEW p \in Campaigns \cup Sweeps,
           Loading' \in {Loading, Loading \cup {p}, Loading \ {p}},
           Known' \in {Known, Known \cup {p}},
           \/ lock' = lock /\ (p \in Loading' => p \in Loading)
           \/ lock' = lock /\ lock = p /\ Known' = Known
           \/ lock = NoOwner /\ lock' = p /\ p \notin Loading /\ UNCHANGED <<Loading, Known>>
           \/ /\ lock = p /\ lock' = NoOwner /\ Loading' = Loading
              /\ p \in Loading => p \in Known'
              /\ p \in Sweeps => p \notin Loading \cup Known
    PROVE  [Discipline!Next]_(Discipline!vars)
<1> USE DEF Discipline!Next, Discipline!vars, Discipline!MayLearn
<1>1. CASE lock' = lock /\ (p \in Loading' => p \in Loading)
  <2>1. Loading' \in {Loading, Loading \ {p}}
    BY <1>1
  <2>2. CASE Loading' = Loading
    BY <1>1, <2>2 DEF Discipline!Learn
  <2>3. CASE Loading' = Loading \ {p}
    BY <1>1, <2>3 DEF Discipline!End
  <2>. QED
    BY <2>1, <2>2, <2>3
<1>2. CASE lock' = lock /\ lock = p /\ Known' = Known
  <2>1. CASE Loading' = Loading
    BY <1>2, <2>1 DEF Discipline!Learn
  <2>2. CASE Loading' = Loading \cup {p}
    BY <1>2, <2>2 DEF Discipline!Begin
  <2>3. CASE Loading' = Loading \ {p}
    BY <1>2, <2>3 DEF Discipline!End
  <2>. QED
    BY <2>1, <2>2, <2>3
<1>3. CASE lock = NoOwner /\ lock' = p /\ p \notin Loading /\ UNCHANGED <<Loading, Known>>
  BY <1>3 DEF Discipline!Take
<1>4. CASE /\ lock = p /\ lock' = NoOwner /\ Loading' = Loading
           /\ p \in Loading => p \in Known'
           /\ p \in Sweeps => p \notin Loading \cup Known
  BY <1>4 DEF Discipline!Give
<1>. QED
  BY <1>1, <1>2, <1>3, <1>4

\* The four ways in which a step of campaign c may look to the others.
LEMMA CampaignDisciplined ==
    ASSUME LoadInv, NEW c \in Campaigns,
           Run(c) \/ Cleanup(c) \/ Interrupt(c) \/ Kill(c) \/ World(c)
    PROVE  /\ error[c] => error'[c]
           /\ \/ lock' = lock /\ (CampaignLoad(c)' => CampaignLoad(c))
              \/ lock' = lock /\ lock = c /\ error' = error
              \/ /\ lock = NoOwner /\ lock' = c /\ ~CampaignLoad(c)
                 /\ UNCHANGED <<jobs, target, error>>
              \/ /\ lock = c /\ lock' = NoOwner /\ UNCHANGED <<jobs, target>>
                 /\ CampaignLoad(c) => error'[c]
<1> USE DEF Step, Goto, SetJob, cluster, script
<1>0. /\ DOMAIN pc = Campaigns /\ DOMAIN flags = Campaigns /\ DOMAIN jobs = Campaigns
      /\ DOMAIN error = Campaigns /\ DOMAIN target = Campaigns /\ target[c] \in Int
      /\ jobs[c] \in [Endpoints -> JobStates]
  BY DEF LoadInv, LockInv, LoadType
<1>a. pc[c] \in Locked => lock = c
  BY DEF LoadInv, LockInv, Holds
<1>b. ASSUME NEW left \in SomeJobsLeft(c), jobs' = [jobs EXCEPT ![c] = left], target' = target
      PROVE  CampaignLoad(c)' => CampaignLoad(c)
  <2>1. jobs'[c] = left /\ target'[c] = target[c]
    BY <1>0, <1>b
  <2>2. jobs[c] = NoJobs => left = NoJobs
    BY DEF SomeJobsLeft, NoJobs
  <2>. QED
    BY <2>1, <2>2 DEF CampaignLoad
<1>c. ASSUME jobs' = [jobs EXCEPT ![c] = NoJobs], target' = target
      PROVE  CampaignLoad(c)' => CampaignLoad(c)
  BY <1>0, <1>c DEF CampaignLoad
<1>d. ASSUME UNCHANGED <<jobs, target>> PROVE CampaignLoad(c)' <=> CampaignLoad(c)
  BY <1>d DEF CampaignLoad
<1>1. CASE Run(c)
  <2>0. error' = error
    BY <1>1 DEF Run, PlanOnly, GoLive, CreateLock, FlagLock, CreateTarget, FlagTarget, ScaleBatch,
       FreezeInventory, StartCell, CreateJob, ReleaseJob, CaptureHealth, AllSuspended, AllReleased,
       BeforeArmedDeadline, ValidateArmed, CheckDrivers, AllComplete, CollectReports,
       DeleteCellJobs, Reconcile, Summarize, Die
  <2>1. CASE CreateLock(c)
    <3>1. ~CampaignLoad(c)
      BY <2>1 DEF CreateLock, LoadInv, Orderly, Loaded, Explained, CampaignLoad, Locked
    <3>. QED
      BY <2>0, <2>1, <3>1 DEF CreateLock
  <2>2. CASE CreateTarget(c)
    BY <1>0, <2>0, <2>2 DEF CreateTarget, CampaignLoad
  <2>3. CASE ScaleBatch(c) \/ \E e \in Endpoints : CreateJob(c, e) \/ ReleaseJob(c, e)
    BY <1>a, <2>0, <2>3 DEF ScaleBatch, CreateJob, ReleaseJob, Locked, Working, InCell
  <2>4. CASE DeleteCellJobs(c)
    BY <1>b, <1>c, <2>0, <2>4 DEF DeleteCellJobs
  <2>5. CASE UNCHANGED <<lock, jobs, target>>
    BY <1>d, <2>0, <2>5
  <2>. QED
    BY <1>1, <2>1, <2>2, <2>3, <2>4, <2>5 DEF Run, PlanOnly, GoLive, FlagLock, FlagTarget,
       FreezeInventory, StartCell, CaptureHealth, AllSuspended, AllReleased,
       BeforeArmedDeadline, ValidateArmed, CheckDrivers, AllComplete, CollectReports,
       Reconcile, Summarize, Die
<1>2. CASE Cleanup(c)
  <2>1. CASE CleanJobs(c)
    BY <1>0, <1>b, <1>c, <1>d, <2>1 DEF CleanJobs
  <2>2. CASE CleanTarget(c)
    BY <1>0, <2>2 DEF CleanTarget, CampaignLoad, Gone
  <2>3. CASE Verify(c)
    BY <1>0, <1>d, <2>3 DEF Verify
  <2>4. CASE Unlock(c)
    <3>1. pc[c] = "unlock" /\ UNCHANGED <<jobs, target>> /\ (error[c] => error'[c])
      BY <1>0, <2>4 DEF Unlock
    <3>2. CampaignLoad(c) => error[c]
      BY <3>1 DEF LoadInv, Orderly, Loaded, Explained, CampaignLoad, Locked, Working, InCell
    <3>3. lock' = lock \/ (lock = c /\ lock' = NoOwner)
      BY <2>4 DEF Unlock
    <3>. QED
      BY <1>d, <3>1, <3>2, <3>3
  <2>5. CASE Report(c)
    BY <1>d, <2>5 DEF Report
  <2>. QED
    BY <1>2, <2>1, <2>2, <2>3, <2>4, <2>5 DEF Cleanup
<1>3. CASE Interrupt(c) \/ Kill(c) \/ Tick(c) \/ Drift(c)
  BY <1>d, <1>3 DEF Interrupt, Kill, Tick, Drift
<1>4. ASSUME NEW e \in Endpoints, Driver(c, e)
      PROVE  UNCHANGED <<lock, error>> /\ CampaignLoad(c)
  <2>1. jobs[c][e] # "absent"
    BY <1>4 DEF Driver, JobMove
  <2>. QED
    BY <1>4, <2>1 DEF Driver, CampaignLoad, NoJobs
<1>. QED
  BY <1>1, <1>2, <1>3, <1>4 DEF World

\* The same ways for sweep s, which gives the lock back only if nothing failed.
LEMMA SweepDisciplined ==
    ASSUME SweepLockInv, SweepLoadInv, NEW s \in Sweeps,
           \/ Sweep!SweepRun(s) \/ Sweep!SweepExit(s) \/ Sweep!Kill(s)
           \/ Sweep!Drive(s) \/ Sweep!TouchReference(s)
    PROVE  /\ failed[s] => failed'[s]
           /\ \/ lock' = lock /\ (SweepLoad(s)' => SweepLoad(s))
              \/ lock' = lock /\ lock = s /\ failed' = failed
              \/ /\ lock = NoOwner /\ lock' = s /\ ~SweepLoad(s)
                 /\ UNCHANGED <<clone, driver, failed>>
              \/ /\ lock = s /\ lock' = NoOwner /\ UNCHANGED <<clone, driver>>
                 /\ ~SweepLoad(s) /\ ~failed[s]
<1> USE DEF Sweep!sweepCluster, Sweep!sweepScript, Sweep!Go, Sweep!Set, Sweep!CloneIs,
        Sweep!DriverIs, Sweep!CleanupFails, Sweep!DriverDeleted, Sweep!DriverNotDeleted
<1>0. /\ DOMAIN clone = Sweeps /\ DOMAIN driver = Sweeps /\ failed \in [Sweeps -> BOOLEAN]
      /\ s # NoOwner /\ SweepOrderly(s)
  BY SharedLockAssumption DEF SweepLoadInv, SweepLoadType
<1>a. spc[s] \in Sweep!UnderLock => lock = s
  BY DEF SweepLockInv, SweepHolds, SweepLocked
<1>b. ASSUME UNCHANGED <<clone, driver>> PROVE SweepLoad(s)' <=> SweepLoad(s)
  BY <1>b DEF SweepLoad
<1>c. ASSUME clone'[s] \in {clone[s], "absent", "parked"},
             driver'[s] \in {driver[s], "absent", "complete", "failed"}
      PROVE  SweepLoad(s)' => SweepLoad(s)
  BY <1>c DEF SweepLoad, Sweep!Driving
<1>1. CASE Sweep!SweepRun(s)
  <2>0. failed' = failed
    BY <1>1 DEF Sweep!SweepRun, Sweep!PlanOnly, Sweep!Preflight, Sweep!CreateLock, Sweep!FlagLock,
       Sweep!CaptureReference, Sweep!CreateClone, Sweep!FlagClone, Sweep!ResetClone, Sweep!RollOut,
       Sweep!MarkDriver, Sweep!RunCell, Sweep!CollectCell, Sweep!RecordCell, Sweep!FinishCell,
       Sweep!FinishSweep, Sweep!Abort
  <2>1. CASE Sweep!CreateLock(s)
    <3>1. ~SweepLoad(s)
      BY <1>0, <2>1 DEF Sweep!CreateLock, SweepOrderly, SweepLoad
    <3>. QED
      BY <2>0, <2>1, <3>1 DEF Sweep!CreateLock
  <2>2. CASE Sweep!CreateClone(s) \/ Sweep!ResetClone(s)
    BY <1>0, <1>c, <2>0, <2>2 DEF Sweep!CreateClone, Sweep!ResetClone
  <2>3. CASE Sweep!RollOut(s) \/ Sweep!RunCell(s)
    BY <1>a, <2>0, <2>3 DEF Sweep!RollOut, Sweep!RunCell, Sweep!UnderLock
  <2>4. CASE Sweep!FinishCell(s)
    BY <1>0, <1>b, <1>c, <2>0, <2>4 DEF Sweep!FinishCell
  <2>5. CASE UNCHANGED <<lock, clone, driver>>
    BY <1>b, <2>0, <2>5
  <2>. QED
    BY <1>1, <2>1, <2>2, <2>3, <2>4, <2>5 DEF Sweep!SweepRun, Sweep!PlanOnly, Sweep!Preflight,
       Sweep!FlagLock, Sweep!CaptureReference, Sweep!FlagClone, Sweep!MarkDriver,
       Sweep!CollectCell, Sweep!RecordCell, Sweep!FinishSweep, Sweep!Abort
<1>2. CASE Sweep!SweepExit(s)
  <2>1. CASE Sweep!CleanDriver(s)
    BY <1>0, <1>c, <2>1 DEF Sweep!CleanDriver
  <2>2. CASE Sweep!CleanClone(s)
    BY <1>0, <1>c, <2>2 DEF Sweep!CleanClone
  <2>3. CASE Sweep!CheckReference(s)
    BY <1>0, <1>b, <2>3 DEF Sweep!CheckReference
  <2>4. CASE Sweep!Unlock(s)
    <3>1. /\ spc[s] = "unlock" /\ UNCHANGED <<clone, driver>> /\ (failed[s] => failed'[s])
          /\ lock' = lock \/ ("lock" \in sflags[s] /\ ~failed[s] /\ lock' = NoOwner)
      BY <1>0, <2>4 DEF Sweep!Unlock
    <3>2. "lock" \in sflags[s] => lock = s
      BY <3>1 DEF SweepLockInv, SweepHolds, Sweep!SweepCleanup
    <3>3. ~failed[s] => ~SweepLoad(s)
      BY <1>0, <3>1 DEF SweepOrderly, SweepLoad
    <3>. QED
      BY <1>b, <3>1, <3>2, <3>3
  <2>5. CASE Sweep!Report(s)
    BY <1>b, <2>5 DEF Sweep!Report
  <2>. QED
    BY <1>2, <2>1, <2>2, <2>3, <2>4, <2>5 DEF Sweep!SweepExit
<1>3. CASE Sweep!Kill(s) \/ Sweep!TouchReference(s)
  BY <1>b, <1>3 DEF Sweep!Kill, Sweep!TouchReference
<1>4. CASE Sweep!Drive(s)
  <2>1. UNCHANGED <<lock, failed, clone>> /\ driver[s] \in Sweep!Driving
    BY <1>4 DEF Sweep!Drive, Sweep!Driving
  <2>. QED
    BY <2>1 DEF SweepLoad
<1>. QED
  BY <1>1, <1>2, <1>3, <1>4

\* Every step of a campaign or a sweep is one step of the discipline or none.
LEMMA StepsAreDisciplined ==
    ASSUME SharedLoadInv, [SharedNext]_sharedVars
    PROVE  [Discipline!Next]_(Discipline!vars)
<1>0. /\ Sweeps \cap Campaigns = {}
      /\ error \in [Campaigns -> BOOLEAN] /\ failed \in [Sweeps -> BOOLEAN]
  BY SharedLockAssumption DEF SharedLoadInv, LoadInv, LoadType, SweepLoadInv, SweepLoadType
<1>1. CASE Next /\ UNCHANGED sweepOnly
  <2>1. PICK c \in Campaigns : Run(c) \/ Cleanup(c) \/ Interrupt(c) \/ Kill(c) \/ World(c)
    BY <1>1 DEF Next
  <2>2. \A d \in Campaigns \ {c} : (CampaignLoad(d)' <=> CampaignLoad(d)) /\ (error'[d] <=> error[d])
    BY <2>1, StepsApart DEF SharedLoadInv, Apart, CampaignLoad
  <2>3. \A s \in Sweeps : (SweepLoad(s)' <=> SweepLoad(s)) /\ failed'[s] = failed[s]
    BY <1>1 DEF sweepOnly, SweepLoad
  <2>4. /\ c \in Loading <=> CampaignLoad(c)
        /\ (c \in Loading)' <=> CampaignLoad(c)'
        /\ c \in Known <=> error[c]
        /\ (c \in Known)' <=> error'[c]
    BY <1>0 DEF Loading, Known
  <2>5. Loading' = IF CampaignLoad(c)' THEN Loading \cup {c} ELSE Loading \ {c}
    BY <1>0, <2>2, <2>3 DEF Loading
  <2>6. Known' = IF error'[c] THEN Known \cup {c} ELSE Known \ {c}
    BY <1>0, <2>2, <2>3 DEF Known
  <2>7. /\ error[c] => error'[c]
        /\ \/ lock' = lock /\ (CampaignLoad(c)' => CampaignLoad(c))
           \/ lock' = lock /\ lock = c /\ error' = error
           \/ /\ lock = NoOwner /\ lock' = c /\ ~CampaignLoad(c)
              /\ UNCHANGED <<jobs, target, error>>
           \/ /\ lock = c /\ lock' = NoOwner /\ UNCHANGED <<jobs, target>>
              /\ CampaignLoad(c) => error'[c]
    BY <2>1, CampaignDisciplined DEF SharedLoadInv
  <2>8. UNCHANGED <<jobs, target>> => Loading' = Loading
    BY <2>3 DEF Loading, CampaignLoad
  <2>9. error' = error => Known' = Known
    BY <2>3 DEF Known
  <2>10. Loading' \in {Loading, Loading \cup {c}, Loading \ {c}}
    BY <2>5
  <2>11. Known' \in {Known, Known \cup {c}}
    BY <2>4, <2>6, <2>7
  <2>. QED
    BY <1>0, <2>4, <2>7, <2>8, <2>9, <2>10, <2>11, OneProgramsStep
<1>2. CASE Sweep!SweepNext /\ UNCHANGED <<target, jobs, phase, drift, pc, script>>
  <2>1. PICK s \in Sweeps : \/ Sweep!SweepRun(s) \/ Sweep!SweepExit(s) \/ Sweep!Kill(s)
                            \/ Sweep!Drive(s) \/ Sweep!TouchReference(s)
    BY <1>2 DEF Sweep!SweepNext
  <2>2. \A t \in Sweeps \ {s} : (SweepLoad(t)' <=> SweepLoad(t)) /\ failed'[t] = failed[t]
    BY <2>1, SweepStepsApart DEF SharedLoadInv, SweepApart, SweepLoad
  <2>3. \A c \in Campaigns : (CampaignLoad(c)' <=> CampaignLoad(c)) /\ error'[c] = error[c]
    BY <1>2 DEF script, CampaignLoad
  <2>4. /\ s \in Loading <=> SweepLoad(s)
        /\ (s \in Loading)' <=> SweepLoad(s)'
        /\ s \in Known <=> failed[s]
        /\ (s \in Known)' <=> failed'[s]
    BY <1>0 DEF Loading, Known
  <2>5. Loading' = IF SweepLoad(s)' THEN Loading \cup {s} ELSE Loading \ {s}
    BY <1>0, <2>2, <2>3 DEF Loading
  <2>6. Known' = IF failed'[s] THEN Known \cup {s} ELSE Known \ {s}
    BY <1>0, <2>2, <2>3 DEF Known
  <2>7. /\ failed[s] => failed'[s]
        /\ \/ lock' = lock /\ (SweepLoad(s)' => SweepLoad(s))
           \/ lock' = lock /\ lock = s /\ failed' = failed
           \/ /\ lock = NoOwner /\ lock' = s /\ ~SweepLoad(s)
              /\ UNCHANGED <<clone, driver, failed>>
           \/ /\ lock = s /\ lock' = NoOwner /\ UNCHANGED <<clone, driver>>
              /\ ~SweepLoad(s) /\ ~failed[s]
    BY <2>1, SweepDisciplined DEF SharedLoadInv
  <2>8. UNCHANGED <<clone, driver>> => Loading' = Loading
    BY <2>3 DEF Loading, SweepLoad
  <2>9. failed' = failed => Known' = Known
    BY <2>3 DEF Known
  <2>10. Loading' \in {Loading, Loading \cup {s}, Loading \ {s}}
    BY <2>5
  <2>11. Known' \in {Known, Known \cup {s}}
    BY <2>4, <2>6, <2>7
  <2>. QED
    BY <1>0, <2>4, <2>7, <2>8, <2>9, <2>10, <2>11, OneProgramsStep
<1>3. CASE UNCHANGED sharedVars
  BY <1>3 DEF sharedVars, vars, cluster, script, sweepOnly, Discipline!vars, Loading, Known,
     CampaignLoad, SweepLoad
<1>. QED
  BY <1>1, <1>2, <1>3 DEF SharedNext

\* Campaigns and sweeps, any number of them, implement the discipline of the lock:
\* each of their steps takes it while nobody has it, gives it back while it has it
\* itself, or begins, ends or learns of load of its own.
THEOREM LockIsImplemented == SharedSpec => ImplementsLock
<1>1. SharedInit => Discipline!Init
  BY DEF SharedInit, Init, Sweep!SweepInit, Discipline!Init, Loading, Known, CampaignLoad,
     SweepLoad, Sweep!Driving, Gone
<1>2. SharedLoadInv /\ [SharedNext]_sharedVars => [Discipline!Next]_(Discipline!vars)
  BY StepsAreDisciplined
<1>. QED
  BY <1>1, <1>2, SharedLoadInvariant, PTL DEF SharedSpec, ImplementsLock, Discipline!Spec

\* So whatever load there is beside the holder's is known to the campaign that left it.
THEOREM LoadAlwaysOwned == SharedSpec => []Discipline!LoadIsOwned
<1>1. Discipline!Init => Discipline!LoadIsOwned
  BY DEF Discipline!Init, Discipline!LoadIsOwned
<1>2. /\ Discipline!LoadIsOwned /\ [Discipline!Next]_(Discipline!vars)
      => Discipline!LoadIsOwned'
  BY DisciplineKeepsLoadOwned
<1>. QED
  BY <1>1, <1>2, LockIsImplemented, PTL DEF ImplementsLock, Discipline!Spec
=============================================================================
