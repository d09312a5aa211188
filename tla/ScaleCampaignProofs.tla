------------------------ MODULE ScaleCampaignProofs ------------------------
(***************************************************************************)
(* Proofs about the scale campaigns, for every number of campaigns, cells, *)
(* endpoints and batches: the benchmark lock excludes.                     *)
(***************************************************************************)
EXTENDS ScaleCampaign, TLAPS

States == Working \cup InCleanup \cup {"ended", "killed"}
Locked == Working \ {"setup", "unlocked"}

\* A script that has taken the lock and has not yet given it back.
Holds(c) ==
    \/ pc[c] \in Locked
    \/ "lock" \in flags[c] /\ pc[c] \in InCleanup \ {"report"}

\* lock_acquired is set by the script that created the ConfigMap, after it did.
LockInv ==
    /\ pc \in [Campaigns -> States]
    /\ DOMAIN flags = Campaigns
    /\ \A c \in Campaigns : "lock" \in flags[c] => pc[c] \notin {"setup", "unlocked"}
    /\ \A c \in Campaigns : Holds(c) => lock = c

----------------------------------------------------------------------------

\* No script has started.
LEMMA LockInit == Init => LockInv
  BY DEF Init, LockInv, Holds, Locked, States, Working, InCell, InCleanup

\* A step of c that moves its script inside the lock, or out of it without
\* touching the ConfigMap, keeps the invariant.
LEMMA MoveKeepsLock ==
    ASSUME LockInv, NEW c \in Campaigns, NEW to \in States,
           lock' = lock, pc' = [pc EXCEPT ![c] = to],
           DOMAIN flags' = Campaigns,
           \A d \in Campaigns \ {c} : flags'[d] = flags[d],
           to \in Locked => pc[c] \in Locked,
           "lock" \in flags'[c] => (pc[c] \in Locked \/ "lock" \in flags[c]) /\ to \notin {"setup", "unlocked"},
           to \in InCleanup \ {"report"} /\ "lock" \in flags'[c] =>
                "lock" \in flags[c] /\ pc[c] \in Locked \cup (InCleanup \ {"report"})
    PROVE  LockInv'
<1>1. pc' \in [Campaigns -> States]
  BY DEF LockInv
<1>2. pc'[c] = to /\ \A d \in Campaigns \ {c} : pc'[d] = pc[d]
  BY DEF LockInv
<1>3. \A d \in Campaigns : "lock" \in flags'[d] => pc'[d] \notin {"setup", "unlocked"}
  BY <1>2 DEF LockInv
<1>4. \A d \in Campaigns \ {c} : Holds(d)' => lock' = d
  BY <1>2 DEF LockInv, Holds
<1>5. Holds(c)' => lock' = c
  BY <1>2 DEF LockInv, Holds
<1> QED BY <1>1, <1>3, <1>4, <1>5 DEF LockInv

\* The lock changes hands only through its ConfigMap's absence.
LEMMA CreateLockKeeps ==
    ASSUME LockInv, NEW c \in Campaigns, CreateLock(c)
    PROVE  LockInv'
<1>1. PICK to \in {"lockCreated", "cleanup"} : pc' = [pc EXCEPT ![c] = to]
  BY DEF CreateLock, Step, Goto
<1>2. pc[c] = "unlocked" /\ lock = NoOwner /\ lock' = c /\ flags' = flags
  BY DEF CreateLock, Step, script
<1>3. to \in States
  BY DEF States, Working, InCleanup
<1>4. pc' \in [Campaigns -> States] /\ pc'[c] = to /\ \A d \in Campaigns \ {c} : pc'[d] = pc[d]
  BY <1>1, <1>3 DEF LockInv
<1>5. "lock" \notin flags[c]
  BY <1>2 DEF LockInv
<1>6. \A d \in Campaigns : ~Holds(d)
  BY <1>2, CampaignAssumption DEF LockInv
<1>7. \A d \in Campaigns \ {c} : ~Holds(d)'
  BY <1>2, <1>4, <1>6 DEF Holds
<1>8. \A d \in Campaigns : "lock" \in flags'[d] => pc'[d] \notin {"setup", "unlocked"}
  BY <1>2, <1>4, <1>5 DEF LockInv
<1> QED BY <1>2, <1>4, <1>7, <1>8 DEF LockInv

\* Only the campaign that holds the lock deletes its ConfigMap.
LEMMA UnlockKeeps ==
    ASSUME LockInv, NEW c \in Campaigns, Unlock(c)
    PROVE  LockInv'
<1>1. pc[c] = "unlock" /\ pc' = [pc EXCEPT ![c] = "report"] /\ flags' = flags
  BY DEF Unlock, Step, Goto
<1>2. lock' = lock \/ lock = c
  BY DEF Unlock
<1>3. pc' \in [Campaigns -> States] /\ pc'[c] = "report" /\ \A d \in Campaigns \ {c} : pc'[d] = pc[d]
  BY <1>1 DEF LockInv, States, InCleanup
<1>4. ~Holds(c)'
  BY <1>3 DEF Holds, Locked, Working, InCell, InCleanup
<1>5. \A d \in Campaigns \ {c} : Holds(d)' => Holds(d)
  BY <1>1, <1>3 DEF Holds
<1>6. \A d \in Campaigns \ {c} : Holds(d) => lock' = d
  BY <1>2 DEF LockInv
<1>7. \A d \in Campaigns : "lock" \in flags'[d] => pc'[d] \notin {"setup", "unlocked"}
  BY <1>1, <1>3 DEF LockInv
<1> QED BY <1>1, <1>3, <1>4, <1>5, <1>6, <1>7 DEF LockInv

\* A step that leaves the script where it is, the flags and the lock alone.
LEMMA StillKeepsLock ==
    ASSUME LockInv, UNCHANGED <<lock, pc, flags>>
    PROVE  LockInv'
  BY DEF LockInv, Holds

\* A command of the script under the lock.
LEMMA InsideKeepsLock ==
    ASSUME LockInv, NEW c \in Campaigns, NEW from \in Locked, NEW to \in Locked,
           Step(c, from, to), UNCHANGED <<lock, flags>>
    PROVE  LockInv'
<1>1. to \in States /\ to \notin {"setup", "unlocked"} /\ to \notin InCleanup
  BY DEF States, Locked, Working, InCell, InCleanup
<1>2. pc[c] \in Locked /\ pc' = [pc EXCEPT ![c] = to]
  BY DEF Step, Goto
<1> QED BY <1>1, <1>2, MoveKeepsLock DEF LockInv

\* A script that stops working, or goes on with its cleanup, keeps what it holds.
LEMMA ExitKeepsLock ==
    ASSUME LockInv, NEW c \in Campaigns,
           NEW to \in InCleanup \cup {"ended", "killed"},
           pc[c] \in Working \cup (InCleanup \ {"report"}) \/ to \in {"ended", "killed"},
           pc' = [pc EXCEPT ![c] = to], UNCHANGED lock,
           DOMAIN flags' = Campaigns, \A d \in Campaigns \ {c} : flags'[d] = flags[d],
           "lock" \in flags'[c] => "lock" \in flags[c]
    PROVE  LockInv'
<1>1. to \in States /\ to \notin Locked /\ to \notin {"setup", "unlocked"}
  BY DEF States, Locked, Working, InCell, InCleanup
<1>2. "lock" \in flags[c] => pc[c] \notin {"setup", "unlocked"}
  BY DEF LockInv
<1>3. to \in InCleanup \ {"report"} /\ "lock" \in flags'[c] =>
        "lock" \in flags[c] /\ pc[c] \in Locked \cup (InCleanup \ {"report"})
  BY <1>2 DEF Locked, InCleanup
<1> QED BY <1>1, <1>2, <1>3, MoveKeepsLock DEF LockInv

----------------------------------------------------------------------------

\* Every command of a script, and every gate that ends it, keeps the invariant.
LEMMA RunKeepsLock ==
    ASSUME LockInv, NEW c \in Campaigns, Run(c)
    PROVE  LockInv'
<1> USE DEF Locked, Working, InCell, InCleanup
<1>0. DOMAIN flags = Campaigns
  BY DEF LockInv
<1>1. CASE PlanOnly(c)
  <2>1. pc[c] \in Working /\ pc' = [pc EXCEPT ![c] = "cleanup"] /\ UNCHANGED lock
    BY <1>1 DEF PlanOnly, Step, Goto, cluster
  <2>2. flags' = [flags EXCEPT ![c] = @ \cup {"planned"}]
    BY <1>1 DEF PlanOnly, Flag
  <2> QED BY <1>0, <2>1, <2>2, ExitKeepsLock
<1>2. CASE GoLive(c)
  <2>1. pc[c] = "setup" /\ pc' = [pc EXCEPT ![c] = "unlocked"] /\ UNCHANGED lock
    BY <1>2 DEF GoLive, Step, Goto, cluster
  <2>2. flags' = [flags EXCEPT ![c] = @ \cup {"live"}]
    BY <1>2 DEF GoLive, Flag
  <2>3. "lock" \notin flags[c]
    BY <2>1 DEF LockInv
  <2>4. "unlocked" \in States
    BY DEF States
  <2> QED BY <1>0, <2>1, <2>2, <2>3, <2>4, MoveKeepsLock
<1>3. CASE CreateLock(c)
  BY <1>3, CreateLockKeeps
<1>4. CASE FlagLock(c)
  <2>1. pc[c] = "lockCreated" /\ pc' = [pc EXCEPT ![c] = "locked"] /\ UNCHANGED lock
    BY <1>4 DEF FlagLock, Step, Goto, cluster
  <2>2. flags' = [flags EXCEPT ![c] = @ \cup {"lock"}]
    BY <1>4 DEF FlagLock, Flag
  <2>3. "locked" \in States
    BY DEF States
  <2> QED BY <1>0, <2>1, <2>2, <2>3, MoveKeepsLock
<1>5. CASE CreateTarget(c)
  <2>1. UNCHANGED <<lock, flags>>
    BY <1>5 DEF CreateTarget, script
  <2>2. CASE Step(c, "locked", "targetCreated")
    BY <2>1, <2>2, InsideKeepsLock
  <2>3. CASE Step(c, "locked", "cleanup")
    BY <1>0, <2>1, <2>3, ExitKeepsLock DEF Step, Goto
  <2> QED BY <1>5, <2>2, <2>3 DEF CreateTarget
<1>6. CASE FlagTarget(c)
  <2>1. pc[c] = "targetCreated" /\ pc' = [pc EXCEPT ![c] = "scaling"] /\ UNCHANGED lock
    BY <1>6 DEF FlagTarget, Step, Goto, cluster
  <2>2. flags' = [flags EXCEPT ![c] = @ \cup {"target"}]
    BY <1>6 DEF FlagTarget, Flag
  <2>3. "scaling" \in States
    BY DEF States
  <2> QED BY <1>0, <2>1, <2>2, <2>3, MoveKeepsLock
<1>7. CASE ScaleBatch(c)
  BY <1>7, StillKeepsLock DEF ScaleBatch, script
<1>8. CASE FreezeInventory(c)
  BY <1>8, InsideKeepsLock DEF FreezeInventory, cluster, script
<1>9. CASE StartCell(c)
  BY <1>9, InsideKeepsLock DEF StartCell
<1>10. CASE \E e \in Endpoints : CreateJob(c, e)
  BY <1>10, InsideKeepsLock DEF CreateJob, script
<1>11. CASE \E e \in Endpoints : ReleaseJob(c, e)
  BY <1>11, StillKeepsLock DEF ReleaseJob, script
<1>12. CASE CaptureHealth(c)
  <2>1. UNCHANGED <<lock, flags>>
    BY <1>12 DEF CaptureHealth, cluster, script
  <2> QED BY <1>12, <2>1, InsideKeepsLock DEF CaptureHealth
<1>13. CASE AllSuspended(c)
  BY <1>13, InsideKeepsLock DEF AllSuspended, cluster, script
<1>14. CASE AllReleased(c)
  BY <1>14, InsideKeepsLock DEF AllReleased, cluster, script
<1>15. CASE BeforeArmedDeadline(c)
  BY <1>15, InsideKeepsLock DEF BeforeArmedDeadline, cluster, script
<1>16. CASE ValidateArmed(c)
  <2>1. UNCHANGED <<lock, flags>>
    BY <1>16 DEF ValidateArmed, cluster
  <2>2. Step(c, "armCheck", "armed") \/ Step(c, "armCheck", "arming")
    BY <1>16 DEF ValidateArmed
  <2> QED BY <2>1, <2>2, InsideKeepsLock
<1>17. CASE CheckDrivers(c)
  BY <1>17, InsideKeepsLock DEF CheckDrivers, cluster, script
<1>18. CASE AllComplete(c)
  BY <1>18, InsideKeepsLock DEF AllComplete, cluster, script
<1>19. CASE CollectReports(c)
  BY <1>19, InsideKeepsLock DEF CollectReports, cluster, script
<1>20. CASE DeleteCellJobs(c)
  <2>1. UNCHANGED <<lock, flags>>
    BY <1>20 DEF DeleteCellJobs, script
  <2>2. CASE Step(c, "deleting", "cellDone")
    BY <2>1, <2>2, InsideKeepsLock
  <2>3. CASE Step(c, "deleting", "cleanup")
    BY <1>0, <2>1, <2>3, ExitKeepsLock DEF Step, Goto
  <2> QED BY <1>20, <2>2, <2>3 DEF DeleteCellJobs
<1>21. CASE Reconcile(c)
  BY <1>21, InsideKeepsLock DEF Reconcile, cluster, script
<1>22. CASE Summarize(c)
  <2>1. pc[c] \in Working /\ pc' = [pc EXCEPT ![c] = "cleanup"] /\ UNCHANGED lock
    BY <1>22 DEF Summarize, Step, Goto, cluster
  <2>2. flags' = [flags EXCEPT ![c] = @ \cup {"complete"}]
    BY <1>22 DEF Summarize, Flag
  <2> QED BY <1>0, <2>1, <2>2, ExitKeepsLock
<1>23. CASE Die(c)
  <2>1. pc[c] \in Working
    BY <1>23 DEF Die, MustDie
  <2> QED BY <1>0, <1>23, <2>1, ExitKeepsLock DEF Die, Goto, cluster, script
<1> QED BY <1>1, <1>2, <1>3, <1>4, <1>5, <1>6, <1>7, <1>8, <1>9, <1>10, <1>11, <1>12, <1>13,
           <1>14, <1>15, <1>16, <1>17, <1>18, <1>19, <1>20, <1>21, <1>22, <1>23 DEF Run

\* Every step of the EXIT trap keeps the invariant.
LEMMA CleanupKeepsLock ==
    ASSUME LockInv, NEW c \in Campaigns, Cleanup(c)
    PROVE  LockInv'
<1> USE DEF InCleanup
<1>0. DOMAIN flags = Campaigns
  BY DEF LockInv
<1>1. CASE CleanJobs(c)
  BY <1>0, <1>1, ExitKeepsLock DEF CleanJobs, Step, Goto
<1>2. CASE CleanTarget(c)
  BY <1>0, <1>2, ExitKeepsLock DEF CleanTarget, Step, Goto
<1>3. CASE Verify(c)
  BY <1>0, <1>3, ExitKeepsLock DEF Verify, Step, Goto, cluster
<1>4. CASE Unlock(c)
  BY <1>4, UnlockKeeps
<1>5. CASE Report(c)
  BY <1>0, <1>5, ExitKeepsLock DEF Report, Step, Goto, cluster
<1> QED BY <1>1, <1>2, <1>3, <1>4, <1>5 DEF Cleanup

\* Every step of the campaigns keeps the lock exclusive.
LEMMA StepKeepsLock ==
    ASSUME LockInv, [Next]_vars
    PROVE  LockInv'
<1>0. DOMAIN flags = Campaigns
  BY DEF LockInv
<1>1. ASSUME NEW c \in Campaigns, Run(c) PROVE LockInv'
  BY <1>1, RunKeepsLock
<1>2. ASSUME NEW c \in Campaigns, Cleanup(c) PROVE LockInv'
  BY <1>2, CleanupKeepsLock
<1>3. ASSUME NEW c \in Campaigns, Interrupt(c) PROVE LockInv'
  BY <1>0, <1>3, ExitKeepsLock DEF Interrupt, Goto, cluster, script, InCleanup
<1>4. ASSUME NEW c \in Campaigns, Kill(c) PROVE LockInv'
  BY <1>0, <1>4, ExitKeepsLock DEF Kill, Goto, cluster, script
<1>5. ASSUME NEW c \in Campaigns, World(c) PROVE LockInv'
  <2>1. UNCHANGED <<lock, pc, flags>>
    BY <1>5 DEF World, Tick, Drift, Driver, script
  <2> QED BY <2>1, StillKeepsLock
<1>6. CASE UNCHANGED vars
  BY <1>6, StillKeepsLock DEF vars, cluster, script
<1> QED BY <1>1, <1>2, <1>3, <1>4, <1>5, <1>6 DEF Next

\* The exclusion invariant of every behaviour of the campaigns.
THEOREM LockInvariant == Spec => []LockInv
<1>1. LockInv /\ [Next]_vars => LockInv'
  BY StepKeepsLock
<1> QED BY LockInit, <1>1, PTL DEF Spec

\* From the creation of its lock to its release a campaign owns the lock: no
\* other campaign's start, failure or cleanup takes it away.
THEOREM LockExcludes == Spec => []HoldersOwnTheLock
<1>1. LockInv => HoldersOwnTheLock
  BY DEF LockInv, HoldersOwnTheLock, Holds, Locked
<1> QED BY <1>1, LockInvariant, PTL

----------------------------------------------------------------------------

\* A campaign loads the cluster through its Jobs or its target Pods.
Loaded(d) == jobs[d] # NoJobs \/ target[d] > 0

\* Why it may: their script is still under the lock, or was killed with
\* the lock in its hands, or knows that its cleanup failed.
Explained(d) ==
    \/ "lock" \in flags[d] /\ pc[d] \in Locked \cup {"cleanup", "cleanTarget", "verify"}
    \/ "lock" \in flags[d] /\ pc[d] = "unlock" /\ error[d] = TRUE
    \/ pc[d] = "killed" /\ lock = d
    \/ error[d] = TRUE /\ pc[d] \in {"report", "ended", "killed"}

Orderly(d) ==
    /\ pc[d] \in Working \ {"setup"} => "live" \in flags[d]
    /\ pc[d] \in Locked \ {"lockCreated"} => "lock" \in flags[d]
    /\ Loaded(d) => "live" \in flags[d] /\ Explained(d)

LoadType ==
    /\ jobs \in [Campaigns -> [Endpoints -> JobStates]]
    /\ target \in [Campaigns -> Int]
    /\ error \in [Campaigns -> BOOLEAN]

LoadInv == LockInv /\ LoadType /\ \A d \in Campaigns : Orderly(d)

\* Nothing exists when the scripts start.
LEMMA LoadInit == Init => LoadInv
<1> SUFFICES ASSUME Init PROVE LoadInv
  OBVIOUS
<1>1. LoadType
  BY DEF Init, LoadType, NoJobs, JobStates, Gone
<1>2. \A d \in Campaigns : Orderly(d)
  BY DEF Init, Orderly, Loaded, Gone, Locked
<1> QED BY <1>1, <1>2, LockInit DEF LoadInv

\* What campaign c may change of campaign d: nothing but a lock that d has not got.
Apart(c, d) ==
    /\ pc'[d] = pc[d] /\ flags'[d] = flags[d] /\ jobs'[d] = jobs[d] /\ error'[d] = error[d]
    /\ target'[d] = target[d]
    /\ lock = d => lock' = d

\* Such a change keeps d orderly.
LEMMA ApartStaysOrderly ==
    ASSUME NEW c, NEW d, Orderly(d), Apart(c, d)
    PROVE  Orderly(d)'
  BY DEF Orderly, Loaded, Explained, Apart

\* No step of c changes more than that.
LEMMA StepsApart ==
    ASSUME LoadInv, NEW c \in Campaigns, NEW d \in Campaigns \ {c},
           Run(c) \/ Cleanup(c) \/ Interrupt(c) \/ Kill(c) \/ World(c)
    PROVE  Apart(c, d)
<1> USE DEF Step, Goto, Flag, SetJob, cluster, script
<1>0. /\ DOMAIN flags = Campaigns /\ DOMAIN pc = Campaigns
      /\ DOMAIN jobs = Campaigns /\ DOMAIN error = Campaigns /\ DOMAIN target = Campaigns
      /\ d # NoOwner
  BY CampaignAssumption DEF LoadInv, LockInv, LoadType
<1>1. CASE Run(c)
  <2>1. lock = d => lock' = d
    <3>1. lock' = lock \/ CreateLock(c)
      BY <1>1 DEF Run, PlanOnly, GoLive, FlagLock, CreateTarget, FlagTarget, ScaleBatch,
         FreezeInventory, StartCell, CreateJob, ReleaseJob, CaptureHealth, AllSuspended, AllReleased,
         BeforeArmedDeadline, ValidateArmed, CheckDrivers, AllComplete, CollectReports,
         DeleteCellJobs, Reconcile, Summarize, Die
    <3> QED BY <1>0, <3>1 DEF CreateLock
  <2>2. flags'[d] = flags[d] /\ error'[d] = error[d]
    BY <1>0, <1>1 DEF Run, PlanOnly, GoLive, CreateLock, FlagLock, CreateTarget, FlagTarget, ScaleBatch,
       FreezeInventory, StartCell, CreateJob, ReleaseJob, CaptureHealth, AllSuspended, AllReleased,
       BeforeArmedDeadline, ValidateArmed, CheckDrivers, AllComplete, CollectReports,
       DeleteCellJobs, Reconcile, Summarize, Die
  <2>3. pc'[d] = pc[d]
    BY <1>0, <1>1 DEF Run, PlanOnly, GoLive, CreateLock, FlagLock, CreateTarget, FlagTarget, ScaleBatch,
       FreezeInventory, StartCell, CreateJob, ReleaseJob, CaptureHealth, AllSuspended, AllReleased,
       BeforeArmedDeadline, ValidateArmed, CheckDrivers, AllComplete, CollectReports,
       DeleteCellJobs, Reconcile, Summarize, Die
  <2>4. jobs'[d] = jobs[d]
    <3>1. CASE \E e \in Endpoints : CreateJob(c, e) \/ ReleaseJob(c, e)
      BY <1>0, <3>1 DEF CreateJob, ReleaseJob
    <3>2. CASE DeleteCellJobs(c)
      BY <1>0, <3>2 DEF DeleteCellJobs
    <3>3. CASE jobs' = jobs
      BY <3>3
    <3> QED BY <1>1, <3>1, <3>2, <3>3 DEF Run, PlanOnly, GoLive, CreateLock, FlagLock, CreateTarget,
       FlagTarget, ScaleBatch, FreezeInventory, StartCell, CaptureHealth, AllSuspended, AllReleased,
       BeforeArmedDeadline, ValidateArmed, CheckDrivers, AllComplete, CollectReports,
       Reconcile, Summarize, Die
  <2>5. target'[d] = target[d]
    BY <1>0, <1>1 DEF Run, PlanOnly, GoLive, CreateLock, FlagLock, CreateTarget, FlagTarget, ScaleBatch,
       FreezeInventory, StartCell, CreateJob, ReleaseJob, CaptureHealth, AllSuspended, AllReleased,
       BeforeArmedDeadline, ValidateArmed, CheckDrivers, AllComplete, CollectReports,
       DeleteCellJobs, Reconcile, Summarize, Die
  <2> QED BY <2>1, <2>2, <2>3, <2>4, <2>5 DEF Apart
<1>2. CASE Cleanup(c)
  <2>1. CASE CleanJobs(c)
    BY <1>0, <2>1 DEF CleanJobs, Apart
  <2>2. CASE CleanTarget(c)
    BY <1>0, <2>2 DEF CleanTarget, Apart
  <2>3. CASE Verify(c)
    BY <1>0, <2>3 DEF Verify, Apart
  <2>4. CASE Unlock(c)
    BY <1>0, <2>4 DEF Unlock, Apart
  <2>5. CASE Report(c)
    BY <1>0, <2>5 DEF Report, Apart
  <2> QED BY <1>2, <2>1, <2>2, <2>3, <2>4, <2>5 DEF Cleanup
<1>3. CASE Interrupt(c)
  BY <1>0, <1>3 DEF Interrupt, Apart
<1>4. CASE Kill(c)
  BY <1>0, <1>4 DEF Kill, Apart
<1>5. CASE World(c)
  BY <1>0, <1>5 DEF World, Tick, Drift, Driver, JobMove, Apart
<1> QED BY <1>1, <1>2, <1>3, <1>4, <1>5

----------------------------------------------------------------------------

\* The Jobs, the Deployments and the error flag keep their types.
LEMMA LoadTypeStep ==
    ASSUME LoadInv, NEW c \in Campaigns,
           Run(c) \/ Cleanup(c) \/ Interrupt(c) \/ Kill(c) \/ World(c)
    PROVE  LoadType'
<1> USE DEF cluster, script
<1>0. LoadType /\ NoJobs \in [Endpoints -> JobStates]
  BY DEF LoadInv, NoJobs, JobStates
<1>1. \A left \in SomeJobsLeft(c) : left \in [Endpoints -> JobStates]
  BY <1>0 DEF SomeJobsLeft, LoadType, JobStates
<1>2. ASSUME NEW e \in Endpoints, NEW to \in JobStates, SetJob(c, e, to), UNCHANGED <<target, error>>
      PROVE  LoadType'
  BY <1>0, <1>2 DEF SetJob, LoadType
<1>3. CASE UNCHANGED <<jobs, target, error>>
  BY <1>0, <1>3 DEF LoadType
<1>4. CASE \E e \in Endpoints : CreateJob(c, e) \/ ReleaseJob(c, e)
  <2>1. PICK e \in Endpoints : CreateJob(c, e) \/ ReleaseJob(c, e)
    BY <1>4
  <2>2. UNCHANGED <<target, error>> /\ (SetJob(c, e, "suspended") \/ SetJob(c, e, "started"))
    BY <2>1 DEF CreateJob, ReleaseJob
  <2> QED BY <1>2, <2>2 DEF JobStates
<1>5. CASE DeleteCellJobs(c)
  BY <1>0, <1>1, <1>5 DEF DeleteCellJobs, LoadType
<1>6. CASE Cleanup(c)
  <2>1. CASE CleanJobs(c)
    BY <1>0, <1>1, <2>1 DEF CleanJobs, LoadType
  <2>2. CASE CleanTarget(c)
    <3>1. jobs' = jobs /\ error' \in [Campaigns -> BOOLEAN]
      BY <1>0, <2>2 DEF CleanTarget, LoadType
    <3>2. target' \in [Campaigns -> Int]
      BY <1>0, <2>2 DEF CleanTarget, LoadType, Gone
    <3> QED BY <1>0, <3>1, <3>2 DEF LoadType
  <2>3. CASE Verify(c) \/ Unlock(c) \/ Report(c)
    <3>1. UNCHANGED <<jobs, target>>
      BY <2>3 DEF Verify, Unlock, Report
    <3>2. error' \in [Campaigns -> BOOLEAN]
      BY <1>0, <2>3 DEF Verify, Unlock, Report, LoadType
    <3> QED BY <1>0, <3>1, <3>2 DEF LoadType
  <2> QED BY <1>6, <2>1, <2>2, <2>3 DEF Cleanup
<1>7. CASE World(c)
  <2>1. CASE \E e \in Endpoints : Driver(c, e)
    <3>1. PICK e \in Endpoints : Driver(c, e)
      BY <2>1
    <3>2. UNCHANGED <<target, error>> /\ \E to \in JobStates : SetJob(c, e, to)
      BY <3>1 DEF Driver, JobMove, JobStates
    <3> QED BY <1>2, <3>2
  <2>2. CASE Tick(c) \/ Drift(c)
    BY <1>3, <2>2 DEF Tick, Drift
  <2> QED BY <1>7, <2>1, <2>2 DEF World
<1>8. CASE Interrupt(c) \/ Kill(c)
  BY <1>3, <1>8 DEF Interrupt, Kill
<1>9. Run(c) => \/ UNCHANGED <<jobs, target, error>> \/ DeleteCellJobs(c)
               \/ CreateTarget(c) \/ ScaleBatch(c)
               \/ \E e \in Endpoints : CreateJob(c, e) \/ ReleaseJob(c, e)
  BY DEF Run, PlanOnly, GoLive, CreateLock, FlagLock, FlagTarget,
     FreezeInventory, StartCell, CaptureHealth, AllSuspended, AllReleased,
     BeforeArmedDeadline, ValidateArmed, CheckDrivers, AllComplete, CollectReports,
     Reconcile, Summarize, Die
<1>10. CASE CreateTarget(c) \/ ScaleBatch(c)
  BY <1>0, <1>10 DEF CreateTarget, ScaleBatch, LoadType
<1> QED BY <1>3, <1>4, <1>5, <1>6, <1>7, <1>8, <1>9, <1>10

\* A script under the lock, with its flags set, may load the cluster.
LEMMA UnderLockOrderly ==
    ASSUME NEW c, pc'[c] \in Locked, "live" \in flags'[c], "lock" \in flags'[c]
    PROVE  Orderly(c)'
  BY DEF Orderly, Explained

\* A script that leaves for its cleanup had set both flags if it loaded anything.
LEMMA ExitOrderly ==
    ASSUME NEW c, Orderly(c), pc[c] \in Working, pc'[c] = "cleanup", flags[c] \subseteq flags'[c],
           Loaded(c)' => Loaded(c) \/ pc[c] = "deleting"
    PROVE  Orderly(c)'
<1>1. "cleanup" \notin Working
  BY DEF Working, InCell
<1>2. pc[c] = "deleting" => "live" \in flags[c] /\ "lock" \in flags[c]
  BY DEF Orderly, Locked, Working, InCell
<1>3. Loaded(c) => "live" \in flags[c] /\ "lock" \in flags[c]
  BY DEF Orderly, Explained, Working, InCell
<1> QED BY <1>1, <1>2, <1>3 DEF Orderly, Explained, Locked

\* A killed script leaves the lock behind unless it had already given it back.
LEMMA KillOrderly ==
    ASSUME LoadInv, NEW c \in Campaigns, Kill(c)
    PROVE  Orderly(c)'
<1>1. pc'[c] = "killed" /\ UNCHANGED <<flags, jobs, target, error, lock>>
  BY DEF Kill, Goto, cluster, script, LoadInv, LockInv
<1>2. CASE ~Loaded(c)
  BY <1>1, <1>2 DEF Orderly, Loaded, Locked, Working, InCell
<1>3. CASE Loaded(c)
  <2>1. "live" \in flags[c] /\ Explained(c)
    BY <1>3 DEF LoadInv, Orderly
  <2>2. Holds(c) => lock = c
    BY DEF LoadInv, LockInv
  <2>3. "lock" \in flags[c] /\ pc[c] \in Locked \cup {"cleanup", "cleanTarget", "verify", "unlock"} => lock = c
    BY <2>2 DEF Holds, InCleanup
  <2>4. Explained(c)'
    BY <1>1, <2>1, <2>3 DEF Explained
  <2> QED BY <1>1, <2>1, <2>4 DEF Orderly, Locked, Working, InCell
<1> QED BY <1>2, <1>3

\* A script under the lock whose step keeps it there, its flags kept.
LEMMA InsideOrderly ==
    ASSUME LoadInv, NEW c \in Campaigns, pc[c] \in Locked \ {"lockCreated"},
           pc'[c] \in Locked, flags[c] \subseteq flags'[c]
    PROVE  Orderly(c)'
<1>1. "live" \in flags[c] /\ "lock" \in flags[c]
  BY DEF LoadInv, Orderly, Locked
<1> QED BY <1>1, UnderLockOrderly

\* Every command of a script keeps it orderly.
LEMMA RunOrderly ==
    ASSUME LoadInv, NEW c \in Campaigns, Run(c)
    PROVE  Orderly(c)'
<1> USE DEF Step, Goto, Flag, cluster, script
<1>0. /\ DOMAIN flags = Campaigns /\ DOMAIN pc = Campaigns /\ Orderly(c)
  BY DEF LoadInv, LockInv
<1>1. CASE PlanOnly(c)
  <2>1. pc[c] \in Working /\ pc'[c] = "cleanup" /\ flags[c] \subseteq flags'[c] /\ Loaded(c)' = Loaded(c)
    BY <1>0, <1>1 DEF PlanOnly, Working, Loaded
  <2> QED BY <1>0, <2>1, ExitOrderly
<1>2. CASE GoLive(c)
  <2>1. pc[c] = "setup" /\ pc'[c] = "unlocked" /\ "live" \in flags'[c] /\ Loaded(c)' = Loaded(c)
    BY <1>0, <1>2 DEF GoLive, Loaded
  <2>2. "lock" \notin flags[c]
    BY <2>1 DEF LoadInv, LockInv
  <2>3. ~Loaded(c)
    BY <1>0, <2>1, <2>2 DEF Orderly, Explained
  <2> QED BY <2>1, <2>3 DEF Orderly, Locked
<1>3. CASE CreateLock(c)
  <2>1. pc[c] = "unlocked" /\ flags' = flags /\ Loaded(c)' = Loaded(c)
    BY <1>3 DEF CreateLock, Loaded
  <2>2. pc'[c] = "lockCreated" \/ pc'[c] = "cleanup"
    BY <1>0, <1>3 DEF CreateLock
  <2>3. "lock" \notin flags[c] /\ "live" \in flags[c]
    BY <1>0, <2>1 DEF LoadInv, LockInv, Orderly, Working
  <2>4. ~Loaded(c)
    BY <1>0, <2>1, <2>3 DEF Orderly, Explained
  <2> QED BY <2>1, <2>2, <2>3, <2>4 DEF Orderly, Locked, Working, InCell
<1>4. CASE FlagLock(c)
  <2>1. pc[c] = "lockCreated" /\ pc'[c] = "locked" /\ flags'[c] = flags[c] \cup {"lock"}
    BY <1>0, <1>4 DEF FlagLock
  <2>2. "live" \in flags[c]
    BY <1>0, <2>1 DEF Orderly, Working
  <2> QED BY <2>1, <2>2, UnderLockOrderly DEF Locked, Working
<1>5. CASE CreateTarget(c)
  <2>1. pc[c] = "locked" /\ flags' = flags /\ (Loaded(c)' => Loaded(c))
    BY <1>0, <1>5 DEF CreateTarget, Loaded
  <2>2. CASE pc'[c] = "targetCreated"
    BY <2>1, <2>2, InsideOrderly DEF Locked, Working
  <2>3. CASE pc'[c] = "cleanup"
    BY <1>0, <2>1, <2>3, ExitOrderly DEF Working
  <2> QED BY <1>0, <1>5, <2>2, <2>3 DEF CreateTarget
<1>6. CASE FlagTarget(c)
  <2>1. pc[c] = "targetCreated" /\ pc'[c] = "scaling" /\ flags[c] \subseteq flags'[c]
    BY <1>0, <1>6 DEF FlagTarget
  <2> QED BY <2>1, InsideOrderly DEF Locked, Working
<1>7. CASE ScaleBatch(c)
  BY <1>7, InsideOrderly DEF ScaleBatch, Locked, Working
<1>8. CASE \E e \in Endpoints : CreateJob(c, e) \/ ReleaseJob(c, e)
  <2>1. pc[c] \in {"creating", "releasing"} /\ pc'[c] \in {"jobCreated", "releasing"} /\ flags' = flags
    BY <1>0, <1>8 DEF CreateJob, ReleaseJob
  <2> QED BY <2>1, InsideOrderly DEF Locked, Working, InCell
<1>9. CASE DeleteCellJobs(c)
  <2>1. pc[c] = "deleting" /\ flags' = flags
    BY <1>9 DEF DeleteCellJobs
  <2>2. CASE pc'[c] = "cellDone"
    BY <2>1, <2>2, InsideOrderly DEF Locked, Working, InCell
  <2>3. CASE pc'[c] = "cleanup"
    BY <1>0, <2>1, <2>3, ExitOrderly DEF Working, InCell
  <2> QED BY <1>0, <1>9, <2>2, <2>3 DEF DeleteCellJobs
<1>10. CASE Summarize(c)
  <2>1. pc[c] \in Working /\ pc'[c] = "cleanup" /\ flags[c] \subseteq flags'[c] /\ Loaded(c)' = Loaded(c)
    BY <1>0, <1>10 DEF Summarize, Working, Loaded
  <2> QED BY <1>0, <2>1, ExitOrderly
<1>11. CASE Die(c)
  <2>1. pc[c] \in Working /\ pc'[c] = "cleanup" /\ flags' = flags /\ Loaded(c)' = Loaded(c)
    BY <1>0, <1>11 DEF Die, MustDie, Working, InCell, Loaded
  <2> QED BY <1>0, <2>1, ExitOrderly
<1>12. CASE FreezeInventory(c)
  <2>1. pc[c] \in Locked \ {"lockCreated"} /\ pc'[c] \in Locked /\ flags'[c] = flags[c]
    BY <1>0, <1>12 DEF FreezeInventory, Locked, Working, InCell
  <2> QED BY <2>1, InsideOrderly
<1>13. CASE StartCell(c)
  <2>1. pc[c] \in Locked \ {"lockCreated"} /\ pc'[c] \in Locked /\ flags'[c] = flags[c]
    BY <1>0, <1>13 DEF StartCell, Locked, Working, InCell
  <2> QED BY <2>1, InsideOrderly
<1>14. CASE CaptureHealth(c)
  <2>1. pc[c] \in Locked \ {"lockCreated"} /\ pc'[c] \in Locked /\ flags'[c] = flags[c]
    BY <1>0, <1>14 DEF CaptureHealth, Locked, Working, InCell
  <2> QED BY <2>1, InsideOrderly
<1>15. CASE AllSuspended(c)
  <2>1. pc[c] \in Locked \ {"lockCreated"} /\ pc'[c] \in Locked /\ flags'[c] = flags[c]
    BY <1>0, <1>15 DEF AllSuspended, Locked, Working, InCell
  <2> QED BY <2>1, InsideOrderly
<1>16. CASE AllReleased(c)
  <2>1. pc[c] \in Locked \ {"lockCreated"} /\ pc'[c] \in Locked /\ flags'[c] = flags[c]
    BY <1>0, <1>16 DEF AllReleased, Locked, Working, InCell
  <2> QED BY <2>1, InsideOrderly
<1>17. CASE BeforeArmedDeadline(c)
  <2>1. pc[c] \in Locked \ {"lockCreated"} /\ pc'[c] \in Locked /\ flags'[c] = flags[c]
    BY <1>0, <1>17 DEF BeforeArmedDeadline, Locked, Working, InCell
  <2> QED BY <2>1, InsideOrderly
<1>18. CASE ValidateArmed(c)
  <2>1. pc[c] \in Locked \ {"lockCreated"} /\ pc'[c] \in Locked /\ flags'[c] = flags[c]
    BY <1>0, <1>18 DEF ValidateArmed, Locked, Working, InCell
  <2> QED BY <2>1, InsideOrderly
<1>19. CASE CheckDrivers(c)
  <2>1. pc[c] \in Locked \ {"lockCreated"} /\ pc'[c] \in Locked /\ flags'[c] = flags[c]
    BY <1>0, <1>19 DEF CheckDrivers, Locked, Working, InCell
  <2> QED BY <2>1, InsideOrderly
<1>20. CASE AllComplete(c)
  <2>1. pc[c] \in Locked \ {"lockCreated"} /\ pc'[c] \in Locked /\ flags'[c] = flags[c]
    BY <1>0, <1>20 DEF AllComplete, Locked, Working, InCell
  <2> QED BY <2>1, InsideOrderly
<1>21. CASE CollectReports(c)
  <2>1. pc[c] \in Locked \ {"lockCreated"} /\ pc'[c] \in Locked /\ flags'[c] = flags[c]
    BY <1>0, <1>21 DEF CollectReports, Locked, Working, InCell
  <2> QED BY <2>1, InsideOrderly
<1>22. CASE Reconcile(c)
  <2>1. pc[c] \in Locked \ {"lockCreated"} /\ pc'[c] \in Locked /\ flags'[c] = flags[c]
    BY <1>0, <1>22 DEF Reconcile, Locked, Working, InCell
  <2> QED BY <2>1, InsideOrderly
<1> QED BY <1>1, <1>2, <1>3, <1>4, <1>5, <1>6, <1>7, <1>8, <1>9, <1>10, <1>11, <1>12, <1>13, <1>14, <1>15, <1>16, <1>17, <1>18, <1>19, <1>20, <1>21, <1>22 DEF Run

\* Every step of the EXIT trap keeps the campaign orderly: the lock goes only
\* after the check that nothing remains.
LEMMA CleanupOrderly ==
    ASSUME LoadInv, NEW c \in Campaigns, Cleanup(c)
    PROVE  Orderly(c)'
<1> USE DEF Step, Goto, script, cluster
<1>0. /\ DOMAIN flags = Campaigns /\ DOMAIN pc = Campaigns /\ DOMAIN jobs = Campaigns
      /\ target \in [Campaigns -> Int] /\ error \in [Campaigns -> BOOLEAN] /\ Orderly(c)
  BY DEF LoadInv, LockInv, LoadType
<1>1. {"cleanup", "cleanTarget", "verify", "unlock", "report", "ended"} \cap Working = {}
  BY DEF Working, InCell
<1>2. CASE CleanJobs(c)
  <2>1. pc[c] = "cleanup" /\ pc'[c] = "cleanTarget" /\ flags' = flags
    BY <1>0, <1>2 DEF CleanJobs
  <2>2. Loaded(c)' => Loaded(c)
    BY <1>0, <1>2 DEF CleanJobs, SomeJobsLeft, NoJobs, Loaded
  <2> QED BY <1>0, <1>1, <2>1, <2>2 DEF Orderly, Explained, Locked
<1>3. CASE CleanTarget(c)
  <2>1. pc[c] = "cleanTarget" /\ pc'[c] = "verify" /\ flags' = flags /\ (Loaded(c)' => Loaded(c))
    BY <1>0, <1>3 DEF CleanTarget, Loaded, Gone
  <2> QED BY <1>0, <1>1, <2>1 DEF Orderly, Explained, Locked
<1>4. CASE Verify(c)
  <2>1. pc[c] = "verify" /\ pc'[c] = "unlock" /\ flags' = flags /\ Loaded(c)' = Loaded(c)
    BY <1>0, <1>4 DEF Verify, Loaded
  <2>2. Loaded(c) => error'[c] = TRUE
    BY <1>0, <1>4 DEF Verify, Orderly, Loaded, Gone
  <2> QED BY <1>0, <1>1, <2>1, <2>2 DEF Orderly, Explained, Locked
<1>5. CASE Unlock(c)
  <2>1. pc[c] = "unlock" /\ pc'[c] = "report" /\ flags' = flags /\ Loaded(c)' = Loaded(c)
    BY <1>0, <1>5 DEF Unlock, Loaded
  <2>2. error[c] = TRUE => error'[c] = TRUE
    BY <1>0, <1>5 DEF Unlock
  <2> QED BY <1>0, <1>1, <2>1, <2>2 DEF Orderly, Explained, Locked
<1>6. CASE Report(c)
  <2>1. pc[c] = "report" /\ pc'[c] = "ended" /\ flags' = flags /\ Loaded(c)' = Loaded(c) /\ error' = error
    BY <1>0, <1>6 DEF Report, Loaded
  <2> QED BY <1>0, <1>1, <2>1 DEF Orderly, Explained, Locked
<1> QED BY <1>2, <1>3, <1>4, <1>5, <1>6 DEF Cleanup

\* The drivers of a campaign create no Job.
LEMMA WorldOrderly ==
    ASSUME LoadInv, NEW c \in Campaigns, World(c)
    PROVE  Orderly(c)'
<1>1. UNCHANGED <<lock, pc, flags, error>> /\ Orderly(c)
  BY DEF World, Tick, Drift, Driver, script, LoadInv
<1>2. Loaded(c)' => Loaded(c)
  <2>0. target' = target
    BY DEF World, Tick, Drift, Driver
  <2>1. CASE jobs' = jobs
    BY <2>0, <2>1 DEF Loaded
  <2>2. CASE \E e \in Endpoints : Driver(c, e)
    <3>1. PICK e \in Endpoints : Driver(c, e)
      BY <2>2
    <3>2. jobs[c][e] # "absent"
      BY <3>1 DEF Driver, JobMove
    <3> QED BY <2>0, <3>2 DEF NoJobs, Loaded
  <2> QED BY <2>1, <2>2 DEF World, Tick, Drift
<1> QED BY <1>1, <1>2 DEF Orderly, Explained

\* Every step of the campaigns keeps them orderly.
LEMMA StepKeepsLoad ==
    ASSUME LoadInv, LockInv', [Next]_vars
    PROVE  LoadInv'
<1>1. CASE Next
  <2>1. PICK c \in Campaigns : Run(c) \/ Cleanup(c) \/ Interrupt(c) \/ Kill(c) \/ World(c)
    BY <1>1 DEF Next
  <2>2. LoadType'
    BY <2>1, LoadTypeStep
  <2>3. \A d \in Campaigns \ {c} : Orderly(d)'
    BY <2>1, StepsApart, ApartStaysOrderly DEF LoadInv
  <2>4. CASE Interrupt(c)
    <3>1. pc[c] \in Working /\ pc'[c] = "cleanup" /\ flags' = flags /\ Loaded(c)' = Loaded(c)
      BY <2>4 DEF Interrupt, Goto, cluster, script, LoadInv, LockInv, Loaded
    <3> QED BY <2>2, <2>3, <3>1, ExitOrderly DEF LoadInv
  <2>5. Run(c) \/ Cleanup(c) \/ Kill(c) \/ World(c) => Orderly(c)'
    BY RunOrderly, CleanupOrderly, KillOrderly, WorldOrderly
  <2> QED BY <2>1, <2>2, <2>3, <2>4, <2>5 DEF LoadInv
<1>2. CASE UNCHANGED vars
  BY <1>2 DEF vars, cluster, script, LoadInv, LoadType, Orderly, Loaded, Explained
<1> QED BY <1>1, <1>2

\* The invariant of every behaviour of the campaigns.
THEOREM LoadInvariant == Spec => []LoadInv
<1>1. LoadInv /\ LockInv' /\ [Next]_vars => LoadInv'
  BY StepKeepsLoad
<1> QED BY LoadInit, <1>1, LockInvariant, PTL DEF Spec

\* While a campaign is under the lock, any other campaign's Jobs are leftovers of
\* a cleanup that knows that it failed.
THEOREM OnlyLeftoversBeside == Spec => []OthersAreLeftovers
<1>1. LoadInv => OthersAreLeftovers
  <2> SUFFICES ASSUME LoadInv, NEW c \in Campaigns, NEW d \in Campaigns, c # d,
                      pc[c] \in Locked, jobs[d] # NoJobs
               PROVE  error[d] /\ pc[d] \in {"report", "ended", "killed"}
    BY DEF OthersAreLeftovers, Locked
  <2>1. lock = c
    BY DEF LoadInv, LockInv, Holds
  <2>2. ~Holds(d) /\ lock # d
    BY <2>1 DEF LoadInv, LockInv
  <2>3. Explained(d)
    BY DEF LoadInv, Orderly, Loaded
  <2> QED BY <2>2, <2>3 DEF Explained, Holds, InCleanup
<1> QED BY <1>1, LoadInvariant, PTL

----------------------------------------------------------------------------

\* What a campaign has in the cluster, at no replica or suspended also counts.
Left(c) == jobs[c] # NoJobs \/ target[c] # Gone

\* Whatever is left once the check of the cleanup is over is an error, and reported.
Reported(c) ==
    /\ Left(c) => "live" \in flags[c]
    /\ Left(c) /\ pc[c] \in {"unlock", "report", "ended"} => error[c] = TRUE
    /\ pc[c] = "ended" /\ error[c] = TRUE => status[c] = "cleanup_failed"

\* The target Pods were the frozen ones when the last cell was reconciled.
Steady(c) ==
    /\ "complete" \in flags[c] => pc[c] \notin Working /\ cell[c] = Cells /\ drift[c] >= Cells
    /\ pc[c] = "settling" => cell[c] = Cells /\ drift[c] >= Cells
    /\ status[c] = "completed" => "complete" \in flags[c]

\* Every Job of the cell exists when the script waits for the barrier, and all
\* were ARMED in time once it is past it.
Barrier(c) ==
    /\ pc[c] \in {"releasing", "arming", "armCheck"} =>
           \A e \in ActiveNow(c) : jobs[c][e] # "absent"
    /\ pc[c] \in {"armed", "measuring", "collect"} =>
           /\ verified[c] = "lead"
           /\ \A e \in ActiveNow(c) : jobs[c][e] \in {"armed", "loading", "complete", "crashed"}

RecordType ==
    /\ cell \in [Campaigns -> Nat] /\ drift \in [Campaigns -> Int]
    /\ DOMAIN verified = Campaigns /\ DOMAIN status = Campaigns

RecordInv == RecordType /\ \A c \in Campaigns : Reported(c) /\ Steady(c) /\ Barrier(c)

\* The plan has a number of cells, each with endpoints of the campaign.
LEMMA PlanOfCells ==
    /\ Cells \in Nat
    /\ \A c \in Campaigns : cell[c] \in Nat => ActiveNow(c) \subseteq Endpoints
<1>1. Active \in Seq(SUBSET Endpoints)
  BY CampaignAssumption
<1>2. Cells \in Nat /\ \A i \in 1 .. Cells : Active[i] \subseteq Endpoints
  BY <1>1 DEF Cells
<1>3. \A n \in Nat : n < Cells => n + 1 \in 1 .. Cells
  BY <1>2
<1> QED BY <1>2, <1>3 DEF ActiveNow

\* No campaign has anything when the scripts start.
LEMMA RecordInit == Init => RecordInv
<1> SUFFICES ASSUME Init PROVE RecordInv
  OBVIOUS
<1>1. RecordType
  BY PlanOfCells DEF Init, RecordType, Undisturbed
<1>2. \A c \in Campaigns : Reported(c) /\ Steady(c) /\ Barrier(c)
  BY DEF Init, Reported, Left, Steady, Barrier
<1> QED BY <1>1, <1>2 DEF RecordInv

\* What a step of another campaign leaves of a campaign's records.
RecordApart(d) ==
    cell'[d] = cell[d] /\ drift'[d] = drift[d] /\ verified'[d] = verified[d] /\ status'[d] = status[d]

\* Such a step keeps what is said of d.
LEMMA ApartKeepsRecords ==
    ASSUME NEW c, NEW d, Reported(d), Steady(d), Barrier(d), Apart(c, d), RecordApart(d)
    PROVE  Reported(d)' /\ Steady(d)' /\ Barrier(d)'
<1>1. ActiveNow(d)' = ActiveNow(d)
  BY DEF ActiveNow, RecordApart
<1>2. Reported(d)' /\ Steady(d)'
  BY DEF Reported, Left, Steady, Apart, RecordApart
<1>3. Barrier(d)'
  BY <1>1 DEF Barrier, Apart, RecordApart
<1> QED BY <1>2, <1>3

\* The records change type in no step, and only those of the campaign that steps.
LEMMA RecordStep ==
    ASSUME RecordType, NEW c \in Campaigns,
           Run(c) \/ Cleanup(c) \/ Interrupt(c) \/ Kill(c) \/ World(c)
    PROVE  RecordType' /\ \A d \in Campaigns \ {c} : RecordApart(d)
<1> USE DEF cluster, script
<1>1. cell' = cell \/ cell' = [cell EXCEPT ![c] = @ + 1]
  BY DEF Run, PlanOnly, GoLive, CreateLock, FlagLock, CreateTarget, FlagTarget, ScaleBatch,
     FreezeInventory, StartCell, CreateJob, ReleaseJob, CaptureHealth, AllSuspended, AllReleased,
     BeforeArmedDeadline, ValidateArmed, CheckDrivers, AllComplete, CollectReports,
     DeleteCellJobs, Reconcile, Summarize, Die, Cleanup, CleanJobs, CleanTarget, Verify, Unlock,
     Report, Interrupt, Kill, World, Tick, Drift, Driver
<1>2. drift' = drift \/ drift' = [drift EXCEPT ![c] = cell[c]]
  BY DEF Run, PlanOnly, GoLive, CreateLock, FlagLock, CreateTarget, FlagTarget, ScaleBatch,
     FreezeInventory, StartCell, CreateJob, ReleaseJob, CaptureHealth, AllSuspended, AllReleased,
     BeforeArmedDeadline, ValidateArmed, CheckDrivers, AllComplete, CollectReports,
     DeleteCellJobs, Reconcile, Summarize, Die, Cleanup, CleanJobs, CleanTarget, Verify, Unlock,
     Report, Interrupt, Kill, World, Tick, Drift, Driver
<1>3. verified' = verified \/ \E v \in {"none", phase[c]} : verified' = [verified EXCEPT ![c] = v]
  BY DEF Run, PlanOnly, GoLive, CreateLock, FlagLock, CreateTarget, FlagTarget, ScaleBatch,
     FreezeInventory, StartCell, CreateJob, ReleaseJob, CaptureHealth, AllSuspended, AllReleased,
     BeforeArmedDeadline, ValidateArmed, CheckDrivers, AllComplete, CollectReports,
     DeleteCellJobs, Reconcile, Summarize, Die, Cleanup, CleanJobs, CleanTarget, Verify, Unlock,
     Report, Interrupt, Kill, World, Tick, Drift, Driver
<1>4. status' = status \/ status' = [status EXCEPT ![c] = ReportedStatus(c)]
  BY DEF Run, PlanOnly, GoLive, CreateLock, FlagLock, CreateTarget, FlagTarget, ScaleBatch,
     FreezeInventory, StartCell, CreateJob, ReleaseJob, CaptureHealth, AllSuspended, AllReleased,
     BeforeArmedDeadline, ValidateArmed, CheckDrivers, AllComplete, CollectReports,
     DeleteCellJobs, Reconcile, Summarize, Die, Cleanup, CleanJobs, CleanTarget, Verify, Unlock,
     Report, Interrupt, Kill, World, Tick, Drift, Driver
<1>5. cell' \in [Campaigns -> Nat] /\ drift' \in [Campaigns -> Int]
  BY <1>1, <1>2 DEF RecordType
<1>6. DOMAIN verified' = Campaigns /\ DOMAIN status' = Campaigns
  BY <1>3, <1>4 DEF RecordType
<1> QED BY <1>1, <1>2, <1>3, <1>4, <1>5, <1>6 DEF RecordType, RecordApart

\* The cluster by itself removes and creates no Job and no Deployment.
LEMMA WorldKeepsLeft ==
    ASSUME LoadInv, NEW c \in Campaigns, World(c)
    PROVE  Left(c)' => Left(c)
<1>1. target' = target
  BY DEF World, Tick, Drift, Driver
<1>2. jobs' = jobs \/ jobs[c] # NoJobs
  <2>1. CASE \E e \in Endpoints : Driver(c, e)
    <3>1. PICK e \in Endpoints : Driver(c, e)
      BY <2>1
    <3>2. jobs[c][e] # "absent"
      BY <3>1 DEF Driver, JobMove
    <3> QED BY <3>2 DEF NoJobs
  <2> QED BY <2>1 DEF World, Tick, Drift
<1> QED BY <1>1, <1>2 DEF Left

\* A script that works leaves nothing unless it is live, and has not reported.
LEMMA RunReported ==
    ASSUME LoadInv, RecordInv, NEW c \in Campaigns, Run(c) \/ Interrupt(c) \/ Kill(c)
    PROVE  Reported(c)'
<1> USE DEF Step, Goto, Flag, cluster, script
<1>0. DOMAIN pc = Campaigns /\ DOMAIN flags = Campaigns /\ Orderly(c) /\ Reported(c)
  BY DEF LoadInv, LockInv, RecordInv
<1>1. Run(c) \/ Interrupt(c) \/ Kill(c) => flags[c] \subseteq flags'[c]
  BY <1>0 DEF Run, PlanOnly, GoLive, CreateLock, FlagLock, CreateTarget, FlagTarget, ScaleBatch,
     FreezeInventory, StartCell, CreateJob, ReleaseJob, CaptureHealth, AllSuspended, AllReleased,
     BeforeArmedDeadline, ValidateArmed, CheckDrivers, AllComplete, CollectReports,
     DeleteCellJobs, Reconcile, Summarize, Die, Interrupt, Kill
<1>2. pc'[c] \notin {"unlock", "report", "ended"}
  BY <1>0 DEF Run, PlanOnly, GoLive, CreateLock, FlagLock, CreateTarget, FlagTarget, ScaleBatch,
     FreezeInventory, StartCell, CreateJob, ReleaseJob, CaptureHealth, AllSuspended, AllReleased,
     BeforeArmedDeadline, ValidateArmed, CheckDrivers, AllComplete, CollectReports,
     DeleteCellJobs, Reconcile, Summarize, Die, Interrupt, Kill
<1>3. \/ UNCHANGED <<jobs, target>>
      \/ pc[c] \in {"locked", "scaling", "creating", "releasing", "deleting"}
  BY DEF Run, PlanOnly, GoLive, CreateLock, FlagLock, CreateTarget, FlagTarget, ScaleBatch,
     FreezeInventory, StartCell, CreateJob, ReleaseJob, CaptureHealth, AllSuspended, AllReleased,
     BeforeArmedDeadline, ValidateArmed, CheckDrivers, AllComplete, CollectReports,
     DeleteCellJobs, Reconcile, Summarize, Die, Interrupt, Kill
<1>4. pc[c] \in {"locked", "scaling", "creating", "releasing", "deleting"} => "live" \in flags[c]
  BY <1>0 DEF Orderly, Working, InCell
<1>5. Left(c)' => Left(c) \/ "live" \in flags[c]
  BY <1>3, <1>4 DEF Left
<1> QED BY <1>0, <1>1, <1>2, <1>5 DEF Reported

\* The EXIT trap checks that nothing is left, and reports what it could not check.
LEMMA CleanupReported ==
    ASSUME LoadInv, RecordInv, NEW c \in Campaigns, Cleanup(c)
    PROVE  Reported(c)'
<1> USE DEF Step, Goto, cluster, script
<1>0. /\ DOMAIN pc = Campaigns /\ DOMAIN jobs = Campaigns /\ DOMAIN target = Campaigns
      /\ error \in [Campaigns -> BOOLEAN] /\ DOMAIN status = Campaigns /\ Reported(c)
  BY DEF LoadInv, LockInv, LoadType, RecordInv, RecordType
<1>1. CASE CleanJobs(c)
  <2>1. pc'[c] = "cleanTarget" /\ flags' = flags
    BY <1>0, <1>1 DEF CleanJobs
  <2>2. Left(c)' => Left(c)
    BY <1>0, <1>1 DEF CleanJobs, SomeJobsLeft, NoJobs, Left
  <2> QED BY <1>0, <2>1, <2>2 DEF Reported
<1>2. CASE CleanTarget(c)
  BY <1>0, <1>2 DEF CleanTarget, Left, Reported
<1>3. CASE Verify(c)
  BY <1>0, <1>3 DEF Verify, Left, Reported
<1>4. CASE Unlock(c)
  BY <1>0, <1>4 DEF Unlock, Left, Reported
<1>5. CASE Report(c)
  BY <1>0, <1>5 DEF Report, ReportedStatus, Left, Reported
<1> QED BY <1>1, <1>2, <1>3, <1>4, <1>5 DEF Cleanup

\* Every step keeps what is said of leftovers.
LEMMA StepReported ==
    ASSUME LoadInv, RecordInv, NEW c \in Campaigns,
           Run(c) \/ Cleanup(c) \/ Interrupt(c) \/ Kill(c) \/ World(c)
    PROVE  Reported(c)'
<1>1. ASSUME World(c) PROVE Reported(c)'
  <2>1. UNCHANGED <<pc, flags, error, status>>
    BY <1>1 DEF World, Tick, Drift, Driver, script
  <2> QED BY <1>1, <2>1, WorldKeepsLeft DEF RecordInv, Reported
<1> QED BY <1>1, RunReported, CleanupReported

\* Only the summary completes a campaign, and only after the last reconciliation.
LEMMA StepSteady ==
    ASSUME LoadInv, RecordInv, NEW c \in Campaigns,
           Run(c) \/ Cleanup(c) \/ Interrupt(c) \/ Kill(c) \/ World(c)
    PROVE  Steady(c)'
<1> USE DEF Step, Goto, Flag, cluster, script
<1>0. /\ DOMAIN pc = Campaigns /\ DOMAIN flags = Campaigns /\ Steady(c) /\ Cells \in Nat
      /\ DOMAIN drift = Campaigns /\ DOMAIN status = Campaigns
  BY PlanOfCells DEF LoadInv, LockInv, RecordInv, RecordType
<1>w. pc[c] \in Working => "complete" \notin flags[c]
  BY <1>0 DEF Steady
<1>n. {"cleanup", "cleanTarget", "verify", "unlock", "report", "ended", "killed"} \cap Working = {}
  BY DEF Working, InCell
<1>1. CASE Reconcile(c)
  <2>1. pc[c] = "cells" /\ pc'[c] = "settling" /\ UNCHANGED <<flags, cell, drift, status>>
    BY <1>0, <1>1 DEF Reconcile
  <2>2. cell[c] = Cells /\ drift[c] >= Cells
    BY <1>0, <1>1 DEF Reconcile, Healthy, Undisturbed
  <2>3. "complete" \notin flags[c]
    BY <1>w, <2>1 DEF Working
  <2> QED BY <1>0, <2>1, <2>2, <2>3 DEF Steady
<1>2. CASE Summarize(c)
  <2>1. pc[c] = "settling" /\ pc'[c] = "cleanup" /\ UNCHANGED <<cell, drift, status>>
    BY <1>0, <1>2 DEF Summarize
  <2>2. flags[c] \subseteq flags'[c]
    BY <1>0, <1>2 DEF Summarize
  <2> QED BY <1>0, <1>n, <2>1, <2>2 DEF Steady
<1>3. ASSUME Run(c), ~Reconcile(c), ~Summarize(c) PROVE Steady(c)'
  <2>1. pc[c] \in Working
    <3>1. CASE Die(c)
      BY <3>1 DEF Die, MustDie, Working, InCell
    <3>2. CASE ~Die(c)
      BY <1>3, <3>2 DEF Run, PlanOnly, GoLive, CreateLock, FlagLock, CreateTarget, FlagTarget, ScaleBatch,
         FreezeInventory, StartCell, CreateJob, ReleaseJob, CaptureHealth, AllSuspended, AllReleased,
         BeforeArmedDeadline, ValidateArmed, CheckDrivers, AllComplete, CollectReports,
         DeleteCellJobs, Working, InCell
    <3> QED BY <3>1, <3>2
  <2>2. /\ pc'[c] # "settling" /\ UNCHANGED status
        /\ "complete" \in flags'[c] => "complete" \in flags[c]
    BY <1>0, <1>3 DEF Run, PlanOnly, GoLive, CreateLock, FlagLock, CreateTarget, FlagTarget, ScaleBatch,
       FreezeInventory, StartCell, CreateJob, ReleaseJob, CaptureHealth, AllSuspended, AllReleased,
       BeforeArmedDeadline, ValidateArmed, CheckDrivers, AllComplete, CollectReports,
       DeleteCellJobs, Die
  <2>3. status[c] # "completed" /\ "complete" \notin flags[c]
    BY <1>0, <1>w, <2>1 DEF Steady
  <2> QED BY <2>2, <2>3 DEF Steady
<1>4. CASE Cleanup(c) \/ Interrupt(c) \/ Kill(c)
  <2>1. /\ UNCHANGED <<flags, cell, drift>>
        /\ pc'[c] \in {"cleanup", "cleanTarget", "verify", "unlock", "report", "ended", "killed"}
    BY <1>0, <1>4 DEF Cleanup, CleanJobs, CleanTarget, Verify, Unlock, Report, Interrupt, Kill
  <2>2. status' = status \/ status' = [status EXCEPT ![c] = ReportedStatus(c)]
    BY <1>4 DEF Cleanup, CleanJobs, CleanTarget, Verify, Unlock, Report, Interrupt, Kill
  <2>3. ReportedStatus(c) = "completed" => "complete" \in flags[c]
    BY DEF ReportedStatus
  <2>4. status'[c] = "completed" => "complete" \in flags[c]
    BY <1>0, <2>2, <2>3 DEF Steady
  <2> QED BY <1>0, <1>n, <2>1, <2>4 DEF Steady
<1>5. CASE World(c)
  <2>1. UNCHANGED <<pc, flags, cell, status>>
    BY <1>5 DEF World, Tick, Drift, Driver
  <2>2. drift'[c] = drift[c] \/ drift'[c] = cell[c]
    BY <1>0, <1>5 DEF World, Tick, Drift, Driver
  <2> QED BY <1>0, <2>1, <2>2 DEF Steady
<1> QED BY <1>1, <1>2, <1>3, <1>4, <1>5

----------------------------------------------------------------------------

\* A step that moves no Job of c keeps the barrier from place to place.
LEMMA StillBarrier ==
    ASSUME NEW c, Barrier(c), UNCHANGED <<jobs, cell, verified>>,
           \/ pc'[c] = pc[c]
           \/ pc'[c] \notin {"releasing", "arming", "armCheck", "armed", "measuring", "collect"}
           \/ pc[c] \in {"releasing", "arming", "armCheck"} /\ pc'[c] \in {"arming", "armCheck"}
           \/ pc[c] \in {"armed", "measuring"} /\ pc'[c] \in {"measuring", "collect"}
    PROVE  Barrier(c)'
<1>1. ActiveNow(c)' = ActiveNow(c)
  BY DEF ActiveNow
<1> QED BY <1>1 DEF Barrier

\* A Job of the cell that goes on keeps the barrier.
LEMMA JobKeepsBarrier ==
    ASSUME LoadInv, RecordInv, NEW c \in Campaigns, NEW e \in Endpoints, NEW to,
           SetJob(c, e, to), UNCHANGED <<pc, cell, verified>>, to # "absent",
           pc[c] \in {"armed", "measuring", "collect"} /\ jobs[c][e] \in {"armed", "loading", "complete", "crashed"}
                => to \in {"armed", "loading", "complete", "crashed"}
    PROVE  Barrier(c)'
<1>0. jobs \in [Campaigns -> [Endpoints -> JobStates]] /\ Barrier(c) /\ cell[c] \in Nat
  BY DEF LoadInv, LoadType, RecordInv, RecordType
<1>1. ActiveNow(c)' = ActiveNow(c) /\ ActiveNow(c) \subseteq Endpoints
  BY <1>0, PlanOfCells DEF ActiveNow
<1>2. \A f \in Endpoints : jobs'[c][f] = IF f = e THEN to ELSE jobs[c][f]
  BY <1>0 DEF SetJob
<1> QED BY <1>0, <1>1, <1>2 DEF Barrier

\* Every step keeps the barrier.
LEMMA StepBarrier ==
    ASSUME LoadInv, RecordInv, NEW c \in Campaigns,
           Run(c) \/ Cleanup(c) \/ Interrupt(c) \/ Kill(c) \/ World(c)
    PROVE  Barrier(c)'
<1> USE DEF Step, Goto, cluster, script
<1>0. DOMAIN pc = Campaigns /\ DOMAIN verified = Campaigns /\ Barrier(c)
  BY DEF LoadInv, LockInv, RecordInv, RecordType
<1>1. CASE AllSuspended(c)
  <2>1. pc'[c] = "releasing" /\ UNCHANGED <<jobs, cell>>
    BY <1>0, <1>1 DEF AllSuspended
  <2>2. \A e \in ActiveNow(c) : jobs[c][e] = "suspended"
    BY <1>1 DEF AllSuspended, CurrentJobs
  <2>3. ActiveNow(c)' = ActiveNow(c)
    BY <2>1 DEF ActiveNow
  <2> QED BY <2>1, <2>2, <2>3 DEF Barrier
<1>2. CASE \E e \in Endpoints : ReleaseJob(c, e)
  <2>1. PICK e \in Endpoints : ReleaseJob(c, e)
    BY <1>2
  <2>2. pc[c] = "releasing" /\ SetJob(c, e, "started") /\ UNCHANGED <<pc, cell, verified>>
    BY <2>1 DEF ReleaseJob
  <2> QED BY <2>2, JobKeepsBarrier
<1>3. CASE ValidateArmed(c)
  <2>1. pc[c] = "armCheck" /\ UNCHANGED <<jobs, cell>>
    BY <1>3 DEF ValidateArmed
  <2>2. CASE pc'[c] = "arming" /\ UNCHANGED verified
    BY <1>0, <2>1, <2>2, StillBarrier
  <2>3. CASE AllArmed(c) /\ phase[c] = "lead" /\ pc'[c] = "armed" /\ verified'[c] = phase[c]
    <3>1. ActiveNow(c)' = ActiveNow(c) /\ ActiveNow(c) \subseteq Endpoints
      BY <2>1, PlanOfCells DEF ActiveNow, RecordInv, RecordType
    <3>2. \A e \in ActiveNow(c) : jobs[c][e] \in JobStates
      BY <3>1 DEF LoadInv, LoadType
    <3>3. \A e \in ActiveNow(c) : jobs[c][e] \notin {"suspended", "started", "failed"}
      BY <2>3 DEF AllArmed, CurrentJobs
    <3>4. \A e \in ActiveNow(c) : jobs[c][e] # "absent"
      BY <1>0, <2>1 DEF Barrier
    <3>5. \A e \in ActiveNow(c) : jobs[c][e] \in {"armed", "loading", "complete", "crashed"}
      BY <3>2, <3>3, <3>4 DEF JobStates
    <3> QED BY <2>1, <2>3, <3>1, <3>5 DEF Barrier
  <2> QED BY <1>0, <1>3, <2>2, <2>3 DEF ValidateArmed
<1>4. CASE \E e \in Endpoints : Driver(c, e)
  <2>1. PICK e \in Endpoints : Driver(c, e)
    BY <1>4
  <2>2. UNCHANGED <<pc, cell, verified>>
    BY <2>1 DEF Driver
  <2>3. PICK to \in {"armed", "loading", "complete", "failed", "crashed"} :
            /\ SetJob(c, e, to) /\ jobs[c][e] \in {"started", "armed", "loading"}
            /\ to = "failed" => jobs[c][e] = "started"
    BY <2>1 DEF Driver, JobMove
  <2> QED BY <2>2, <2>3, JobKeepsBarrier
<1>5. ASSUME Run(c), ~AllSuspended(c), ~ValidateArmed(c), ~\E e \in Endpoints : ReleaseJob(c, e)
      PROVE  Barrier(c)'
  <2>1. CASE pc'[c] \notin {"releasing", "arming", "armCheck", "armed", "measuring", "collect"}
    BY <2>1 DEF Barrier
  <2>2. CASE pc'[c] \in {"releasing", "arming", "armCheck", "armed", "measuring", "collect"}
    <3>1. AllReleased(c) \/ BeforeArmedDeadline(c) \/ CheckDrivers(c) \/ AllComplete(c)
      BY <1>0, <1>5, <2>2 DEF Run, PlanOnly, GoLive, CreateLock, FlagLock, CreateTarget, FlagTarget,
         ScaleBatch, FreezeInventory, StartCell, CreateJob, CaptureHealth,
         CollectReports, DeleteCellJobs, Reconcile, Summarize, Die
    <3> QED BY <1>0, <3>1, StillBarrier DEF AllReleased, BeforeArmedDeadline, CheckDrivers, AllComplete
  <2> QED BY <2>1, <2>2
<1>6. CASE Cleanup(c) \/ Interrupt(c) \/ Kill(c)
  <2>1. pc'[c] \notin {"releasing", "arming", "armCheck", "armed", "measuring", "collect"}
    BY <1>0, <1>6 DEF Cleanup, CleanJobs, CleanTarget, Verify, Unlock, Report, Interrupt, Kill
  <2> QED BY <2>1 DEF Barrier
<1>7. CASE Tick(c) \/ Drift(c)
  BY <1>0, <1>7, StillBarrier DEF Tick, Drift
<1> QED BY <1>1, <1>2, <1>3, <1>4, <1>5, <1>6, <1>7 DEF World

\* Every step keeps the records of all campaigns.
LEMMA StepKeepsRecords ==
    ASSUME LoadInv, RecordInv, [Next]_vars
    PROVE  RecordInv'
<1>1. CASE Next
  <2>1. PICK c \in Campaigns : Run(c) \/ Cleanup(c) \/ Interrupt(c) \/ Kill(c) \/ World(c)
    BY <1>1 DEF Next
  <2>2. RecordType' /\ \A d \in Campaigns \ {c} : RecordApart(d)
    BY <2>1, RecordStep DEF RecordInv
  <2>3. \A d \in Campaigns \ {c} : Apart(c, d)
    BY <2>1, StepsApart
  <2>4. \A d \in Campaigns \ {c} : Reported(d)' /\ Steady(d)' /\ Barrier(d)'
    BY <2>2, <2>3, ApartKeepsRecords DEF RecordInv
  <2>5. Reported(c)' /\ Steady(c)' /\ Barrier(c)'
    BY <2>1, StepReported, StepSteady, StepBarrier
  <2> QED BY <2>2, <2>4, <2>5 DEF RecordInv
<1>2. CASE UNCHANGED vars
  <2>1. UNCHANGED <<target, jobs, drift, pc, flags, verified, cell, error, status>>
    BY <1>2 DEF vars, cluster, script
  <2>2. \A c \in Campaigns : ActiveNow(c)' = ActiveNow(c)
    BY <2>1 DEF ActiveNow
  <2>3. RecordType' /\ \A c \in Campaigns : Reported(c)' /\ Steady(c)'
    BY <2>1 DEF RecordInv, RecordType, Reported, Left, Steady
  <2>4. \A c \in Campaigns : Barrier(c)'
    BY <2>1, <2>2 DEF RecordInv, Barrier
  <2> QED BY <2>3, <2>4 DEF RecordInv
<1> QED BY <1>1, <1>2

\* The invariant of what a campaign measures and reports.
THEOREM RecordInvariant == Spec => []RecordInv
<1>1. LoadInv /\ RecordInv /\ [Next]_vars => RecordInv'
  BY StepKeepsRecords
<1> QED BY RecordInit, <1>1, LoadInvariant, PTL DEF Spec

\* A Job or a Deployment that a campaign leaves is reported as cleanup_failed,
\* whatever stopped the script between the create and its flag.
THEOREM LeftoversAreReported == Spec => []LeftoversReported
<1>1. RecordInv => LeftoversReported
  BY DEF RecordInv, Reported, Left, LeftoversReported
<1> QED BY <1>1, RecordInvariant, PTL

\* A campaign that reports completion ran every cell of its plan on the target
\* Pods it froze, although their health is only polled.
THEOREM CompletedOnTheFrozenPods == Spec => []CompletedUndisturbed
<1>1. RecordInv => CompletedUndisturbed
  BY DEF RecordInv, Steady, CompletedUndisturbed
<1> QED BY <1>1, RecordInvariant, PTL

\* No cell is measured whose drivers were not all verified ARMED within the
\* lead, although the clock and the logs are read one after the other.
THEOREM MeasuredBehindTheBarrier == Spec => []BarrierClosedInTime
<1>1. RecordInv => BarrierClosedInTime
  BY DEF RecordInv, Barrier, BarrierClosedInTime, CurrentJobs
<1> QED BY <1>1, RecordInvariant, PTL

----------------------------------------------------------------------------

\* While the rows that a report must show are not those a driver sends, the script passes
\* no cell's accounting.
Stuck(c) ==
    /\ cell[c] = 0 /\ pc[c] \notin {"deleting", "cellDone", "settling"}
    /\ "complete" \notin flags[c] /\ status[c] # "completed"

AllStuck == \A c \in Campaigns : Stuck(c)

\* No campaign has started.
LEMMA StuckAtFirst == Init => AllStuck
<1> SUFFICES ASSUME Init, NEW c \in Campaigns PROVE Stuck(c)
  BY Zenon DEF AllStuck
<1> QED BY DEF Init, Stuck

\* No step of a campaign gets it past its first cell.
LEMMA StuckStep ==
    ASSUME LoadInv, RecordInv, ~RowsMatch, Cells > 0, NEW c \in Campaigns, Stuck(c),
           Run(c) \/ Cleanup(c) \/ Interrupt(c) \/ Kill(c) \/ World(c)
    PROVE  Stuck(c)'
<1> USE DEF Step, Goto, Flag, cluster, script
<1>0. /\ DOMAIN pc = Campaigns /\ DOMAIN flags = Campaigns /\ DOMAIN status = Campaigns
  BY DEF LoadInv, LockInv, RecordInv, RecordType
<1>1. ~CollectReports(c) /\ ~DeleteCellJobs(c) /\ ~Reconcile(c) /\ ~Summarize(c)
  BY DEF CollectReports, DeleteCellJobs, Reconcile, Summarize, Stuck
<1>2. CASE Run(c)
  <2>1. UNCHANGED <<cell, status>>
    BY <1>1, <1>2 DEF Run, PlanOnly, GoLive, CreateLock, FlagLock, CreateTarget, FlagTarget, ScaleBatch,
       FreezeInventory, StartCell, CreateJob, ReleaseJob, CaptureHealth, AllSuspended, AllReleased,
       BeforeArmedDeadline, ValidateArmed, CheckDrivers, AllComplete, Die
  <2>2. /\ pc'[c] \notin {"deleting", "cellDone", "settling"}
        /\ "complete" \in flags'[c] => "complete" \in flags[c]
    BY <1>0, <1>1, <1>2 DEF Run, PlanOnly, GoLive, CreateLock, FlagLock, CreateTarget, FlagTarget, ScaleBatch,
       FreezeInventory, StartCell, CreateJob, ReleaseJob, CaptureHealth, AllSuspended, AllReleased,
       BeforeArmedDeadline, ValidateArmed, CheckDrivers, AllComplete, Die, Stuck
  <2> QED BY <2>1, <2>2 DEF Stuck
<1>3. CASE Cleanup(c) \/ Interrupt(c) \/ Kill(c)
  <2>1. /\ UNCHANGED <<flags, cell>>
        /\ pc'[c] \in {"cleanup", "cleanTarget", "verify", "unlock", "report", "ended", "killed"}
    BY <1>0, <1>3 DEF Cleanup, CleanJobs, CleanTarget, Verify, Unlock, Report, Interrupt, Kill
  <2>2. status' = status \/ status' = [status EXCEPT ![c] = ReportedStatus(c)]
    BY <1>3 DEF Cleanup, CleanJobs, CleanTarget, Verify, Unlock, Report, Interrupt, Kill
  <2>3. status'[c] # "completed"
    BY <1>0, <2>2 DEF Stuck, ReportedStatus
  <2> QED BY <2>1, <2>3 DEF Stuck
<1>4. CASE World(c)
  <2>1. UNCHANGED <<pc, flags, cell, status>>
    BY <1>4 DEF World, Tick, Drift, Driver
  <2> QED BY <2>1 DEF Stuck
<1> QED BY <1>2, <1>3, <1>4

\* With the numbers that validate_report has (10_000) and the driver sends (9_999), no
\* campaign records a cell and none completes, whatever its plan and however its drivers
\* fare (hack/arena-sc-horizontal-scale-summarize.py:435).
THEOREM NoCampaignCompletes ==
    ASSUME LastSent # LastWanted, Cells > 0
    PROVE  Spec => [](\A c \in Campaigns : cell[c] = 0 /\ status[c] # "completed")
<1>0. ~RowsMatch
  BY DEF RowsMatch
<1>1. Init => AllStuck
  BY StuckAtFirst
<1>2. LoadInv /\ RecordInv /\ AllStuck /\ [Next]_vars => AllStuck'
  <2> SUFFICES ASSUME LoadInv, RecordInv, AllStuck, [Next]_vars, NEW d \in Campaigns
               PROVE  Stuck(d)'
    BY DEF AllStuck
  <2>1. CASE UNCHANGED vars
    BY <2>1 DEF vars, cluster, script, Stuck, AllStuck
  <2>2. ASSUME NEW c \in Campaigns, Run(c) \/ Cleanup(c) \/ Interrupt(c) \/ Kill(c) \/ World(c)
        PROVE  Stuck(d)'
    <3>1. CASE c = d
      BY <1>0, <2>2, <3>1, StuckStep DEF AllStuck
    <3>2. CASE c # d
      BY <2>2, <3>2, StepsApart, RecordStep DEF RecordInv, Apart, RecordApart, Stuck, AllStuck
    <3> QED BY <3>1, <3>2
  <2> QED BY <2>1, <2>2 DEF Next
<1>3. AllStuck => \A c \in Campaigns : cell[c] = 0 /\ status[c] # "completed"
  BY Zenon DEF Stuck, AllStuck
<1> QED BY <1>1, <1>2, <1>3, LoadInvariant, RecordInvariant, PTL DEF Spec

----------------------------------------------------------------------------

\* With TypeOK inductive: a script that works on a cell has one left in the plan,
\* so that no more cells are recorded than it has.
TypeInv == TypeOK /\ \A c \in Campaigns : pc[c] \in InCell => cell[c] < Cells

\* The constants and the first state are of their types.
LEMMA TypeInit == Init => TypeInv
  BY PlanOfCells, CampaignAssumption
  DEF Init, TypeInv, TypeOK, InCell, Working, NoJobs, JobStates, Gone, Undisturbed, Phases, Statuses

\* Every step of a script up to its cleanup keeps the types.
LEMMA RunKeepsTypes ==
    ASSUME TypeInv, NEW c \in Campaigns, Run(c)
    PROVE  TypeInv'
<1>t. /\ Cells \in Nat /\ Batches \in Nat /\ NoJobs \in [Endpoints -> JobStates]
      /\ \A left \in SomeJobsLeft(c) : left \in [Endpoints -> JobStates]
  BY PlanOfCells, CampaignAssumption DEF NoJobs, JobStates, SomeJobsLeft, TypeInv, TypeOK
<1>1. CASE PlanOnly(c)
  BY <1>1, <1>t DEF TypeInv, TypeOK, Working, InCell, InCleanup, cluster, script, Step, Goto,
         PlanOnly, Flag
<1>2. CASE GoLive(c)
  BY <1>2, <1>t DEF TypeInv, TypeOK, Working, InCell, InCleanup, cluster, script, Step, Goto,
         GoLive, Flag
<1>3. CASE CreateLock(c)
  BY <1>3, <1>t DEF TypeInv, TypeOK, Working, InCell, InCleanup, cluster, script, Step, Goto,
         CreateLock
<1>4. CASE FlagLock(c)
  BY <1>4, <1>t DEF TypeInv, TypeOK, Working, InCell, InCleanup, cluster, script, Step, Goto,
         FlagLock, Flag
<1>5. CASE CreateTarget(c)
  BY <1>5, <1>t DEF TypeInv, TypeOK, Working, InCell, InCleanup, cluster, script, Step, Goto,
         CreateTarget, Gone
<1>6. CASE FlagTarget(c)
  BY <1>6, <1>t DEF TypeInv, TypeOK, Working, InCell, InCleanup, cluster, script, Step, Goto,
         FlagTarget, Flag
<1>7. CASE ScaleBatch(c)
  BY <1>7, <1>t DEF TypeInv, TypeOK, Working, InCell, InCleanup, cluster, script, Step, Goto,
         ScaleBatch, Gone
<1>8. CASE FreezeInventory(c)
  BY <1>8, <1>t DEF TypeInv, TypeOK, Working, InCell, InCleanup, cluster, script, Step, Goto,
         FreezeInventory
<1>9. CASE StartCell(c)
  BY <1>9, <1>t DEF TypeInv, TypeOK, Working, InCell, InCleanup, cluster, script, Step, Goto,
         StartCell, Phases
<1>10. CASE \E e \in Endpoints : CreateJob(c, e)
  BY <1>10, <1>t DEF TypeInv, TypeOK, Working, InCell, InCleanup, cluster, script, Step, Goto,
         CreateJob, SetJob, JobStates
<1>11. CASE \E e \in Endpoints : ReleaseJob(c, e)
  BY <1>11, <1>t DEF TypeInv, TypeOK, Working, InCell, InCleanup, cluster, script, Step, Goto,
         ReleaseJob, SetJob, JobStates
<1>12. CASE CaptureHealth(c)
  BY <1>12, <1>t DEF TypeInv, TypeOK, Working, InCell, InCleanup, cluster, script, Step, Goto,
         CaptureHealth
<1>13. CASE AllSuspended(c)
  BY <1>13, <1>t DEF TypeInv, TypeOK, Working, InCell, InCleanup, cluster, script, Step, Goto,
         AllSuspended
<1>14. CASE AllReleased(c)
  BY <1>14, <1>t DEF TypeInv, TypeOK, Working, InCell, InCleanup, cluster, script, Step, Goto,
         AllReleased
<1>15. CASE BeforeArmedDeadline(c)
  BY <1>15, <1>t DEF TypeInv, TypeOK, Working, InCell, InCleanup, cluster, script, Step, Goto,
         BeforeArmedDeadline
<1>16. CASE ValidateArmed(c)
  BY <1>16, <1>t DEF TypeInv, TypeOK, Working, InCell, InCleanup, cluster, script, Step, Goto,
         ValidateArmed, Phases
<1>17. CASE CheckDrivers(c)
  BY <1>17, <1>t DEF TypeInv, TypeOK, Working, InCell, InCleanup, cluster, script, Step, Goto,
         CheckDrivers
<1>18. CASE AllComplete(c)
  BY <1>18, <1>t DEF TypeInv, TypeOK, Working, InCell, InCleanup, cluster, script, Step, Goto,
         AllComplete
<1>19. CASE CollectReports(c)
  BY <1>19, <1>t DEF TypeInv, TypeOK, Working, InCell, InCleanup, cluster, script, Step, Goto,
         CollectReports
<1>20. CASE DeleteCellJobs(c)
  <2>1. /\ jobs' \in [Campaigns -> [Endpoints -> JobStates]]
        /\ UNCHANGED <<lock, target, phase, drift, flags, verified, error, status>>
    BY <1>20, <1>t DEF DeleteCellJobs, TypeInv, TypeOK, script
  <2>2. CASE Step(c, "deleting", "cellDone") /\ cell' = [cell EXCEPT ![c] = @ + 1]
    BY <1>t, <2>1, <2>2 DEF TypeInv, TypeOK, Working, InCell, InCleanup, cluster, script, Step, Goto
  <2>3. CASE Step(c, "deleting", "cleanup") /\ cell' = cell
    BY <1>t, <2>1, <2>3 DEF TypeInv, TypeOK, Working, InCell, InCleanup, cluster, script, Step, Goto
  <2> QED BY <1>20, <2>2, <2>3 DEF DeleteCellJobs, script
<1>21. CASE Reconcile(c)
  BY <1>21, <1>t DEF TypeInv, TypeOK, Working, InCell, InCleanup, cluster, script, Step, Goto,
         Reconcile
<1>22. CASE Summarize(c)
  BY <1>22, <1>t DEF TypeInv, TypeOK, Working, InCell, InCleanup, cluster, script, Step, Goto,
         Summarize, Flag
<1>23. CASE Die(c)
  BY <1>23, <1>t DEF TypeInv, TypeOK, Working, InCell, InCleanup, cluster, script, Step, Goto,
         Die
<1> QED BY <1>1, <1>2, <1>3, <1>4, <1>5, <1>6, <1>7, <1>8, <1>9, <1>10, <1>11, <1>12, <1>13,
      <1>14, <1>15, <1>16, <1>17, <1>18, <1>19, <1>20, <1>21, <1>22, <1>23 DEF Run

\* Every step of a cleanup, a signal and the cluster keeps the types.
LEMMA RestKeepsTypes ==
    ASSUME TypeInv, NEW c \in Campaigns, Cleanup(c) \/ Interrupt(c) \/ Kill(c) \/ World(c)
    PROVE  TypeInv'
<1>t. /\ Cells \in Nat /\ Batches \in Nat /\ NoJobs \in [Endpoints -> JobStates]
      /\ \A left \in SomeJobsLeft(c) : left \in [Endpoints -> JobStates]
  BY PlanOfCells, CampaignAssumption DEF NoJobs, JobStates, SomeJobsLeft, TypeInv, TypeOK
<1>1. CASE CleanJobs(c)
  <2>1. jobs' \in [Campaigns -> [Endpoints -> JobStates]]
    BY <1>1, <1>t DEF CleanJobs, TypeInv, TypeOK
  <2>2. error' \in [Campaigns -> BOOLEAN]
    BY <1>1 DEF CleanJobs, TypeInv, TypeOK
  <2>3. /\ Step(c, "cleanup", "cleanTarget")
        /\ UNCHANGED <<lock, target, phase, drift, flags, verified, cell, status>>
    BY <1>1 DEF CleanJobs
  <2> QED BY <1>t, <2>1, <2>2, <2>3 DEF TypeInv, TypeOK, Working, InCell, InCleanup, cluster,
         script, Step, Goto
<1>2. CASE CleanTarget(c)
  <2>1. target' \in [Campaigns -> Gone .. Batches]
    BY <1>2, <1>t DEF CleanTarget, TypeInv, TypeOK, Gone
  <2>2. error' \in [Campaigns -> BOOLEAN]
    BY <1>2 DEF CleanTarget, TypeInv, TypeOK
  <2>3. /\ Step(c, "cleanTarget", "verify")
        /\ UNCHANGED <<lock, jobs, phase, drift, flags, verified, cell, status>>
    BY <1>2 DEF CleanTarget
  <2> QED BY <1>t, <2>1, <2>2, <2>3 DEF TypeInv, TypeOK, Working, InCell, InCleanup, cluster,
         script, Step, Goto
<1>3. CASE Verify(c)
  BY <1>3, <1>t DEF TypeInv, TypeOK, Working, InCell, InCleanup, cluster, script, Step, Goto,
         Verify
<1>4. CASE Unlock(c)
  BY <1>4, <1>t DEF TypeInv, TypeOK, Working, InCell, InCleanup, cluster, script, Step, Goto,
         Unlock
<1>5. CASE Report(c)
  BY <1>5, <1>t DEF TypeInv, TypeOK, Working, InCell, InCleanup, cluster, script, Step, Goto,
         Report, ReportedStatus, Statuses
<1>6. CASE Interrupt(c)
  BY <1>6, <1>t DEF TypeInv, TypeOK, Working, InCell, InCleanup, cluster, script, Step, Goto,
         Interrupt
<1>7. CASE Kill(c)
  BY <1>7, <1>t DEF TypeInv, TypeOK, Working, InCell, InCleanup, cluster, script, Step, Goto,
         Kill
<1>8. CASE Tick(c)
  BY <1>8, <1>t DEF TypeInv, TypeOK, Working, InCell, InCleanup, cluster, script, Step, Goto,
         Tick, Phases
<1>9. CASE Drift(c)
  BY <1>9, <1>t DEF TypeInv, TypeOK, Working, InCell, InCleanup, cluster, script, Step, Goto,
         Drift, Undisturbed
<1>10. CASE \E e \in Endpoints : Driver(c, e)
  <2>1. PICK e \in Endpoints : Driver(c, e)
    BY <1>10
  <2>2. \E to \in JobStates : SetJob(c, e, to)
    BY <2>1 DEF Driver, JobMove, JobStates
  <2>3. jobs' \in [Campaigns -> [Endpoints -> JobStates]]
    BY <2>2 DEF SetJob, TypeInv, TypeOK
  <2>4. UNCHANGED <<lock, target, phase, drift, pc, script>>
    BY <2>1 DEF Driver
  <2> QED BY <2>3, <2>4 DEF TypeInv, TypeOK, Working, InCell, InCleanup, cluster, script, Step, Goto
<1> QED BY <1>1, <1>2, <1>3, <1>4, <1>5, <1>6, <1>7, <1>8, <1>9, <1>10 DEF Cleanup, World

\* Every variable of the campaigns keeps its type, and no campaign records more
\* cells than its plan has, whatever fails and whoever is killed.
THEOREM CampaignTypeCorrect == Spec => []TypeOK
<1>1. TypeInv /\ [Next]_vars => TypeInv'
  <2> SUFFICES ASSUME TypeInv, [Next]_vars PROVE TypeInv'
    OBVIOUS
  <2>1. CASE Next
    BY <2>1, RunKeepsTypes, RestKeepsTypes DEF Next
  <2>2. CASE UNCHANGED vars
    BY <2>2 DEF TypeInv, TypeOK, vars, cluster, script
  <2> QED BY <2>1, <2>2
<1>2. TypeInv => TypeOK
  BY DEF TypeInv
<1> QED BY TypeInit, <1>1, <1>2, PTL DEF Spec
=============================================================================
