----------------------------- MODULE SharedLock -----------------------------
(***************************************************************************)
(* Horizontal scale campaigns and Rayon sweeps on one cluster: both take   *)
(* sc-benchmark-matrix-lock before they create anything, and give it back  *)
(* by rules of their own.                                                  *)
(***************************************************************************)
EXTENDS ScaleCampaign

CONSTANTS Sweeps, SweepCells   \* see RayonSweep

ASSUME SharedLockAssumption ==
    /\ Sweeps \cap Campaigns = {} /\ NoOwner \notin Sweeps
    /\ SweepCells \in Nat \ {0}

VARIABLES clone, driver, reference, spc, sflags, recorded, failed, sstatus

Sweep == INSTANCE RayonSweep

sweepOnly == <<clone, driver, reference, spc, sflags, recorded, failed, sstatus>>
sharedVars == <<vars, sweepOnly>>

SharedInit == Init /\ Sweep!SweepInit

SharedNext ==
    \/ Next /\ UNCHANGED sweepOnly
    \/ Sweep!SweepNext /\ UNCHANGED <<target, jobs, phase, drift, pc, script>>

SharedSpec == SharedInit /\ [][SharedNext]_sharedVars

----------------------------------------------------------------------------

\* The state of the sweeps beside the campaigns', of which ScaleCampaign speaks.
AllTypes == Sweep!SweepTypeOK /\ lock \in Campaigns \cup Sweeps \cup {NoOwner}

\* A sweep is reported complete only if every cell of its plan was recorded, its
\* Pods are gone and it gave the lock back (the order of its cleanup's steps and
\* its exit status).
CompletedSweepsAreClean == Sweep!CompletedSweepIsClean

CampaignLoad(c) == jobs[c] # NoJobs \/ target[c] > 0

\* However the programs start, fail and clean up, each owns the lock while it works.
EveryHolderOwnsTheLock == HoldersOwnTheLock /\ Sweep!SweepOwnsTheLock

\* A program at work meets no load of another, except of a campaign that gave
\* the lock back although its cleanup failed, and says so: a sweep keeps the lock.
\* This is ClusterLock's LoadIsOwned in the terms of the scripts.
OthersLoadIsReported ==
    /\ Sweep!NothingRunsUnlocked
    /\ \A c \in Campaigns : CampaignLoad(c) /\ lock # c => error[c]

----------------------------------------------------------------------------
(* The discipline that both kinds of program follow.                       *)

SweepLoad(s) == clone[s] = "running" \/ driver[s] \in Sweep!Driving

Loading == {c \in Campaigns : CampaignLoad(c)} \cup {s \in Sweeps : SweepLoad(s)}
Known == {c \in Campaigns : error[c]} \cup {s \in Sweeps : failed[s]}

Discipline == INSTANCE ClusterLock WITH
    Programs <- Campaigns \cup Sweeps, Keepers <- Sweeps,
    holder <- lock, loading <- Loading, known <- Known

\* Every behaviour of campaigns and sweeps is one that ClusterLock allows: no step
\* takes the lock from another program, loads the cluster without it or gives it
\* back over load that is not known, whatever is created, deleted or lost in it
\* (LOCK_NAME in both scripts; a sweep deletes it without looking whose it is).
ImplementsLock == Discipline!Spec
=============================================================================
