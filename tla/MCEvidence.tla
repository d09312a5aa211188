---------------------------- MODULE MCEvidence -----------------------------
(* From a cell to a verdict, on small instances: the evidence of one matrix  *)
(* cell, and the open-loop sweep that attests its cells and brackets the     *)
(* knee.  A behaviour is of one of them, which `mode' says; the variables of *)
(* the other rest.                                                           *)
EXTENDS SweepVerdict

CONSTANTS                                                    \* the cell
    Replicas, Checkpoints, MaxDelay, CellDuration, Span, Profiles, Clean, MaxNow, MaxFaults

\* A cell has a target, and its recovery is observed at least once.
ASSUME CellConstants ==
    /\ Replicas \in Nat \ {0}
    /\ Checkpoints \in Seq(Nat) /\ Checkpoints # <<>>

VARIABLES
    mode,
    now, pods, nodeReady, faults, hurt, runner, observer, start, files    \* the cell

cellVars == <<now, pods, nodeReady, faults, hurt, runner, observer, start, files>>
allVars == <<vars, cellVars, mode>>

MatrixCell == INSTANCE CellEvidence WITH Duration <- CellDuration

\* Four rates, up and down again.
FourRatesTwice == <<10, 20, 30, 40, 40, 30, 20, 10>>
Outcome(success, drain, errors, p99, useful) ==
    [success |-> success, drain |-> drain, drops |-> 0, errors |-> errors, health |-> 0,
     p99 |-> p99, useful |-> useful]
\* Clean, slow, or nothing served in time: two repetitions of a rate mix them.
ThreeOutcomes ==
    {Outcome(1000, 0, 0, 20, 100), Outcome(1000, 0, 0, 30, 100), Outcome(0, 1000, 0, 0, 0)}

TwoSamples == <<1, 2>>
CleanProfile ==
    [claimed |-> 2, ok |-> 1, errors |-> 0, drained |-> 1, drainedOK |-> TRUE, late |-> FALSE,
     exhausted |-> FALSE, job |-> "complete", first |-> 0]
\* Each of the others is rejected by a gate of its own.
SomeProfiles ==
    {CleanProfile, [CleanProfile EXCEPT !.ok = 0], [CleanProfile EXCEPT !.ok = 0, !.errors = 1],
     [CleanProfile EXCEPT !.drainedOK = FALSE],
     [CleanProfile EXCEPT !.job = "failed"]}

SweepRests ==
    /\ pc = "error" /\ row = 1 /\ disturbed = FALSE
    /\ cell = Sound(0, CHOOSE o \in Outcomes : TRUE)
    /\ records = <<>> /\ point = 0 /\ pending = 0
    /\ knee = NoBracket("none")

MCInit ==
    \/ mode = "sweep" /\ Init /\ MatrixCell!CellInit
    \/ mode = "cell" /\ SweepRests /\ MatrixCell!CellInit

CellStep(A) == mode = "cell" /\ A /\ UNCHANGED <<mode, vars>>

MCNext ==
    \/ mode = "sweep" /\ Next /\ UNCHANGED <<mode, cellVars>>
    \/ CellStep(MatrixCell!CellNext)

\* The fairness of the cell, as its module states it.
MCSpec ==
    /\ MCInit /\ [][MCNext]_allVars
    /\ WF_allVars(CellStep(MatrixCell!Tick)) /\ WF_allVars(CellStep(MatrixCell!Runner))
    /\ WF_allVars(CellStep(MatrixCell!Observe)) /\ WF_allVars(CellStep(MatrixCell!Harness))

-----------------------------------------------------------------------------
\* What the harness attests the analysis recomputes, but for what changed
\* between the commands of one recovery sample (CellEvidence).
AttestedRecomputes == MatrixCell!AttestedRecomputes

\* The files of a cell that counts show its targets undisturbed (CellEvidence).
ValidIsUndisturbed == MatrixCell!ValidIsUndisturbed

\* Every cell is decided: nobody waits for somebody who has exited (CellEvidence).
CellDecided == mode = "cell" => MatrixCell!CellDecided
=============================================================================
