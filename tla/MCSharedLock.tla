--------------------------- MODULE MCSharedLock ---------------------------
(* Two campaigns and a sweep, of which any two are started.                *)
EXTENDS SharedLock, FiniteSets, TLC

CONSTANTS e1, c1, c2, s1

OneCell == <<{e1}>>
Symmetry == Permutations(Campaigns)

\* No more than two programs are started.
TwoPrograms ==
    Cardinality({c \in Campaigns : pc[c] # "setup"}) + Cardinality({s \in Sweeps : spc[s] # "setup"}) <= 2

\* The targets' Pods stay as they were rolled out: a cell that finds them changed
\* ends like any other that fails.
SteadyTargets == drift' = drift

MCNext == SharedNext /\ TwoPrograms' /\ SteadyTargets
MCSpec == SharedInit /\ [][MCNext]_sharedVars
===========================================================================
