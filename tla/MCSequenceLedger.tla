-------------------------- MODULE MCSequenceLedger --------------------------
EXTENDS SequenceLedger, TLC

MCIndices == {-1, 0, 1, 2}
Symmetry == Permutations(Planners)
=============================================================================
