----------------------------- MODULE MCHandoff -----------------------------
(* Small instances of Handoff for TLC.                                     *)
EXTENDS HandoffRefinement, TLC

\* Handlers are interchangeable, and so are workers; used only by the runs
\* that check no liveness property.
Symmetry == Permutations(Handlers) \cup Permutations(Workers)
=============================================================================
