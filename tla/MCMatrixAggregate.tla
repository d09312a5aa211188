------------------------- MODULE MCMatrixAggregate -------------------------
(* One matrix, whose ladder starts above one replica.                       *)
EXTENDS MatrixAggregate, TLC

CONSTANTS m1, ladder

One == <<m1>>
Planned1(n, from) == [series |-> ladder, replicas |-> n, from |-> from, to |-> from + n]
NoBaseline == {m1 :> <<Planned1(2, 0), Planned1(3, 2)>>}
AboveOne == (2 :> {5, 8}) @@ (3 :> {5})
OneSetting == (2 :> {1}) @@ (3 :> {1})

\* What a matrix does once the report is made concerns nobody.
UntilReported == report = NoReport

MCNext == UntilReported /\ AggregateNext
MCSpec == AggregateInit /\ [][MCNext]_aggregateVars
============================================================================
