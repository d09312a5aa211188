---------------------------- MODULE MCDecisions -----------------------------
(* The two analyses that decide on a knee, on small instances: the           *)
(* two-stage confirmation of the service knee, and the aggregation of        *)
(* matrices.  A behaviour is of one of them, which `mode' says; the          *)
(* variables of the other rest.                                              *)
EXTENDS KneeConfirm, TLC

CONSTANTS                                                    \* the matrices
    m1, m2, ladder, Sources, Plans, Horizontal, Contracts, RungRates, Latencies,
    Runtimes, Enough

VARIABLES
    mode,
    plan, provenance, dir, measured, attested, torn, status, rpc, read, cells, report

matrixVars ==
    <<plan, provenance, dir, measured, attested, torn, status, rpc, read, cells, report>>
allVars == <<vars, matrixVars, mode>>

Aggregation == INSTANCE MatrixAggregate WITH Rates <- RungRates, result <- measured

\* A plan is a sequence of cells, whose rows are numbers.
ASSUME MatrixConstants ==
    /\ Sources \in Seq(Range(Sources)) /\ Sources # <<>>
    /\ \A p \in Plans, m \in Range(Sources) :
          /\ p[m] \in Seq(Range(p[m]))
          /\ \A row \in Range(p[m]) : row.from \in Int /\ row.to \in Int

Sample(success, drain, samples, p99, useful) ==
    [success |-> success, drain |-> drain, errors |-> 0, drops |-> 0, health |-> 0,
     samples |-> samples, p99 |-> p99, useful |-> useful]
Pair(lowP99, highP99) ==
    [low |-> Sample(1000, 0, 1, lowP99, 410), high |-> Sample(980, 20, 1, highP99, 415)]

\* Two sound blocks whose latencies differ enough to fail the limit in three blocks and
\* not in six, one whose ratio is exactly 1.25 and so is not stressed, one whose upper
\* cell has completions and no p99.
SoundPairs == {Pair(20, 40), Pair(24, 40)}
SomePairs == SoundPairs \cup {Pair(20, 25), [Pair(20, 40) EXCEPT !.high.p99 = 0]}
SomeGates == {"telemetry"}

Two == <<m1, m2>>
Planned1(n, from) == [series |-> ladder, replicas |-> n, from |-> from, to |-> from + n]

\* m2 continues m1 at its second rung, with rows of its own or not.
Continuations ==
    {(m1 :> <<Planned1(1, 0), Planned1(2, 1)>>) @@ (m2 :> <<Planned1(2, from)>>) : from \in {2, 3}}
Measures == (1 :> {5}) @@ (2 :> {5, 8})
SomeRuntimes == (1 :> {1}) @@ (2 :> {1, 2})

\* What a matrix does once the report is made concerns nobody.
UntilReported == report = Aggregation!NoReport

StudyRests ==
    /\ pc = "rests" /\ stageA = NoSummary /\ stageB = NoSummary
    /\ published = [summary |-> NoSummary, document |-> <<>>]
    /\ draws = [n \in {Blocks, 2 * Blocks} |-> TRUE]
    /\ flaws = 0 /\ result = <<>>

MatricesRest ==
    /\ plan = (CHOOSE p \in Plans : TRUE)
    /\ provenance = [m \in Aggregation!Matrices |-> CHOOSE c \in Contracts : TRUE]
    /\ Aggregation!AggregateInit

\* Bound: the seeded draws let a pooled effect in doubt pass, so that more is confirmed.
DoubtPasses == draws[2 * Blocks]

\* Bound: at most one block of a stage is neither of the sound two.
OneBadBlock(s) == Cardinality({b \in DOMAIN s.cells : s.cells[b] \notin SoundPairs}) <= 1
FewBadBlocks == OneBadBlock(stageA) /\ OneBadBlock(stageB)

MCInit ==
    \/ mode = "confirm" /\ Init /\ DoubtPasses /\ MatricesRest
    \/ /\ mode = "aggregate" /\ StudyRests /\ Aggregation!AggregateInit
       /\ provenance[m1] = 1              \* only equality matters

MCNext ==
    \/ mode = "confirm" /\ Next /\ FewBadBlocks' /\ UNCHANGED <<mode, matrixVars>>
    \/ /\ mode = "aggregate" /\ UntilReported /\ Aggregation!AggregateNext
       /\ UNCHANGED <<mode, vars>>

MCSpec == MCInit /\ [][MCNext]_allVars

-----------------------------------------------------------------------------
\* Every cell that counts was measured and attested, and shares in a merge
\* neither rows nor a different runtime with another (MatrixAggregate).
CountedApart == Aggregation!CountedApart

\* A rung is graded RED only on evidence (MatrixAggregate).
RedIsDeserved == Aggregation!RedIsDeserved

\* A strict report succeeds only on a complete matrix (MatrixAggregate).
StrictIsComplete == Aggregation!StrictIsComplete
=============================================================================
