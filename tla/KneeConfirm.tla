---------------------------- MODULE KneeConfirm ----------------------------
(***************************************************************************)
(* The two-stage confirmation of the service knee: five blocks of a low    *)
(* and a high rate, decided by hack/arena-sc-knee-confirm-analyze.py, and  *)
(* one extension of five more, in the complementary order, pooled by       *)
(* hack/arena-sc-knee-confirm-extension-analyze.py only when the frozen    *)
(* Stage A decision is reproduced byte for byte.  Between the two analyses *)
(* the Stage A summary is a file that may be written again.                *)
(* Ratios are in units of 1/1000, useful RPS in units of 1/10.             *)
(***************************************************************************)
EXTENDS Integers, FiniteSets, FiniteSetsExt, Sequences, SequencesExt, Functions

CONSTANTS
    Blocks,       \* blocks of a stage, odd (5)
    LowRate, HighRate,
    Pairs,        \* what a block may measure: [low, high], two cells
    CleanP99,     \* CLEAN_P99_LIMIT_US
    Settings,     \* runtime signatures, thresholds and configurations
    Failing,      \* the gates that may fail, of Gates
    MaxFlaws      \* bound on the flaws of the summaries of one study

ASSUME BlocksAssumption == Blocks \in Nat /\ Blocks % 2 = 1

\* What _number and _integer of the analyzer let through.
ASSUME PairsAssumption ==
    \A p \in Pairs :
        \A cell \in {p.low, p.high} :
            /\ cell.success \in Nat /\ cell.drain \in Nat
            /\ cell.p99 \in Nat /\ cell.useful \in Nat

VARIABLES
    pc,
    stageA, stageB,  \* the sweep summaries, as they are on disk
    published,       \* the Stage A summary that was analyzed first, and its decision
    draws,           \* how the seeded generator settles a bootstrap in doubt, by block count
    flaws,
    result           \* the extension's document

vars == <<pc, stageA, stageB, published, draws, flaws, result>>

----------------------------------------------------------------------------
(* The summaries.                                                          *)

Repetitions == 1 .. Blocks
Rates == {LowRate, HighRate}
Slots == Repetitions \X Rates
Positions == 1 .. 2 * Blocks

\* The position of each cell when the low rate goes first in the blocks of Forward.
OrderOf(Forward) ==
    [s \in Slots |-> IF (s[2] = LowRate) = (s[1] \in Forward) THEN 2 * s[1] - 1 ELSE 2 * s[1]]
ExpectedOrder == OrderOf({b \in Repetitions : b % 2 = 1})
StageBOrder == OrderOf({b \in Repetitions : b % 2 = 0})
LowRatesFirst == [s \in Slots |-> IF s[2] = LowRate THEN s[1] ELSE Blocks + s[1]]
Orders == {ExpectedOrder, StageBOrder, LowRatesFirst, [s \in Slots |-> s[1]]}

\* The gates that a summary and its cells attest.
Attestations == {"scheduler", "telemetry", "topology"}
RuntimeChecks == {"run_id", "frozen_runtime_shape"}
SummaryGates == {"ten_planned_and_attested_cells", "accounting", "source_runtime_linkage"}
Gates == Attestations \cup RuntimeChecks \cup SummaryGates

Summary(cells, order, failed, settings) ==
    [cells |-> cells, order |-> order, failed |-> failed, settings |-> settings]
NoSummary == Summary(<<>>, ExpectedOrder, {}, CHOOSE s \in Settings : TRUE)
Cell(s, b, rate) == IF rate = LowRate THEN s.cells[b].low ELSE s.cells[b].high

\* What _parse_cell refuses beyond the type of a field.
ParseCell(cell, rate) ==
    /\ cell.useful <= 10 * rate
    /\ (cell.samples = 0) = (cell.p99 = 0)

Extracts(s) ==
    /\ Len(s.cells) = Blocks
    /\ \A slot \in Slots : ParseCell(Cell(s, slot[1], slot[2]), slot[2])
    /\ ToSet(s.order) = Positions

Adjacent(s) ==
    \A b \in Repetitions :
        s.order[<<b, LowRate>>] - s.order[<<b, HighRate>>] \in {-1, 1}

\* external_checks: every gate, the frozen order, the pairing.
External(s) == s.failed = {} /\ s.order = ExpectedOrder /\ Adjacent(s)

\* Stage B is read by the same code, after its run id and its orders are put in the
\* places of Stage A; its own order, pairing and run ids are checked beside it.
Adapted(s) == [s EXCEPT !.order = ExpectedOrder]
ObservedOrder(s) == ToSet(s.order) = Positions
ExtractsB(s) == ObservedOrder(s) /\ Extracts(Adapted(s))
ExternalB(s) == External(Adapted(s)) /\ s.order = StageBOrder /\ Adjacent(s)

----------------------------------------------------------------------------
(* The frozen rule.                                                        *)

\* low_checks; that its restarts were attested is the gate "telemetry", without which
\* External fails whatever is measured.
Clean(low) ==
    /\ low.success >= 990 /\ low.drain <= 10
    /\ low.errors = 0 /\ low.drops = 0 /\ low.health = 0
    /\ low.p99 > 0 /\ low.p99 <= CleanP99

\* The ratio of two p99 latencies is above num / den.
RatioAbove(pair, num, den) ==
    pair.low.p99 > 0 /\ pair.high.p99 > 0 /\ den * pair.high.p99 > num * pair.low.p99

StressedAtTheLimit(pair) ==
    /\ pair.high.success < 990 \/ pair.high.drain > 10 \/ pair.high.errors > 0
    /\ 4 * pair.high.p99 >= 5 * pair.low.p99
Stressed(pair) ==
    /\ pair.high.success < 990 \/ pair.high.drain > 10 \/ pair.high.errors > 0
    /\ RatioAbove(pair, 5, 4)

DirectionsAgree(pair) ==
    /\ pair.high.success < pair.low.success
    /\ pair.high.drain > pair.low.drain
    /\ RatioAbove(pair, 1, 1)
    /\ pair.high.useful - pair.low.useful < 10

MakeBlock(pair) ==
    [pair |-> pair, clean |-> Clean(pair.low), stressed |-> Stressed(pair),
     agree |-> DirectionsAgree(pair)]

\* A block list with the verdict on each block.
MakeBlocks(cells) == [b \in DOMAIN cells |-> MakeBlock(cells[b])]

\* A resample draws whole blocks; its median is the middle block when their number is
\* odd, the mean of two of them when it is even.  An effect passes if its interval
\* does: surely when every resample's median passes, surely not when none does, and
\* as the seeded draws fall in between.
Medians(pairs) ==
    IF Len(pairs) % 2 = 1
      THEN {<<p, p>> : p \in ToSet(pairs)}
      ELSE ToSet(pairs) \X ToSet(pairs)

EffectPasses(pairs, Passes(_, _)) ==
    \/ \A m \in Medians(pairs) : Passes(m[1], m[2])
    \/ /\ \E m \in Medians(pairs) : Passes(m[1], m[2])
       /\ draws[Len(pairs)]

Success(p, q) == p.high.success - p.low.success + q.high.success - q.low.success < 0
Drain(p, q) == p.high.drain - p.low.drain + q.high.drain - q.low.drain > 0
Latency(p, q) ==
    2 * (p.high.p99 * q.low.p99 + q.high.p99 * p.low.p99) > 5 * p.low.p99 * q.low.p99
Useful(p, q) == p.high.useful - p.low.useful + q.high.useful - q.low.useful < 20

BootstrapPasses(pairs) ==
    /\ \A p \in ToSet(pairs) : p.low.p99 > 0 /\ p.high.p99 > 0
    /\ EffectPasses(pairs, Success) /\ EffectPasses(pairs, Drain)
    /\ EffectPasses(pairs, Latency) /\ EffectPasses(pairs, Useful)

\* The sample coefficient of variation is at most percent: both sides squared.
SampleCV(values, percent) ==
    LET n == Len(values)
        sum == FoldSeq(LAMBDA v, acc : v + acc, 0, values)
        squares == FoldSeq(LAMBDA v, acc : v * v + acc, 0, values)
    IN  /\ sum > 0
        /\ 10000 * n * (n * squares - sum * sum) <= percent * percent * (n - 1) * sum * sum

VariabilityPasses(pairs) ==
    LET low(Field(_)) == [b \in DOMAIN pairs |-> Field(pairs[b].low)]
        high(Field(_)) == [b \in DOMAIN pairs |-> Field(pairs[b].high)]
        useful(cell) == cell.useful
        p99(cell) == cell.p99
    IN  /\ \A p \in ToSet(pairs) : p.low.p99 > 0 /\ p.high.p99 > 0
        /\ SampleCV(low(useful), 2) /\ SampleCV(high(useful), 2)
        /\ SampleCV(low(p99), 10) /\ SampleCV(high(p99), 20)

\* The six conditions that fail: the decision is confirmed when none does.
Evaluate(blocks, external) ==
    LET pairs == [b \in DOMAIN blocks |-> blocks[b].pair]
        condition ==
            [attributed |-> external,
             clean |-> \A b \in DOMAIN blocks : blocks[b].clean,
             stressed |-> \A b \in DOMAIN blocks : blocks[b].stressed,
             agree |-> \A b \in DOMAIN blocks : blocks[b].agree,
             bootstrap |-> BootstrapPasses(pairs),
             variability |-> VariabilityPasses(pairs)]
    IN  {c \in DOMAIN condition : ~condition[c]}
StatusOf(failed) == IF failed = {} THEN "confirmed" ELSE "inconclusive"

\* The document of Stage A: what its reader sees of the cells, and what failed.  The
\* settings are in the summary and not in the document.
AnalyzeFive(s) ==
    IF Extracts(s)
      THEN LET failed == Evaluate(MakeBlocks(s.cells), External(s))
           IN  [status |-> StatusOf(failed), failed |-> failed, cells |-> s.cells,
                order |-> s.order, gates |-> s.failed]
      ELSE [status |-> "inconclusive", failed |-> {"structure"}, cells |-> <<>>,
            order |-> ExpectedOrder, gates |-> {}]

----------------------------------------------------------------------------
(* The extension.                                                          *)

CrossStage(a, b) == a.settings = b.settings

Forward(s) ==
    Cardinality({b \in Repetitions : s.order[<<b, LowRate>>] < s.order[<<b, HighRate>>]})

\* Seeded fault: Stage A is recognized by its decision and not by the whole document.
PoolingOnDecision(a, b) ==
    /\ AnalyzeFive(a).failed = published.document.failed
    /\ AnalyzeFive(a).status = "inconclusive"
    /\ External(a) /\ ExternalB(b)
    /\ CrossStage(a, b)
    /\ Forward(a) + Forward(b) = Blocks

\* pooling_checks; the pinned hash stands for the published document.
PoolingPermitted(a, b) ==
    /\ AnalyzeFive(a) = published.document
    /\ AnalyzeFive(a).status = "inconclusive"
    /\ External(a) /\ ExternalB(b)
    /\ CrossStage(a, b)
    /\ Forward(a) + Forward(b) = Blocks

WithoutPooling(rerun) ==
    [status |-> "inconclusive", pooled |-> FALSE, rerun |-> rerun, failed |-> {}]

Extension(a, b) ==
    CASE ~Extracts(a) -> WithoutPooling(FALSE)
      [] Extracts(a) /\ ~ExtractsB(b) -> WithoutPooling(TRUE)
      [] Extracts(a) /\ ExtractsB(b) /\ ~PoolingPermitted(a, b) ->
            WithoutPooling(~ExternalB(b) \/ ~CrossStage(a, b)
                           \/ Forward(a) + Forward(b) # Blocks)
      [] OTHER ->
            LET failed == Evaluate(MakeBlocks(a.cells \o b.cells), TRUE)
            IN  [status |-> StatusOf(failed), pooled |-> TRUE, rerun |-> FALSE,
                 failed |-> failed]

----------------------------------------------------------------------------
(* A study.                                                                *)

Init ==
    /\ pc = "stage A"
    /\ stageA = NoSummary /\ stageB = NoSummary
    /\ published = [summary |-> NoSummary, document |-> <<>>]
    /\ draws \in [{Blocks, 2 * Blocks} -> BOOLEAN]
    /\ flaws = 0
    /\ result = <<>>

\* The campaign and arena-sc-open-loop-summarize.py: each departure from a sound
\* summary in the frozen order counts as a flaw.
Flawed(s, order, settings) ==
    (IF s.order = order THEN 0 ELSE 1) + Cardinality(s.failed)
    + (IF s.settings = settings THEN 0 ELSE 1)

Summaries(cells, order, settings) ==
    {s \in {Summary(cells, o, failed, x) :
               o \in Orders,
               failed \in SUBSET Failing,
               x \in Settings} :
        flaws + Flawed(s, order, settings) <= MaxFlaws}

MeasureA ==
    /\ pc = "stage A"
    /\ \E cells \in [Repetitions -> Pairs] :
          \E s \in Summaries(cells, ExpectedOrder, NoSummary.settings) :
             /\ stageA' = s
             /\ flaws' = flaws + Flawed(s, ExpectedOrder, NoSummary.settings)
    /\ pc' = "analyze A"
    /\ UNCHANGED <<stageB, published, draws, result>>

AnalyzeStageA ==
    /\ pc = "analyze A"
    /\ published' = [summary |-> stageA, document |-> AnalyzeFive(stageA)]
    /\ pc' = "stage B"
    /\ UNCHANGED <<stageA, stageB, draws, flaws, result>>

\* The extension is the one preregistered continuation of an inconclusive Stage A.
MeasureB ==
    /\ pc = "stage B" /\ published.document.status = "inconclusive"
    /\ \E cells \in [Repetitions -> Pairs] :
          \E s \in Summaries(cells, StageBOrder, NoSummary.settings) :
             /\ stageB' = s
             /\ flaws' = flaws + Flawed(s, StageBOrder, NoSummary.settings)
    /\ pc' = "analyze B"
    /\ UNCHANGED <<stageA, published, draws, result>>

\* The Stage A summary is written again after its decision: a block repeated, another
\* configuration.
Resummarize ==
    /\ pc = "analyze B" /\ flaws < MaxFlaws
    /\ \/ \E b \in Repetitions, p \in Pairs : stageA' = [stageA EXCEPT !.cells[b] = p]
       \/ \E x \in Settings : stageA' = [stageA EXCEPT !.settings = x]
    /\ stageA' # stageA
    /\ flaws' = flaws + 1
    /\ UNCHANGED <<pc, stageB, published, draws, result>>

AnalyzeExtension ==
    /\ pc = "analyze B"
    /\ result' = Extension(stageA, stageB)
    /\ pc' = "decided"
    /\ UNCHANGED <<stageA, stageB, published, draws, flaws>>

Next == MeasureA \/ AnalyzeStageA \/ MeasureB \/ Resummarize \/ AnalyzeExtension

Spec == Init /\ [][Next]_vars

----------------------------------------------------------------------------
(* Properties.                                                             *)

Confirmed == pc = "decided" /\ result.status = "confirmed"

\* The extension can only rescue a study whose first stage varied too much: when the
\* pooled blocks confirm the knee, everything else already held in Stage A as it was
\* published, its bootstrap included, which therefore decides nothing.
ExtensionRescuesOnlyVariability ==
    Confirmed => published.document.failed = {"variability"}

\* A confirmed knee was computed on the very blocks that Stage A was first decided on,
\* though its summary may have been written again since, and on those of Stage B: each
\* clean below and stressed above, in the two frozen orders and with every gate.  The
\* two summaries that were pooled have the same settings; those that Stage A was first
\* decided under are not in its document, and nothing is said of them.
ConfirmedOnPublishedBlocks ==
    Confirmed =>
        /\ stageA.cells = published.summary.cells
        /\ stageA.settings = stageB.settings
        /\ \A s \in {published.summary, stageB} :
              s.failed = {} /\ \A b \in Repetitions :
                                  Clean(s.cells[b].low) /\ Stressed(s.cells[b])
        /\ published.summary.order = ExpectedOrder /\ stageB.order = StageBOrder
=============================================================================
