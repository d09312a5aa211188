-------------------------- MODULE DecisionProofs --------------------------
(***************************************************************************)
(* What a confirmed knee and an aggregated report rest on, proved for      *)
(* every number of blocks, every set of matrices and every measurement.    *)
(*                                                                         *)
(* The knee.  The bootstrap of an odd number of blocks takes its medians   *)
(* among the blocks, and each block alone satisfies the four conditions on *)
(* medians as soon as it is clean, stressed and in the expected            *)
(* directions: so the bootstrap of Stage A cannot fail where the pooled    *)
(* blocks pass.  The coefficients of variation stay opaque.                *)
(*                                                                         *)
(* The report.  The aggregator reads while matrices measure.  What it read *)
(* of a matrix was true when it read it and is true of the matrix still,   *)
(* but for the attestations it has not seen; from that invariant of the    *)
(* disk, the reading and the cells, the report is found true of the disk   *)
(* as it is at that moment.  That comparing neighbours is enough for the   *)
(* reserved rows is a fact about any set of cells: of those that are not   *)
(* sorted before c, the first by its rows is a neighbour of c.             *)
(***************************************************************************)
EXTENDS MCDecisions, SequenceTheorems, WellFoundedInduction, TLAPS

----------------------------------------------------------------------------
(* The two-stage confirmation.                                              *)

SummarySet ==
    [cells : [Repetitions -> Pairs], order : Orders, failed : SUBSET Failing,
     settings : Settings]

Sound(pair) == Clean(pair.low) /\ Stressed(pair) /\ DirectionsAgree(pair)

\* The document of a Stage A that could be read repeats the summary.
Repeats(document, s) ==
    document.failed # {"structure"} =>
        document.cells = s.cells /\ document.order = s.order /\ document.gates = s.failed

StudyInv ==
    /\ pc # "stage A" => stageA \in SummarySet
    /\ pc \in {"stage B", "analyze B", "decided"} =>
          Repeats(published.document, published.summary)
    /\ pc \in {"analyze B", "decided"} => stageB \in SummarySet
    /\ ExtensionRescuesOnlyVariability
    /\ ConfirmedOnPublishedBlocks

\* The blocks of a stage are a sequence.
LEMMA CellsAreSeq ==
    ASSUME NEW s \in SummarySet
    PROVE  /\ s.cells \in Seq(Pairs) /\ Len(s.cells) = Blocks
           /\ DOMAIN s.cells = 1 .. Blocks
           /\ \A b \in 1 .. Blocks : s.cells[b] \in Pairs
<1>1. s.cells \in [1 .. Blocks -> Pairs]
  BY DEF SummarySet, Repetitions
<1> QED BY <1>1, BlocksAssumption DEF BlocksAssumption

\* The condition of the bootstrap on p99 follows from the one on a block.
LEMMA RatioSquared ==
    ASSUME NEW h \in Nat, NEW l \in Nat, l > 0, 4 * h > 5 * l
    PROVE  2 * (h * l + h * l) > 5 * l * l
<1>1. 4 * h >= 5 * l + 1
  OBVIOUS
<1>2. \A x, y \in Nat : x >= y => x * l >= y * l
  OBVIOUS
<1>3. (4 * h) * l >= (5 * l + 1) * l
  BY <1>1, <1>2
<1> QED BY <1>3

\* A sound block satisfies the four conditions as a median of its own.
LEMMA SoundMedian ==
    ASSUME NEW p \in Pairs, Sound(p)
    PROVE  /\ p.low.p99 > 0 /\ p.high.p99 > 0
           /\ Success(p, p) /\ Drain(p, p) /\ Latency(p, p) /\ Useful(p, p)
<1> DEFINE hp == p.high.p99
           lp == p.low.p99
<1>1. /\ hp \in Nat /\ lp \in Nat
      /\ p.high.success \in Nat /\ p.low.success \in Nat
      /\ p.high.drain \in Nat /\ p.low.drain \in Nat
      /\ p.high.useful \in Nat /\ p.low.useful \in Nat
  BY PairsAssumption DEF PairsAssumption
<1>2. hp > 0 /\ lp > 0 /\ 4 * hp > 5 * lp
  BY DEF Sound, Stressed, RatioAbove
<1>3. /\ p.high.success < p.low.success /\ p.high.drain > p.low.drain
      /\ p.high.useful - p.low.useful < 10
  BY DEF Sound, DirectionsAgree
<1>4. Success(p, p) /\ Drain(p, p) /\ Useful(p, p)
  BY <1>1, <1>3 DEF Success, Drain, Useful
<1>5. 2 * (hp * lp + hp * lp) > 5 * lp * lp
  BY <1>1, <1>2, RatioSquared
<1>6. Latency(p, p)
  BY <1>5 DEF Latency
<1> QED BY <1>2, <1>4, <1>6

\* The bootstrap of an odd number of sound blocks passes, however the generator draws.
LEMMA SoundBootstrap ==
    ASSUME NEW s \in SummarySet, \A b \in 1 .. Blocks : Sound(s.cells[b])
    PROVE  BootstrapPasses(s.cells)
<1>1. \A p \in ToSet(s.cells) : p \in Pairs /\ Sound(p)
  BY CellsAreSeq DEF ToSet
<1>2. Medians(s.cells) = {<<p, p>> : p \in ToSet(s.cells)}
  BY CellsAreSeq, BlocksAssumption DEF Medians, BlocksAssumption
<1>3. \A m \in Medians(s.cells) :
          /\ Success(m[1], m[2]) /\ Drain(m[1], m[2])
          /\ Latency(m[1], m[2]) /\ Useful(m[1], m[2])
  <2> TAKE m \in Medians(s.cells)
  <2>1. PICK p \in ToSet(s.cells) : m = <<p, p>>
    BY <1>2
  <2>2. m[1] = p /\ m[2] = p
    BY <2>1
  <2> QED BY <1>1, <2>2, SoundMedian
<1>4. EffectPasses(s.cells, Success) /\ EffectPasses(s.cells, Drain)
  BY <1>3 DEF EffectPasses
<1>5. EffectPasses(s.cells, Latency) /\ EffectPasses(s.cells, Useful)
  BY <1>3 DEF EffectPasses
<1>6. \A p \in ToSet(s.cells) : p.low.p99 > 0 /\ p.high.p99 > 0
  BY <1>1, SoundMedian
<1> QED BY <1>4, <1>5, <1>6 DEF BootstrapPasses

\* A confirmed list of blocks is attributed, and each of its blocks is sound.
LEMMA ConfirmedBlocks ==
    ASSUME NEW pairs, NEW external, StatusOf(Evaluate(MakeBlocks(pairs), external)) = "confirmed"
    PROVE  \A b \in DOMAIN pairs : Sound(pairs[b])
<1> DEFINE blocks == MakeBlocks(pairs)
<1>1. Evaluate(blocks, external) = {}
  BY DEF StatusOf
<1>2. DOMAIN blocks = DOMAIN pairs
  BY DEF MakeBlocks
<1>3. \A b \in DOMAIN pairs :
          /\ blocks[b].clean = Clean(pairs[b].low)
          /\ blocks[b].stressed = Stressed(pairs[b])
          /\ blocks[b].agree = DirectionsAgree(pairs[b])
  BY DEF MakeBlocks, MakeBlock
<1> HIDE DEF blocks
<1>4. \A b \in DOMAIN blocks : blocks[b].clean /\ blocks[b].stressed /\ blocks[b].agree
  BY <1>1 DEF Evaluate
<1> QED BY <1>2, <1>3, <1>4 DEF Sound

\* What fails of a stage whose blocks are sound can only be the variability.
LEMMA OnlyVariability ==
    ASSUME NEW s \in SummarySet, \A b \in 1 .. Blocks : Sound(s.cells[b])
    PROVE  Evaluate(MakeBlocks(s.cells), TRUE) \subseteq {"variability"}
<1> DEFINE blocks == MakeBlocks(s.cells)
           pairs == [b \in DOMAIN blocks |-> blocks[b].pair]
<1>1. DOMAIN blocks = 1 .. Blocks /\ DOMAIN s.cells = 1 .. Blocks
  BY CellsAreSeq DEF MakeBlocks
<1>2. \A b \in 1 .. Blocks :
          /\ blocks[b].pair = s.cells[b]
          /\ blocks[b].clean /\ blocks[b].stressed /\ blocks[b].agree
  BY <1>1 DEF MakeBlocks, MakeBlock, Sound
<1>3. pairs = s.cells
  <2>1. s.cells = [b \in 1 .. Blocks |-> s.cells[b]]
    BY DEF SummarySet, Repetitions
  <2> HIDE DEF blocks
  <2> QED BY <1>1, <1>2, <2>1
<1>4. BootstrapPasses(pairs)
  BY <1>3, SoundBootstrap
<1>5. Evaluate(blocks, TRUE) \subseteq {"variability"}
  <2> HIDE DEF blocks
  <2>1. /\ \A b \in DOMAIN blocks : blocks[b].clean
        /\ \A b \in DOMAIN blocks : blocks[b].stressed
        /\ \A b \in DOMAIN blocks : blocks[b].agree
    BY <1>1, <1>2
  <2> QED BY <2>1, <1>4 DEF Evaluate
<1> QED BY <1>5

\* The document of Stage A, when nothing but the variability can fail.
LEMMA StageADocument ==
    ASSUME NEW s \in SummarySet, Extracts(s), External(s),
           \A b \in 1 .. Blocks : Sound(s.cells[b]),
           AnalyzeFive(s).status = "inconclusive"
    PROVE  /\ AnalyzeFive(s).failed = {"variability"}
           /\ AnalyzeFive(s).cells = s.cells /\ AnalyzeFive(s).order = s.order
           /\ AnalyzeFive(s).gates = s.failed
<1> DEFINE failed == Evaluate(MakeBlocks(s.cells), External(s))
<1>1. External(s) = TRUE
  BY DEF External
<1>2. failed \subseteq {"variability"}
  BY <1>1, OnlyVariability
<1>3. AnalyzeFive(s) =
        [status |-> StatusOf(failed), failed |-> failed, cells |-> s.cells,
         order |-> s.order, gates |-> s.failed]
  BY DEF AnalyzeFive
<1> HIDE DEF failed
<1>4. failed # {}
  BY <1>3 DEF StatusOf
<1>5. failed = {"variability"}
  BY <1>2, <1>4
<1> QED BY <1>3, <1>5

\* Stage A's document names "structure" only when it could not be read.
LEMMA DocumentRepeats ==
    ASSUME NEW s
    PROVE  Repeats(AnalyzeFive(s), s)
<1>1. CASE Extracts(s)
  BY <1>1 DEF AnalyzeFive, Repeats
<1>2. CASE ~Extracts(s)
  BY <1>2 DEF AnalyzeFive, Repeats
<1> QED BY <1>1, <1>2

\* Where two stages of n blocks each are in the pooled sequence.
LEMMA PooledPositions ==
    ASSUME NEW S, NEW x \in Seq(S), NEW y \in Seq(S), NEW n \in Nat, Len(x) = n, Len(y) = n,
           NEW b \in 1 .. n
    PROVE  /\ b \in DOMAIN (x \o y) /\ n + b \in DOMAIN (x \o y)
           /\ (x \o y)[b] = x[b] /\ (x \o y)[n + b] = y[b]
<1>1. /\ b \in 1 .. n + n /\ n + b \in 1 .. n + n
      /\ b <= n /\ ~(n + b <= n) /\ n + b - n = b
  OBVIOUS
<1>2. x \o y \in Seq(S) /\ Len(x \o y) = n + n
  BY ConcatProperties
<1>3. DOMAIN (x \o y) = 1 .. n + n
  BY <1>2
<1>4. \A i \in 1 .. Len(x) + Len(y) :
          (x \o y)[i] = IF i <= Len(x) THEN x[i] ELSE y[i - Len(x)]
  BY ConcatProperties
<1>5. (x \o y)[b] = x[b]
  BY <1>1, <1>4
<1>6. (x \o y)[n + b] = y[b]
  BY <1>1, <1>4
<1> QED BY <1>1, <1>3, <1>5, <1>6

\* A confirming extension pooled two attributed stages of sound blocks, and read the
\* Stage A that was published.
LEMMA ExtensionConfirms ==
    ASSUME stageA \in SummarySet, stageB \in SummarySet,
           Extension(stageA, stageB).status = "confirmed"
    PROVE  /\ Extracts(stageA) /\ PoolingPermitted(stageA, stageB)
           /\ \A b \in 1 .. Blocks : Sound(stageA.cells[b]) /\ Sound(stageB.cells[b])
<1> DEFINE x == stageA.cells
           y == stageB.cells
           pooled == x \o y
<1>1. Extracts(stageA) /\ ExtractsB(stageB) /\ PoolingPermitted(stageA, stageB)
  BY DEF Extension, WithoutPooling
<1>2. StatusOf(Evaluate(MakeBlocks(pooled), TRUE)) = "confirmed"
  BY <1>1 DEF Extension
<1>3. \A i \in DOMAIN pooled : Sound(pooled[i])
  <2> HIDE DEF pooled
  <2> QED BY <1>2, ConfirmedBlocks
<1>4. ASSUME NEW b \in 1 .. Blocks
      PROVE  Sound(stageA.cells[b]) /\ Sound(stageB.cells[b])
  <2>1. /\ x \in Seq(Pairs) /\ Len(x) = Blocks /\ y \in Seq(Pairs) /\ Len(y) = Blocks
        /\ Blocks \in Nat
    BY CellsAreSeq, BlocksAssumption DEF BlocksAssumption
  <2>2. /\ b \in DOMAIN pooled /\ Blocks + b \in DOMAIN pooled
        /\ pooled[b] = x[b] /\ pooled[Blocks + b] = y[b]
    <3> HIDE DEF x, y
    <3> QED BY <2>1, PooledPositions
  <2>3. Sound(x[b]) /\ Sound(y[b])
    <3> HIDE DEF x, y, pooled
    <3> QED BY <1>3, <2>2
  <2> QED BY <2>3
<1> QED BY <1>1, <1>4

----------------------------------------------------------------------------
\* Whatever a sweep leaves is a summary.
LEMMA SweptSummary ==
    ASSUME NEW pairs \in [Repetitions -> Pairs], NEW order, NEW settings,
           NEW s \in Summaries(pairs, order, settings)
    PROVE  s \in SummarySet
<1>1. PICK o \in Orders, failed \in SUBSET Failing, x \in Settings :
          s = Summary(pairs, o, failed, x)
  BY DEF Summaries
<1> QED BY <1>1 DEF Summary, SummarySet

\* No study has begun.
LEMMA StudyInit == Init => StudyInv
BY DEF Init, StudyInv, ExtensionRescuesOnlyVariability, ConfirmedOnPublishedBlocks, Confirmed

\* What the two analyses and the sweeps between them preserve.
LEMMA StudyStep == StudyInv /\ [Next]_vars => StudyInv'
<1> SUFFICES ASSUME StudyInv, [Next]_vars PROVE StudyInv'
  OBVIOUS
<1> USE DEF StudyInv
<1>1. ASSUME MeasureA PROVE StudyInv'
  <2>1. stageA' \in SummarySet
    BY <1>1, SweptSummary DEF MeasureA
  <2>2. pc' = "analyze A"
    BY <1>1 DEF MeasureA
  <2> QED BY <2>1, <2>2
          DEF ExtensionRescuesOnlyVariability, ConfirmedOnPublishedBlocks, Confirmed
<1>2. ASSUME AnalyzeStageA PROVE StudyInv'
  <2>1. /\ pc = "analyze A" /\ pc' = "stage B" /\ stageA' = stageA
        /\ published'.document = AnalyzeFive(stageA) /\ published'.summary = stageA
    BY <1>2 DEF AnalyzeStageA
  <2>2. Repeats(published'.document, published'.summary)
    BY <2>1, DocumentRepeats
  <2>3. Repeats(published.document, published.summary)'
    BY <2>2 DEF Repeats
  <2> QED BY <2>1, <2>3
          DEF ExtensionRescuesOnlyVariability, ConfirmedOnPublishedBlocks, Confirmed
<1>3. ASSUME MeasureB PROVE StudyInv'
  <2>1. stageB' \in SummarySet
    BY <1>3, SweptSummary DEF MeasureB
  <2>2. /\ pc = "stage B" /\ pc' = "analyze B"
        /\ stageA' = stageA /\ published' = published
    BY <1>3 DEF MeasureB
  <2>3. Repeats(published.document, published.summary)'
    BY <2>2 DEF Repeats
  <2> QED BY <2>1, <2>2, <2>3
          DEF ExtensionRescuesOnlyVariability, ConfirmedOnPublishedBlocks, Confirmed
<1>4. ASSUME Resummarize PROVE StudyInv'
  <2>1. /\ pc = "analyze B" /\ pc' = pc
        /\ stageB' = stageB /\ published' = published
    BY <1>4 DEF Resummarize
  <2>2. Repeats(published.document, published.summary)'
    BY <2>1 DEF Repeats
  <2>3. stageA' \in SummarySet
    BY <1>4, <2>1, ZenonT(60) DEF Resummarize, SummarySet
  <2> QED BY <2>1, <2>2, <2>3
          DEF ExtensionRescuesOnlyVariability, ConfirmedOnPublishedBlocks, Confirmed
<1>5. ASSUME AnalyzeExtension PROVE StudyInv'
  <2>1. /\ pc = "analyze B" /\ pc' = "decided" /\ result' = Extension(stageA, stageB)
        /\ stageA' = stageA /\ stageB' = stageB /\ published' = published
    BY <1>5 DEF AnalyzeExtension
  <2>2. stageA \in SummarySet /\ stageB \in SummarySet
    BY <2>1
  <2>3. Repeats(published.document, published.summary)'
    BY <2>1 DEF Repeats
  <2>4. ASSUME result'.status = "confirmed"
        PROVE  /\ published.document.failed = {"variability"}
               /\ published.summary.cells = stageA.cells
               /\ published.summary.order = stageA.order
               /\ published.summary.failed = stageA.failed
    <3>1. /\ Extracts(stageA) /\ PoolingPermitted(stageA, stageB)
          /\ \A b \in 1 .. Blocks : Sound(stageA.cells[b]) /\ Sound(stageB.cells[b])
      BY <2>1, <2>2, <2>4, ExtensionConfirms
    <3>2. /\ AnalyzeFive(stageA) = published.document
          /\ AnalyzeFive(stageA).status = "inconclusive" /\ External(stageA)
      BY <3>1 DEF PoolingPermitted
    <3>3. /\ published.document.failed = {"variability"}
          /\ published.document.cells = stageA.cells
          /\ published.document.order = stageA.order
          /\ published.document.gates = stageA.failed
      BY <2>2, <3>1, <3>2, StageADocument
    <3>4. Repeats(published.document, published.summary)
      BY <2>1
    <3> QED BY <3>3, <3>4 DEF Repeats
  <2>5. ExtensionRescuesOnlyVariability'
    BY <2>1, <2>4 DEF ExtensionRescuesOnlyVariability, Confirmed
  <2>6. ConfirmedOnPublishedBlocks'
    <3> SUFFICES ASSUME result'.status = "confirmed"
                 PROVE  /\ stageA.cells = published.summary.cells
                        /\ stageA.settings = stageB.settings
                        /\ \A s \in {published.summary, stageB} :
                              s.failed = {} /\ \A b \in Repetitions :
                                  Clean(s.cells[b].low) /\ Stressed(s.cells[b])
                        /\ published.summary.order = ExpectedOrder
                        /\ stageB.order = StageBOrder
      BY <2>1 DEF ConfirmedOnPublishedBlocks, Confirmed
    <3>1. /\ PoolingPermitted(stageA, stageB)
          /\ \A b \in 1 .. Blocks : Sound(stageA.cells[b]) /\ Sound(stageB.cells[b])
      BY <2>1, <2>2, ExtensionConfirms
    <3>2. /\ External(stageA) /\ ExternalB(stageB)
          /\ stageA.settings = stageB.settings
      BY <3>1 DEF PoolingPermitted, CrossStage
    <3>3. stageB.failed = {} /\ stageB.order = StageBOrder
      BY <2>2, <3>2 DEF ExternalB, External, Adapted, SummarySet
    <3>4. published.summary.failed = {} /\ published.summary.order = ExpectedOrder
      BY <2>4, <3>2 DEF External
    <3>5. \A b \in Repetitions :
              /\ Clean(published.summary.cells[b].low) /\ Stressed(published.summary.cells[b])
              /\ Clean(stageB.cells[b].low) /\ Stressed(stageB.cells[b])
      BY <2>4, <3>1 DEF Repetitions, Sound
    <3> QED BY <2>4, <3>2, <3>3, <3>4, <3>5
  <2> QED BY <2>1, <2>2, <2>3, <2>5, <2>6
<1>6. ASSUME UNCHANGED vars PROVE StudyInv'
  BY <1>6 DEF vars, Repeats, ExtensionRescuesOnlyVariability, ConfirmedOnPublishedBlocks,
       Confirmed
<1> QED BY <1>1, <1>2, <1>3, <1>4, <1>5, <1>6 DEF Next

THEOREM StudyInvariant == Spec => []StudyInv
<1> QED BY StudyInit, StudyStep, PTL DEF Spec

\* The extension confirms only a study whose first stage failed by its variability
\* alone: the bootstrap of Stage A decides nothing (the analyzers' _evaluate).
THEOREM OnlyVariabilityIsRescued == Spec => []ExtensionRescuesOnlyVariability
<1>1. StudyInv => ExtensionRescuesOnlyVariability
  BY DEF StudyInv
<1> QED BY <1>1, StudyInvariant, PTL

\* A confirmed knee was computed on the blocks that Stage A was first decided on,
\* whatever was written over its summary since, and on Stage B's, all of them clean and
\* stressed; the two summaries that were pooled have the same settings (the extension's
\* pooling_checks).
THEOREM PublishedBlocksConfirm == Spec => []ConfirmedOnPublishedBlocks
<1>1. StudyInv => ConfirmedOnPublishedBlocks
  BY DEF StudyInv
<1> QED BY <1>1, StudyInvariant, PTL

----------------------------------------------------------------------------
(* The aggregation: what the disk, the reading and the cells always are.    *)

Matrices == Aggregation!Matrices

\* The disk: what is attested was measured and found sound; a line that is being
\* written is of a cell that was.
SoundCell(m, i) == dir[m][i] = "whole" /\ measured[m][i].sound

DiskInv ==
    /\ plan \in Plans
    /\ DOMAIN dir = Matrices /\ DOMAIN measured = Matrices /\ DOMAIN attested = Matrices
    /\ DOMAIN torn = Matrices /\ DOMAIN status = Matrices
    /\ \A m \in Matrices :
          /\ DOMAIN dir[m] = DOMAIN plan[m] /\ DOMAIN measured[m] = DOMAIN plan[m]
          /\ attested[m] \subseteq DOMAIN plan[m]
          /\ \A i \in attested[m] : SoundCell(m, i)
          /\ torn[m] => attested[m] # DOMAIN plan[m]
                        /\ \A i : i = Aggregation!Current(m) => SoundCell(m, i)
          /\ status[m] \in {"running", "completed", "aborted"}

\* What the aggregator has read was true, and stays so once the matrix has ended: of
\* attestations that were read then, none is missing but for a torn last line.
ReadInv ==
    /\ DOMAIN read = Matrices
    /\ \A m \in Matrices :
          /\ DOMAIN read[m] = {"attested", "status", "early"}
          /\ read[m].attested \subseteq attested[m]
          /\ read[m].status # "running" => status[m] = read[m].status
          /\ ~read[m].early =>
                /\ status[m] # "running"
                /\ read[m].attested = IF torn[m] THEN {} ELSE attested[m]

Places == {"attestations", "status", "contract", "cells", "report", "done"}

\* What it has made of each cell.
CellsInv ==
    /\ DOMAIN cells = Matrices
    /\ rpc[1] \in Places
    /\ rpc[1] \in {"attestations", "status", "cells"} => rpc[2] \in 1 .. Len(Sources)
    /\ \A m \in Matrices :
          /\ cells[m] \in Seq(Range(cells[m])) /\ Len(cells[m]) <= Len(plan[m])
          /\ rpc[1] \in {"attestations", "status", "contract"} => cells[m] = <<>>
          /\ \A i \in DOMAIN cells[m] :
                /\ cells[m][i].valid <=> i \in read[m].attested
                /\ cells[m][i].state = "complete" => i \in read[m].attested
                /\ cells[m][i].state = "abandoned" =>
                      Aggregation!Merging /\ read[m].status = "aborted" /\ dir[m][i] = "absent"

\* A plan names its cells by number.
LEMMA PlanShape ==
    ASSUME plan \in Plans, NEW m \in Matrices
    PROVE  /\ Len(plan[m]) \in Nat /\ DOMAIN plan[m] = 1 .. Len(plan[m])
           /\ \A i \in DOMAIN plan[m] : plan[m][i].from \in Int /\ plan[m][i].to \in Int
<1>1. m \in Range(Sources)
  BY DEF Matrices, Aggregation!Matrices, Aggregation!Range, Range
<1>2. plan[m] \in Seq(Range(plan[m]))
      /\ \A row \in Range(plan[m]) : row.from \in Int /\ row.to \in Int
  BY <1>1, MatrixConstants DEF MatrixConstants
<1>. QED
  BY <1>2 DEF Range

\* The matrices of the command line are numbered from one.
LEMMA SourceShape ==
    /\ Len(Sources) \in Nat \ {0} /\ DOMAIN Sources = 1 .. Len(Sources)
    /\ \A k \in 1 .. Len(Sources) : Sources[k] \in Matrices
<1>1. Sources \in Seq(Range(Sources)) /\ Sources # <<>>
  BY MatrixConstants DEF MatrixConstants
<1>2. Matrices = Range(Sources)
  BY DEF Matrices, Aggregation!Matrices, Aggregation!Range, Range
<1>. QED
  BY <1>1, <1>2 DEF Range

\* A non-empty set of numbers has a least one.
LEMMA LeastNumber ==
    ASSUME NEW S \in SUBSET Nat, S # {}
    PROVE  \E n \in S : \A k \in S : n <= k
<1>1. \E n \in S : \A m \in S : ~(<<m, n>> \in OpToRel(<, Nat))
  BY NatLessThanWellFounded, WFMin
<1>2. PICK n \in S : \A m \in S : ~(m < n)
  BY <1>1 DEF OpToRel
<1>. QED
  BY <1>2

\* The cell that a matrix is at is planned and not attested.
LEMMA CurrentShape ==
    ASSUME DiskInv, NEW m \in Matrices, attested[m] # DOMAIN plan[m]
    PROVE  /\ Aggregation!Current(m) \in DOMAIN plan[m]
           /\ Aggregation!Current(m) \notin attested[m]
<1> DEFINE left == {i \in DOMAIN plan[m] : i \notin attested[m]}
<1>1. left \in SUBSET Nat
  BY PlanShape DEF DiskInv
<1>2. left # {}
  BY DEF DiskInv
<1>3. Aggregation!Current(m) = CHOOSE x \in left : \A y \in left : x <= y
  BY DEF Aggregation!Current, Aggregation!Min
<1>4. \E x \in left : \A y \in left : x <= y
  <2> HIDE DEF left
  <2>. QED
    BY <1>1, <1>2, LeastNumber
<1>. QED
  <2> HIDE DEF left
  <2>1. Aggregation!Current(m) \in left
    BY <1>3, <1>4
  <2>. QED
    BY <2>1 DEF left

AggInv == DiskInv /\ ReadInv /\ CellsInv

\* A step of matrix m that goes on measuring, or ends, disturbs nothing that was read.
LEMMA RunLeavesReading ==
    ASSUME AggInv, NEW m \in Matrices,
           UNCHANGED <<plan, rpc, read, cells>>,
           DOMAIN attested' = Matrices, \A n \in Matrices : attested[n] \subseteq attested'[n],
           DOMAIN status' = Matrices, DOMAIN dir' = Matrices,
           \A n \in Matrices : status[n] # "running" => status'[n] = status[n],
           \A n \in Matrices : status[n] # "running" =>
               /\ torn'[n] = torn[n] /\ attested'[n] = attested[n]
               /\ \A i : dir'[n][i] = dir[n][i]
    PROVE  ReadInv' /\ CellsInv'
<1>1. ReadInv'
  BY DEF AggInv, ReadInv
<1>2. \A n \in Matrices : \A i \in DOMAIN cells[n] :
        cells[n][i].state = "abandoned" =>
            Aggregation!Merging /\ read[n].status = "aborted" /\ dir'[n][i] = "absent"
  <2> SUFFICES ASSUME NEW n \in Matrices, NEW i \in DOMAIN cells[n],
                      cells[n][i].state = "abandoned"
               PROVE  Aggregation!Merging /\ read[n].status = "aborted" /\ dir'[n][i] = "absent"
    OBVIOUS
  <2>1. Aggregation!Merging /\ read[n].status = "aborted" /\ dir[n][i] = "absent"
    BY DEF AggInv, CellsInv
  <2>2. status[n] = "aborted"
    BY <2>1 DEF AggInv, ReadInv
  <2>. QED
    BY <2>1, <2>2
<1>3. Aggregation!Merging' <=> Aggregation!Merging
  BY DEF Aggregation!Merging
<1>4. CellsInv'
  BY <1>2, <1>3 DEF AggInv, CellsInv
<1>. QED
  BY <1>1, <1>4

\* A step of a matrix: the cell it is at is the one whose directory changes, and a
\* cell is attested only while its directory is whole.
LEMMA MatrixRunPreserves ==
    ASSUME AggInv, NEW m \in Matrices, Aggregation!MatrixRun(m)
    PROVE  AggInv'
<1> USE DEF Aggregation!aggregator
<1>0. m \in Matrices /\ DiskInv
  BY DEF AggInv
<1>a. ASSUME UNCHANGED <<plan, attested>>, NEW n \in Matrices
      PROVE  Aggregation!Current(n)' = Aggregation!Current(n)
  BY <1>a DEF Aggregation!Current
<1>1. CASE Aggregation!BeginCell(m)
  <2>1. /\ status[m] = "running" /\ attested[m] # DOMAIN plan[m]
        /\ dir[m][Aggregation!Current(m)] = "absent"
        /\ dir' = [dir EXCEPT ![m][Aggregation!Current(m)] = "begun"]
        /\ UNCHANGED <<plan, measured, attested, torn, status, rpc, read, cells>>
    BY <1>1 DEF Aggregation!BeginCell, Aggregation!Measuring
  <2> DEFINE at == Aggregation!Current(m)
  <2>2. at \in DOMAIN plan[m] /\ at \notin attested[m]
    BY <1>0, <2>1, CurrentShape
  <2>3. \A n \in Matrices : Aggregation!Current(n)' = Aggregation!Current(n)
    BY <1>a, <2>1
  <2> HIDE DEF at
  <2>4. dir[m][at] = "absent" /\ dir' = [dir EXCEPT ![m][at] = "begun"]
    BY <2>1 DEF at
  <2>5. DOMAIN dir' = Matrices /\ \A n \in Matrices : DOMAIN dir'[n] = DOMAIN plan[n]
    BY <1>0, <2>4 DEF DiskInv
  <2>6. ASSUME NEW n \in Matrices, NEW i \in DOMAIN plan[n], SoundCell(n, i)
        PROVE  SoundCell(n, i)'
    BY <1>0, <2>1, <2>4, <2>6 DEF DiskInv, SoundCell
  <2>7. ~torn[m]
    BY <1>0, <2>4 DEF DiskInv, SoundCell, at
  <2>8. \A n \in Matrices : n # m => dir'[n] = dir[n]
    BY <1>0, <2>4 DEF DiskInv
  <2>9. \A n \in Matrices : torn'[n] =>
            /\ attested'[n] # DOMAIN plan'[n]
            /\ \A i : i = Aggregation!Current(n)' => SoundCell(n, i)'
    <3> SUFFICES ASSUME NEW n \in Matrices, torn'[n]
                 PROVE  /\ attested[n] # DOMAIN plan[n]
                        /\ SoundCell(n, Aggregation!Current(n))'
      BY <2>1, <2>3
    <3>1. torn[n] /\ n # m /\ attested[n] # DOMAIN plan[n]
          /\ SoundCell(n, Aggregation!Current(n))
      BY <1>0, <2>1, <2>7 DEF DiskInv
    <3>. QED
      BY <2>1, <2>3, <2>8, <3>1 DEF SoundCell
  <2>10. DiskInv'
    BY <1>0, <2>1, <2>5, <2>6, <2>9 DEF DiskInv
  <2>11. ReadInv' /\ CellsInv'
    BY <1>0, <2>1, <2>5, <2>8, RunLeavesReading DEF DiskInv
  <2>. QED
    BY <2>10, <2>11 DEF AggInv
<1>2. CASE Aggregation!MeasureCell(m)
  <2>1. /\ status[m] = "running" /\ attested[m] # DOMAIN plan[m]
        /\ dir[m][Aggregation!Current(m)] = "begun"
        /\ dir' = [dir EXCEPT ![m][Aggregation!Current(m)] = "whole"]
        /\ \E outcome : measured' = [measured EXCEPT ![m][Aggregation!Current(m)] = outcome]
        /\ UNCHANGED <<plan, attested, torn, status, rpc, read, cells>>
    BY <1>2 DEF Aggregation!MeasureCell, Aggregation!Measuring
  <2> DEFINE at == Aggregation!Current(m)
  <2>2. at \in DOMAIN plan[m] /\ at \notin attested[m]
    BY <1>0, <2>1, CurrentShape
  <2>3. \A n \in Matrices : Aggregation!Current(n)' = Aggregation!Current(n)
    BY <1>a, <2>1
  <2> HIDE DEF at
  <2>4. /\ dir[m][at] = "begun" /\ dir' = [dir EXCEPT ![m][at] = "whole"]
        /\ \E outcome : measured' = [measured EXCEPT ![m][at] = outcome]
    BY <2>1 DEF at
  <2>5. /\ DOMAIN dir' = Matrices /\ DOMAIN measured' = Matrices
        /\ \A n \in Matrices : DOMAIN dir'[n] = DOMAIN plan[n] /\ DOMAIN measured'[n] = DOMAIN plan[n]
    BY <1>0, <2>4 DEF DiskInv
  <2>6. ASSUME NEW n \in Matrices, NEW i \in DOMAIN plan[n], SoundCell(n, i)
        PROVE  SoundCell(n, i)'
    <3>1. ~(n = m /\ i = at)
      BY <2>4, <2>6 DEF SoundCell
    <3>2. dir'[n][i] = dir[n][i] /\ measured'[n][i] = measured[n][i]
      BY <1>0, <2>4, <3>1 DEF DiskInv
    <3>. QED
      BY <2>6, <3>2 DEF SoundCell
  <2>7. ~torn[m]
    BY <1>0, <2>4 DEF DiskInv, SoundCell, at
  <2>8. \A n \in Matrices : n # m => dir'[n] = dir[n] /\ measured'[n] = measured[n]
    BY <1>0, <2>4 DEF DiskInv
  <2>9. \A n \in Matrices : torn'[n] =>
            /\ attested'[n] # DOMAIN plan'[n]
            /\ \A i : i = Aggregation!Current(n)' => SoundCell(n, i)'
    <3> SUFFICES ASSUME NEW n \in Matrices, torn'[n]
                 PROVE  /\ attested[n] # DOMAIN plan[n]
                        /\ \A i : i = Aggregation!Current(n) => SoundCell(n, i)'
      BY <2>1, <2>3
    <3>1. torn[n] /\ n # m /\ attested[n] # DOMAIN plan[n]
          /\ SoundCell(n, Aggregation!Current(n))
      BY <1>0, <2>1, <2>7 DEF DiskInv
    <3>. QED
      BY <2>8, <3>1 DEF SoundCell
  <2>10. DiskInv'
    BY <1>0, <2>1, <2>5, <2>6, <2>9 DEF DiskInv
  <2>11. ReadInv' /\ CellsInv'
    BY <1>0, <2>1, <2>5, <2>8, RunLeavesReading DEF DiskInv
  <2>. QED
    BY <2>10, <2>11 DEF AggInv
<1>3. CASE Aggregation!AppendResult(m)
  <2>1. /\ status[m] = "running" /\ attested[m] # DOMAIN plan[m]
        /\ SoundCell(m, Aggregation!Current(m))
        /\ torn' = [torn EXCEPT ![m] = TRUE]
        /\ UNCHANGED <<plan, dir, measured, attested, status, rpc, read, cells>>
    BY <1>3 DEF Aggregation!AppendResult, Aggregation!Measuring, SoundCell
  <2>2. \A n \in Matrices : Aggregation!Current(n)' = Aggregation!Current(n)
    BY <1>a, <2>1
  <2>3. \A n, i : SoundCell(n, i)' <=> SoundCell(n, i)
    BY <2>1 DEF SoundCell
  <2>4. \A n \in Matrices : torn'[n] =>
            /\ attested'[n] # DOMAIN plan'[n]
            /\ \A i : i = Aggregation!Current(n)' => SoundCell(n, i)'
    <3> SUFFICES ASSUME NEW n \in Matrices, torn'[n]
                 PROVE  /\ attested[n] # DOMAIN plan[n]
                        /\ SoundCell(n, Aggregation!Current(n))
      BY <2>1, <2>2, <2>3
    <3>1. CASE n = m
      BY <2>1, <3>1
    <3>2. CASE n # m
      BY <1>0, <2>1, <3>2 DEF DiskInv
    <3>. QED
      BY <3>1, <3>2
  <2>5. DiskInv'
    BY <1>0, <2>1, <2>3, <2>4 DEF DiskInv
  <2>6. ReadInv' /\ CellsInv'
    BY <1>0, <2>1, RunLeavesReading DEF DiskInv
  <2>. QED
    BY <2>5, <2>6 DEF AggInv
<1>4. CASE Aggregation!Attest(m)
  <2>1. /\ status[m] = "running" /\ attested[m] # DOMAIN plan[m] /\ torn[m]
        /\ torn' = [torn EXCEPT ![m] = FALSE]
        /\ attested' = [attested EXCEPT ![m] = @ \cup {Aggregation!Current(m)}]
        /\ UNCHANGED <<plan, dir, measured, status, rpc, read, cells>>
    BY <1>4 DEF Aggregation!Attest, Aggregation!Measuring
  <2>2. Aggregation!Current(m) \in DOMAIN plan[m] /\ SoundCell(m, Aggregation!Current(m))
    BY <1>0, <2>1, CurrentShape DEF DiskInv
  <2>3. \A n, i : SoundCell(n, i)' <=> SoundCell(n, i)
    BY <2>1 DEF SoundCell
  <2>4. /\ DOMAIN attested' = Matrices /\ DOMAIN torn' = Matrices
        /\ \A n \in Matrices :
              /\ attested[n] \subseteq attested'[n] /\ attested'[n] \subseteq DOMAIN plan[n]
              /\ \A i \in attested'[n] : SoundCell(n, i)
    BY <1>0, <2>1, <2>2 DEF DiskInv
  <2>5. ASSUME NEW n \in Matrices, n # m
        PROVE  Aggregation!Current(n)' = Aggregation!Current(n)
    <3>1. attested'[n] = attested[n] /\ plan' = plan
      BY <1>0, <2>1, <2>5 DEF DiskInv
    <3>. QED
      BY <3>1 DEF Aggregation!Current
  <2>6. \A n \in Matrices : torn'[n] =>
            /\ attested'[n] # DOMAIN plan'[n]
            /\ \A i : i = Aggregation!Current(n)' => SoundCell(n, i)'
    <3> SUFFICES ASSUME NEW n \in Matrices, torn'[n]
                 PROVE  /\ attested'[n] # DOMAIN plan[n]
                        /\ \A i : i = Aggregation!Current(n)' => SoundCell(n, i)
      BY <2>1, <2>3
    <3>1. n # m /\ torn[n] /\ attested'[n] = attested[n]
      BY <1>0, <2>1 DEF DiskInv
    <3>. QED
      BY <1>0, <2>5, <3>1 DEF DiskInv
  <2>7. DiskInv'
    BY <1>0, <2>1, <2>3, <2>4, <2>6 DEF DiskInv
  <2>8. ReadInv' /\ CellsInv'
    BY <1>0, <2>1, <2>4, RunLeavesReading DEF DiskInv
  <2>. QED
    BY <2>7, <2>8 DEF AggInv
<1>5. CASE Aggregation!End(m)
  <2>1. /\ status[m] = "running"
        /\ \E last \in {"completed", "aborted"} : status' = [status EXCEPT ![m] = last]
        /\ UNCHANGED <<plan, dir, measured, attested, torn, rpc, read, cells>>
    BY <1>5 DEF Aggregation!End
  <2>2. \A n \in Matrices : Aggregation!Current(n)' = Aggregation!Current(n)
    BY <1>a, <2>1
  <2>3. \A n, i : SoundCell(n, i)' <=> SoundCell(n, i)
    BY <2>1 DEF SoundCell
  <2>4. /\ DOMAIN status' = Matrices
        /\ \A n \in Matrices : status'[n] \in {"running", "completed", "aborted"}
        /\ \A n \in Matrices : status[n] # "running" => status'[n] = status[n]
    BY <1>0, <2>1 DEF DiskInv
  <2>5. DiskInv'
    BY <1>0, <2>1, <2>2, <2>3, <2>4 DEF DiskInv
  <2>6. ReadInv' /\ CellsInv'
    BY <1>0, <2>1, <2>4, RunLeavesReading DEF DiskInv
  <2>. QED
    BY <2>5, <2>6 DEF AggInv
<1>. QED
  BY <1>1, <1>2, <1>3, <1>4, <1>5 DEF Aggregation!MatrixRun
\* A step of the aggregator: it reads the attestations of a matrix before its status,
\* and analyzes each cell with both.
LEMMA AggregatePreserves ==
    ASSUME AggInv, Aggregation!Aggregate
    PROVE  AggInv'
<1> USE DEF Aggregation!disk
<1>0. DiskInv /\ ReadInv /\ CellsInv
  BY DEF AggInv
<1>1. Len(Sources) \in Nat \ {0} /\ \A k \in 1 .. Len(Sources) : Sources[k] \in Matrices
  BY SourceShape
<1>a. ASSUME UNCHANGED <<plan, dir, measured, attested, torn, status>> PROVE DiskInv'
  <2>1. \A n, i : SoundCell(n, i)' <=> SoundCell(n, i)
    BY <1>a DEF SoundCell
  <2>2. \A n \in Matrices : Aggregation!Current(n)' = Aggregation!Current(n)
    BY <1>a DEF Aggregation!Current
  <2>. QED
    BY <1>0, <1>a, <2>1, <2>2 DEF DiskInv
<1>b. Aggregation!Merging' <=> Aggregation!Merging
  BY DEF Aggregation!Merging
<1>2. CASE Aggregation!ReadAttestations
  <2> DEFINE m == Sources[rpc[2]]
  <2>1. /\ rpc[1] = "attestations" /\ rpc' = <<"status", rpc[2]>>
        /\ read' = [read EXCEPT ![m].attested = IF torn[m] THEN {} ELSE attested[m],
                                ![m].early = status[m] = "running"]
        /\ UNCHANGED <<plan, dir, measured, attested, torn, status, cells>>
    BY <1>2 DEF Aggregation!ReadAttestations, Aggregation!At, Aggregation!Source
  <2>2. rpc[2] \in 1 .. Len(Sources) /\ m \in Matrices
    BY <1>0, <1>1, <2>1 DEF CellsInv
  <2> HIDE DEF m
  <2>3. /\ DOMAIN read' = Matrices
        /\ \A n \in Matrices : n # m => read'[n] = read[n]
    BY <1>0, <2>1, <2>2 DEF ReadInv
  <2>4. ReadInv'
    <3>1. read'[m].attested = IF torn[m] THEN {} ELSE attested[m]
      BY <1>0, <2>1, <2>2 DEF ReadInv
    <3>2. DOMAIN read'[m] = DOMAIN read[m] /\ read'[m].status = read[m].status
      BY <1>0, <2>1, <2>2 DEF ReadInv
    <3>3. ~read'[m].early => status[m] # "running"
      BY <1>0, <2>1, <2>2 DEF ReadInv
    <3>. QED
      BY <1>0, <2>1, <2>3, <3>1, <3>2, <3>3 DEF ReadInv
  <2>5. rpc'[1] = "status" /\ rpc'[2] = rpc[2] /\ \A n \in Matrices : cells'[n] = <<>>
    BY <1>0, <2>1 DEF CellsInv
  <2>6. CellsInv'
    BY <1>0, <2>1, <2>2, <2>5 DEF CellsInv, Places
  <2>. QED
    BY <1>a, <2>1, <2>4, <2>6 DEF AggInv
<1>3. CASE Aggregation!ReadStatus
  <2> DEFINE m == Sources[rpc[2]]
  <2>1. /\ rpc[1] = "status"
        /\ read' = [read EXCEPT ![m].status = status[m]]
        /\ rpc' = IF rpc[2] < Len(Sources) THEN <<"attestations", rpc[2] + 1>> ELSE <<"contract", 1>>
        /\ UNCHANGED <<plan, dir, measured, attested, torn, status, cells>>
    BY <1>3 DEF Aggregation!ReadStatus, Aggregation!At, Aggregation!Source, Aggregation!NextSource
  <2>2. rpc[2] \in 1 .. Len(Sources) /\ m \in Matrices
    BY <1>0, <1>1, <2>1 DEF CellsInv
  <2> HIDE DEF m
  <2>3. /\ DOMAIN read' = Matrices
        /\ \A n \in Matrices : /\ read'[n].attested = read[n].attested
                               /\ read'[n].early = read[n].early
                               /\ read'[n].status \in {read[n].status, status[n]}
    BY <1>0, <2>1, <2>2 DEF ReadInv
  <2>4. ReadInv'
    BY <1>0, <2>1, <2>3 DEF ReadInv
  <2>5. /\ rpc'[1] \in {"attestations", "contract"}
        /\ rpc'[1] = "attestations" => rpc'[2] \in 1 .. Len(Sources)
    BY <1>1, <2>1, <2>2
  <2>6. \A n \in Matrices : cells'[n] = <<>>
    BY <1>0, <2>1 DEF CellsInv
  <2>7. CellsInv'
    BY <1>0, <2>1, <2>5, <2>6 DEF CellsInv, Places
  <2>. QED
    BY <1>a, <2>1, <2>4, <2>7 DEF AggInv
<1>4. CASE Aggregation!CheckMatrices
  <2>1. /\ rpc[1] = "contract" /\ rpc' \in {<<"cells", 1>>, <<"done", 1>>}
        /\ UNCHANGED <<plan, dir, measured, attested, torn, status, read, cells>>
    BY <1>4 DEF Aggregation!CheckMatrices, Aggregation!At, Aggregation!Refuse
  <2>2. rpc'[1] \in {"cells", "done"} /\ rpc'[2] \in 1 .. Len(Sources)
    BY <1>1, <2>1
  <2>3. ReadInv'
    BY <1>0, <2>1 DEF ReadInv
  <2>4. CellsInv'
    BY <1>0, <1>b, <2>1, <2>2 DEF CellsInv, Places
  <2>. QED
    BY <1>a, <2>1, <2>3, <2>4 DEF AggInv
<1>5. CASE Aggregation!ReadCells
  <2> DEFINE m == Sources[rpc[2]]
             i == Len(cells[m]) + 1
             found == Aggregation!Analyzed(m, i)
  <2>1. /\ rpc[1] = "cells"
        /\ UNCHANGED <<plan, dir, measured, attested, torn, status, read>>
    BY <1>5 DEF Aggregation!ReadCells, Aggregation!At
  <2>2. rpc[2] \in 1 .. Len(Sources) /\ m \in Matrices /\ rpc[2] \in Nat
    BY <1>0, <1>1, <2>1 DEF CellsInv
  <2>3. ReadInv'
    BY <1>0, <2>1 DEF ReadInv
  <2>4. CASE Len(cells[m]) < Len(plan[m])
    <3>1. cells' = [cells EXCEPT ![m] = Append(cells[m], found)] /\ rpc' = rpc
      BY <1>5, <2>4 DEF Aggregation!ReadCells, Aggregation!Source
    <3>2. /\ cells[m] \in Seq(Range(cells[m])) /\ Len(cells[m]) \in Nat
          /\ Len(plan[m]) \in Nat /\ DOMAIN plan[m] = 1 .. Len(plan[m])
      BY <1>0, <2>2, PlanShape DEF CellsInv, DiskInv
    <3>4. i \in read[m].attested => dir[m][i] = "whole" /\ measured[m][i].sound
      BY <1>0, <2>2 DEF DiskInv, ReadInv, SoundCell
    <3>5. /\ found.valid <=> i \in read[m].attested
          /\ found.state = "complete" => i \in read[m].attested
          /\ found.state = "abandoned" =>
                Aggregation!Merging /\ read[m].status = "aborted" /\ dir[m][i] = "absent"
      BY <3>4 DEF Aggregation!Analyzed
    <3> HIDE DEF found, m
    <3>6. /\ DOMAIN cells' = Matrices /\ cells'[m] = Append(cells[m], found)
          /\ \A n \in Matrices : n # m => cells'[n] = cells[n]
      BY <1>0, <2>2, <3>1 DEF CellsInv
    <3>7. /\ Append(cells[m], found) \in Seq(Range(cells[m]) \cup {found})
          /\ Len(Append(cells[m], found)) = i /\ DOMAIN Append(cells[m], found) = 1 .. i
          /\ Append(cells[m], found)[i] = found
          /\ \A k \in 1 .. Len(cells[m]) : Append(cells[m], found)[k] = cells[m][k]
          /\ DOMAIN cells[m] = 1 .. Len(cells[m])
      <4>1. cells[m] \in Seq(Range(cells[m]) \cup {found}) /\ found \in Range(cells[m]) \cup {found}
        BY <3>2
      <4> HIDE DEF i
      <4>2. i = Len(cells[m]) + 1
        BY DEF i
      <4>. QED
        BY <4>1, <4>2
    <3>8. cells'[m] \in Seq(Range(cells'[m])) /\ Len(cells'[m]) <= Len(plan[m])
      <4>1. Append(cells[m], found) \in Seq(Range(Append(cells[m], found)))
        BY <3>7, SeqOfRange
      <4>. QED
        BY <2>4, <3>2, <3>6, <3>7, <4>1
    <3>9. ASSUME NEW k \in DOMAIN cells'[m]
          PROVE  /\ cells'[m][k].valid <=> k \in read[m].attested
                 /\ cells'[m][k].state = "complete" => k \in read[m].attested
                 /\ cells'[m][k].state = "abandoned" =>
                       Aggregation!Merging /\ read[m].status = "aborted" /\ dir[m][k] = "absent"
      <4>1. CASE k = i
        BY <3>5, <3>6, <3>7, <4>1
      <4>2. CASE k \in DOMAIN cells[m] /\ k # i
        <5>1. cells'[m][k] = cells[m][k]
          BY <3>6, <3>7, <4>2
        <5>. QED
          BY <1>0, <2>2, <4>2, <5>1 DEF CellsInv
      <4>. QED
        BY <3>2, <3>6, <3>7, <4>1, <4>2
    <3>10. rpc'[1] = "cells" /\ rpc'[2] = rpc[2] /\ rpc'[2] \in 1 .. Len(Sources)
      BY <2>1, <2>2, <3>1
    <3>11. ASSUME NEW n \in Matrices
           PROVE  /\ cells'[n] \in Seq(Range(cells'[n])) /\ Len(cells'[n]) <= Len(plan[n])
                  /\ \A k \in DOMAIN cells'[n] :
                        /\ cells'[n][k].valid <=> k \in read[n].attested
                        /\ cells'[n][k].state = "complete" => k \in read[n].attested
                        /\ cells'[n][k].state = "abandoned" =>
                              Aggregation!Merging /\ read[n].status = "aborted" /\ dir[n][k] = "absent"
      <4>1. CASE n = m
        BY <3>8, <3>9, <4>1
      <4>2. CASE n # m
        <5>1. cells'[n] = cells[n]
          BY <3>6, <4>2
        <5>. QED
          BY <1>0, <5>1 DEF CellsInv
      <4>. QED
        BY <4>1, <4>2
    <3>12. CellsInv'
      BY <1>b, <2>1, <3>6, <3>10, <3>11 DEF CellsInv, Places
    <3>. QED
      BY <1>a, <2>1, <2>3, <3>12 DEF AggInv
  <2>5. CASE ~(Len(cells[m]) < Len(plan[m]))
    <3>1. rpc' = (IF rpc[2] < Len(Sources) THEN <<"cells", rpc[2] + 1>> ELSE <<"report", 1>>)
          /\ cells' = cells
      BY <1>5, <2>5 DEF Aggregation!ReadCells, Aggregation!Source
    <3>2. /\ rpc'[1] \in {"cells", "report"}
          /\ rpc'[1] = "cells" => rpc'[2] \in 1 .. Len(Sources)
      BY <1>1, <2>2, <3>1
    <3>3. CellsInv'
      BY <1>0, <1>b, <2>1, <3>1, <3>2 DEF CellsInv, Places
    <3>. QED
      BY <1>a, <2>1, <2>3, <3>3 DEF AggInv
  <2>. QED
    BY <2>4, <2>5
<1>6. CASE Aggregation!Report
  <2>1. /\ rpc[1] = "report" /\ rpc' = <<"done", 1>>
        /\ UNCHANGED <<plan, dir, measured, attested, torn, status, read, cells>>
    BY <1>6 DEF Aggregation!Report, Aggregation!At, Aggregation!Refuse
  <2>2. rpc'[1] = "done"
    BY <2>1
  <2>3. ReadInv'
    BY <1>0, <2>1 DEF ReadInv
  <2>4. CellsInv'
    BY <1>0, <1>b, <2>1, <2>2 DEF CellsInv, Places
  <2>. QED
    BY <1>a, <2>1, <2>3, <2>4 DEF AggInv
<1>. QED
  BY <1>2, <1>3, <1>4, <1>5, <1>6 DEF Aggregation!Aggregate

Counted == Aggregation!Counted
Row(c) == Aggregation!Row(c)
Settled(c) == Aggregation!Settled(c)

\* A cell is of a matrix, which plans it.
LEMMA CellShape ==
    ASSUME AggInv, NEW c \in Aggregation!AllCells
    PROVE  /\ c[1] \in Matrices /\ c[2] \in DOMAIN cells[c[1]] /\ c[2] \in DOMAIN plan[c[1]]
           /\ Row(c).from \in Int /\ Row(c).to \in Int
<1>1. PICK m \in Matrices : c \in {m} \X DOMAIN cells[m]
  BY DEF Aggregation!AllCells, Matrices
<1>2. c[1] = m /\ c[2] \in DOMAIN cells[m]
  BY <1>1
<1>3. DOMAIN cells[m] = 1 .. Len(cells[m]) /\ Len(cells[m]) \in Nat /\ Len(cells[m]) <= Len(plan[m])
  BY DEF AggInv, CellsInv
<1>4. /\ Len(plan[m]) \in Nat /\ DOMAIN plan[m] = 1 .. Len(plan[m])
      /\ \A i \in DOMAIN plan[m] : plan[m][i].from \in Int /\ plan[m][i].to \in Int
  BY PlanShape DEF AggInv, DiskInv
<1>5. c[2] \in DOMAIN plan[m]
  BY <1>2, <1>3, <1>4
<1>. QED
  BY <1>2, <1>4, <1>5 DEF Row, Aggregation!Row

\* A cell that counts was attested, and so measured and found sound.
LEMMA CountedIsSettled ==
    ASSUME AggInv, NEW c \in Counted
    PROVE  Settled(c)
<1>1. c \in Aggregation!AllCells /\ cells[c[1]][c[2]].valid
  BY DEF Counted, Aggregation!Counted, Aggregation!Cell
<1>2. c[1] \in Matrices /\ c[2] \in DOMAIN cells[c[1]]
  BY <1>1, CellShape
<1>3. c[2] \in read[c[1]].attested
  BY <1>1, <1>2 DEF AggInv, CellsInv
<1>4. c[2] \in attested[c[1]]
  BY <1>2, <1>3 DEF AggInv, ReadInv
<1>5. SoundCell(c[1], c[2])
  BY <1>2, <1>4 DEF AggInv, DiskInv
<1>. QED
  BY <1>4, <1>5 DEF Settled, Aggregation!Settled, Aggregation!Measured, SoundCell

\* When no two neighbours overlap, a cell ends before any that is not sorted before it.
LEMMA SortedApart ==
    ASSUME AggInv, ~Aggregation!RangesOverlap, NEW c \in Counted, NEW d \in Counted,
           c # d, ~Aggregation!Before(d, c)
    PROVE  Row(c).to <= Row(d).from
<1> DEFINE From(e) == Row(e).from
           To(e) == Row(e).to
           Later == {e \in Counted : e # c /\ ~Aggregation!Before(e, c)}
           first == {From(e) : e \in Later}
<1>1. \A e \in Counted : From(e) \in Nat /\ To(e) \in Nat
  <2>1. \A e \in Counted : Row(e).from \in Int /\ Row(e).to \in Int
    BY CellShape DEF Counted, Aggregation!Counted
  <2>2. \A e \in Counted : ~(Row(e).from < 0 \/ Row(e).to <= Row(e).from)
    BY DEF Aggregation!RangesOverlap, Counted, Row
  <2>. QED
    BY <2>1, <2>2
<1>2. \A e, f : Aggregation!Before(e, f) <=>
                   From(e) < From(f) \/ (From(e) = From(f) /\ To(e) < To(f))
  BY DEF Aggregation!Before, Row
<1>3. \A e, f \in Counted :
          (/\ e # f /\ ~Aggregation!Before(f, e)
           /\ ~(\E g \in Counted : Aggregation!Before(e, g) /\ Aggregation!Before(g, f)))
          => To(e) <= From(f)
  <2>1. \A e, f \in Counted : Aggregation!Neighbours(e, f) => ~(From(f) < To(e))
    BY DEF Aggregation!RangesOverlap, Counted, Row
  <2>2. ASSUME NEW e \in Counted, NEW f \in Counted,
               e # f, ~Aggregation!Before(f, e),
               ~(\E g \in Counted : Aggregation!Before(e, g) /\ Aggregation!Before(g, f))
        PROVE  Aggregation!Neighbours(e, f)
    BY <2>2 DEF Aggregation!Neighbours, Counted
  <2> HIDE DEF From, To
  <2>3. \A e, f \in Counted : Aggregation!Neighbours(e, f) => To(e) <= From(f)
    BY <1>1, <2>1
  <2>. QED
    BY <2>2, <2>3
<1>4. d \in Later
  OBVIOUS
<1> HIDE DEF From, To
<1>5. first \in SUBSET Nat /\ first # {}
  BY <1>1, <1>4
<1>6. PICK n \in first : \A k \in first : n <= k
  <2> HIDE DEF first
  <2>. QED
    BY <1>5, LeastNumber
<1> DEFINE early == {To(e) : e \in {f \in Later : From(f) = n}}
<1>7. early \in SUBSET Nat /\ early # {}
  BY <1>1, <1>6
<1>8. PICK t \in early : \A k \in early : t <= k
  <2> HIDE DEF early
  <2>. QED
    BY <1>7, LeastNumber
<1>9. PICK next \in Later : From(next) = n /\ To(next) = t
  BY <1>8
<1>10. \A e \in Later : ~Aggregation!Before(e, next)
  <2> SUFFICES ASSUME NEW e \in Later, Aggregation!Before(e, next) PROVE FALSE
    OBVIOUS
  <2>1. From(e) < n \/ (From(e) = n /\ To(e) < t)
    BY <1>2, <1>9
  <2>2. n <= From(e) /\ n \in Nat /\ t \in Nat /\ From(e) \in Nat /\ To(e) \in Nat
    BY <1>1, <1>5, <1>6, <1>7, <1>8
  <2>3. CASE From(e) = n
    BY <1>8, <2>1, <2>2, <2>3
  <2>. QED
    BY <2>1, <2>2, <2>3
<1>11. ~(\E e \in Counted : Aggregation!Before(c, e) /\ Aggregation!Before(e, next))
  <2> SUFFICES ASSUME NEW e \in Counted, Aggregation!Before(c, e), Aggregation!Before(e, next)
               PROVE  FALSE
    OBVIOUS
  <2>1. e # c /\ ~Aggregation!Before(e, c)
    BY <1>1, <1>2
  <2>. QED
    BY <1>10, <2>1
<1>12. To(c) <= From(next)
  BY <1>3, <1>9, <1>11
<1>13. From(next) <= From(d)
  BY <1>4, <1>6, <1>9
<1>. QED
  <2>1. To(c) \in Nat /\ From(next) \in Nat /\ From(d) \in Nat
    BY <1>1, <1>4, <1>9
  <2>2. To(c) <= From(d)
    BY <1>12, <1>13, <2>1
  <2>. QED
    BY <2>2 DEF To, From

\* Cells that a merge counts share no row.
LEMMA CountedShareNoRow ==
    ASSUME AggInv, ~Aggregation!RangesOverlap, NEW c \in Counted, NEW d \in Counted, c # d
    PROVE  Aggregation!Rows(c) \cap Aggregation!Rows(d) = {}
<1>1. /\ Row(c).from \in Int /\ Row(c).to \in Int
      /\ Row(d).from \in Int /\ Row(d).to \in Int
  BY CellShape DEF Counted, Aggregation!Counted
<1>2. ~Aggregation!Before(d, c) \/ ~Aggregation!Before(c, d)
  BY <1>1 DEF Aggregation!Before, Row
<1>3. Row(c).to <= Row(d).from \/ Row(d).to <= Row(c).from
  BY <1>2, SortedApart
<1>. QED
  BY <1>1, <1>3 DEF Aggregation!Rows, Row

Groups == Aggregation!Groups
Below(g) == Aggregation!Below(g, 60)
Catalog(g) == Aggregation!Catalog(g)

\* What makes a group red.
LEMMA RedForAReason ==
    ASSUME AggInv, NEW g \in Groups, Aggregation!Grade(g) = "RED"
    PROVE  \/ Below(g)
           \/ \E c \in Catalog(g) : ~Settled(c) /\ status[c[1]] # "running"
           \/ \E c \in Catalog(g) : Aggregation!Unseen(c) /\ (read[c[1]].early \/ torn[c[1]])
<1>1. Below(g) \/ Aggregation!InvalidFinished(g) # {}
  BY DEF Aggregation!Grade, Below
<1>2. ASSUME NEW c \in Aggregation!InvalidFinished(g)
      PROVE  /\ c \in Catalog(g) /\ status[c[1]] # "running"
             /\ Settled(c) => Aggregation!Unseen(c) /\ (read[c[1]].early \/ torn[c[1]])
  <2>1. /\ c \in Catalog(g) /\ c \in Aggregation!AllCells
        /\ ~cells[c[1]][c[2]].valid
        /\ \/ cells[c[1]][c[2]].state = "complete"
           \/ Aggregation!Terminal(c[1])
    BY DEF Aggregation!InvalidFinished, Aggregation!Planned, Aggregation!Catalog,
           Aggregation!Counted, Aggregation!Cell, Catalog
  <2>2. c[1] \in Matrices /\ c[2] \in DOMAIN cells[c[1]]
    BY <2>1, CellShape
  <2>3. c[2] \notin read[c[1]].attested /\ Aggregation!Terminal(c[1])
    BY <2>1, <2>2 DEF AggInv, CellsInv
  <2>4. status[c[1]] # "running"
    BY <2>2, <2>3 DEF AggInv, ReadInv, Aggregation!Terminal
  <2>5. Settled(c) => c[2] \in attested[c[1]]
    BY DEF Settled, Aggregation!Settled
  <2>6. ASSUME c[2] \in attested[c[1]] PROVE read[c[1]].early \/ torn[c[1]]
    BY <2>2, <2>3, <2>6 DEF AggInv, ReadInv
  <2>. QED
    BY <2>1, <2>3, <2>4, <2>5, <2>6 DEF Aggregation!Unseen
<1>. QED
  BY <1>1, <1>2

\* What a strict report of success has found.
LEMMA StrictlySettled ==
    ASSUME AggInv, Aggregation!StrictlyComplete
    PROVE  /\ \A c \in Aggregation!AllCells :
                 \/ Settled(c)
                 \/ Aggregation!Merging /\ status[c[1]] = "aborted" /\ dir[c[1]][c[2]] = "absent"
           /\ \A g \in Groups : g.series \in Horizontal => \E c \in Catalog(g) : Settled(c)
<1>1. ASSUME NEW c \in Aggregation!AllCells
      PROVE  \/ Settled(c)
             \/ Aggregation!Merging /\ status[c[1]] = "aborted" /\ dir[c[1]][c[2]] = "absent"
  <2>1. CASE c \in Counted
    BY <2>1, CountedIsSettled
  <2>2. CASE cells[c[1]][c[2]].state = "abandoned"
    <3>1. c[1] \in Matrices /\ c[2] \in DOMAIN cells[c[1]]
      BY CellShape
    <3>2. /\ Aggregation!Merging /\ read[c[1]].status = "aborted"
          /\ dir[c[1]][c[2]] = "absent"
      BY <2>2, <3>1 DEF AggInv, CellsInv
    <3>. QED
      BY <3>1, <3>2 DEF AggInv, ReadInv
  <2>. QED
    BY <2>1, <2>2 DEF Aggregation!StrictlyComplete, Counted, Aggregation!Cell
<1>2. ASSUME NEW g \in Groups, g.series \in Horizontal
      PROVE  \E c \in Catalog(g) : Settled(c)
  <2>1. Aggregation!Valid(g) # {}
    BY <1>2 DEF Aggregation!StrictlyComplete, Aggregation!MissingRungs, Groups
  <2>2. PICK c \in Aggregation!Valid(g) : TRUE
    BY <2>1
  <2>3. c \in Catalog(g) /\ c \in Counted
    BY <2>2 DEF Aggregation!Valid, Aggregation!Planned, Catalog, Counted
  <2>. QED
    BY <2>3, CountedIsSettled
<1>. QED
  BY <1>1, <1>2

----------------------------------------------------------------------------
(* The report and what stays of it.                                        *)

ReportInv == AggInv /\ CountedApart /\ RedIsDeserved /\ StrictIsComplete

\* While nothing of the matrices and the aggregator changes, neither does what is
\* said of them.
LEMMA ReportStays ==
    ASSUME UNCHANGED <<plan, dir, measured, attested, torn, status, read, cells>>
    PROVE  /\ Aggregation!AllCells' = Aggregation!AllCells
           /\ Counted' = Counted /\ Groups' = Groups
           /\ \A c : Settled(c)' <=> Settled(c)
           /\ \A c : Aggregation!Rows(c)' = Aggregation!Rows(c)
           /\ \A c : Aggregation!Measured(c)' = Aggregation!Measured(c)
           /\ \A g : Catalog(g)' = Catalog(g) /\ (Below(g)' <=> Below(g))
           /\ \A g : Aggregation!Median(g)' = Aggregation!Median(g)
           /\ \A c : Aggregation!Unseen(c)' <=> Aggregation!Unseen(c)
<1>1. Aggregation!AllCells' = Aggregation!AllCells
  BY DEF Aggregation!AllCells
<1>2. \A c : /\ Aggregation!Row(c)' = Aggregation!Row(c)
             /\ Aggregation!Cell(c)' = Aggregation!Cell(c)
             /\ Aggregation!Measured(c)' = Aggregation!Measured(c)
  BY DEF Aggregation!Row, Aggregation!Cell, Aggregation!Measured
<1>3. Counted' = Counted
  BY <1>1, <1>2 DEF Counted, Aggregation!Counted
<1>4. Groups' = Groups
  BY <1>1, <1>2 DEF Groups, Aggregation!Groups
<1>5. \A c : Settled(c)' <=> Settled(c)
  BY <1>2 DEF Settled, Aggregation!Settled
<1>6. \A c : Aggregation!Rows(c)' = Aggregation!Rows(c)
  BY <1>2 DEF Aggregation!Rows
<1>7. \A g : Catalog(g)' = Catalog(g)
  BY <1>1, <1>2 DEF Catalog, Aggregation!Catalog
<1>8. \A g : Aggregation!Valid(g)' = Aggregation!Valid(g)
  BY <1>2, <1>3, <1>7 DEF Catalog, Counted, Aggregation!Valid, Aggregation!Planned
<1>9. \A g, f : Aggregation!Sorted(g, f)' = Aggregation!Sorted(g, f)
  BY <1>2, <1>8 DEF Aggregation!Sorted
<1>10. \A g : Aggregation!Median(g)' = Aggregation!Median(g)
  BY <1>9 DEF Aggregation!Median
<1>11. \A g : Aggregation!Evaluated(g)' <=> Aggregation!Evaluated(g)
  BY <1>4, <1>8, <1>10 DEF Aggregation!Evaluated, Aggregation!HasBaseline, Aggregation!Baseline, Groups
<1>12. \A g : Below(g)' <=> Below(g)
  BY <1>10, <1>11 DEF Below, Aggregation!Below, Aggregation!Baseline
<1>13. \A c : Aggregation!Unseen(c)' <=> Aggregation!Unseen(c)
  BY DEF Aggregation!Unseen, Aggregation!Terminal
<1>. QED
  BY <1>1, <1>2, <1>3, <1>4, <1>5, <1>6, <1>7, <1>10, <1>12, <1>13

\* A property of the report holds while there is none.
LEMMA NothingReported ==
    ASSUME report = Aggregation!NoReport
    PROVE  CountedApart /\ RedIsDeserved /\ StrictIsComplete
<1>1. ~Aggregation!Reported
  BY DEF Aggregation!Reported, Aggregation!NoReport
<1>. QED
  BY <1>1 DEF CountedApart, RedIsDeserved, StrictIsComplete, Aggregation!CountedApart,
              Aggregation!RedIsDeserved, Aggregation!StrictIsComplete

\* Before anything is measured or read, whichever of the two analyses runs.
LEMMA ReportInit ==
    ASSUME MCInit
    PROVE  ReportInv
<1>1. Aggregation!AggregateInit
  BY DEF MCInit, MatricesRest
<1>2. /\ plan \in Plans /\ DOMAIN dir = Matrices /\ DOMAIN measured = Matrices
      /\ \A m \in Matrices : DOMAIN dir[m] = DOMAIN plan[m] /\ DOMAIN measured[m] = DOMAIN plan[m]
      /\ attested = [m \in Matrices |-> {}] /\ torn = [m \in Matrices |-> FALSE]
      /\ status = [m \in Matrices |-> "running"] /\ rpc = <<"attestations", 1>>
      /\ read = [m \in Matrices |-> [attested |-> {}, status |-> "running", early |-> TRUE]]
      /\ cells = [m \in Matrices |-> <<>>] /\ report = Aggregation!NoReport
  BY <1>1 DEF Aggregation!AggregateInit, Aggregation!Unread, Matrices
<1>3. DiskInv
  BY <1>2 DEF DiskInv
<1>4. ReadInv
  BY <1>2 DEF ReadInv
<1>5. CellsInv
  <2>1. rpc[1] = "attestations" /\ rpc[2] = 1 /\ 1 \in 1 .. Len(Sources)
    BY <1>2, SourceShape
  <2>2. ASSUME NEW m \in Matrices
        PROVE  cells[m] = <<>> /\ cells[m] \in Seq(Range(cells[m])) /\ Len(cells[m]) <= Len(plan[m])
               /\ DOMAIN cells[m] = {}
    BY <1>2, PlanShape
  <2>. QED
    BY <1>2, <2>1, <2>2 DEF CellsInv, Places
<1>. QED
  BY <1>2, <1>3, <1>4, <1>5, NothingReported DEF ReportInv, AggInv

\* A step of the other analysis.
LEMMA UnchangedPreserves ==
    ASSUME ReportInv, UNCHANGED matrixVars
    PROVE  ReportInv'
<1> USE DEF matrixVars
<1>1. DiskInv'
  <2>1. \A n, i : SoundCell(n, i)' <=> SoundCell(n, i)
    BY DEF SoundCell
  <2>2. \A n \in Matrices : Aggregation!Current(n)' = Aggregation!Current(n)
    BY DEF Aggregation!Current
  <2>. QED
    BY <2>1, <2>2 DEF DiskInv, ReportInv, AggInv
<1>2. ReadInv'
  BY DEF ReadInv, ReportInv, AggInv
<1>3. CellsInv'
  <2>1. Aggregation!Merging' <=> Aggregation!Merging
    BY DEF Aggregation!Merging
  <2>. QED
    BY <2>1 DEF CellsInv, ReportInv, AggInv
<1>4. CountedApart'
  BY ReportStays DEF CountedApart, Aggregation!CountedApart, Aggregation!Reported, Settled, ReportInv
<1>5. RedIsDeserved'
  BY ReportStays DEF RedIsDeserved, Aggregation!RedIsDeserved, Aggregation!Reported,
                     Settled, Below, Catalog, ReportInv
<1>6. StrictIsComplete'
  BY ReportStays DEF StrictIsComplete, Aggregation!StrictIsComplete, Aggregation!Reported,
                     Settled, Catalog, ReportInv
<1>. QED
  BY <1>1, <1>2, <1>3, <1>4, <1>5, <1>6 DEF ReportInv, AggInv

\* The step that makes the report.
LEMMA ReportIsTrue ==
    ASSUME AggInv, Aggregation!Report
    PROVE  (CountedApart /\ RedIsDeserved /\ StrictIsComplete)'
<1>1. UNCHANGED <<plan, dir, measured, attested, torn, status, read, cells>>
  BY DEF Aggregation!Report, Aggregation!Refuse, Aggregation!disk
<1>2. CASE Aggregation!Mergeable
  <2>1. /\ report'.counted = Counted /\ report'.groups = Groups
        /\ \A g \in Groups : report'.grade[g] = Aggregation!Grade(g)
        /\ report'.strict = (IF Aggregation!StrictlyComplete THEN 0 ELSE 1)
    BY <1>2 DEF Aggregation!Report, Counted, Groups
  <2>2. CountedApart'
    <3>1. \A c \in Counted : Settled(c)'
      BY <1>1, CountedIsSettled, ReportStays
    <3>2. ASSUME Aggregation!Merging, NEW c \in Counted, NEW d \in Counted, c # d
          PROVE  /\ (Aggregation!Rows(c) \cap Aggregation!Rows(d))' = {}
                 /\ Aggregation!Measured(c).runtime' = Aggregation!Measured(d).runtime'
      <4>1. ~Aggregation!RangesOverlap /\ ~Aggregation!RuntimesDiffer
        BY <1>2, <3>2 DEF Aggregation!Mergeable
      <4>2. Aggregation!Measured(c).runtime = Aggregation!Measured(d).runtime
        BY <4>1 DEF Aggregation!RuntimesDiffer, Counted
      <4>3. Aggregation!Rows(c) \cap Aggregation!Rows(d) = {}
        BY <3>2, <4>1, CountedShareNoRow
      <4>. QED
        BY <1>1, <4>2, <4>3, ReportStays
    <3>. QED
      BY <2>1, <3>1, <3>2 DEF CountedApart, Aggregation!CountedApart, Settled, Aggregation!Merging
  <2>3. RedIsDeserved'
    <3>1. ASSUME NEW g \in Groups, Aggregation!Grade(g) = "RED"
          PROVE  \/ Below(g)'
                 \/ \E c \in Catalog(g)' : ~Settled(c)' /\ status'[c[1]] # "running"
                 \/ \E c \in Catalog(g)' :
                       Aggregation!Unseen(c)' /\ (read'[c[1]].early \/ torn'[c[1]])
      BY <1>1, <3>1, RedForAReason, ReportStays
    <3>. QED
      BY <2>1, <3>1 DEF RedIsDeserved, Aggregation!RedIsDeserved, Settled, Below, Catalog
  <2>4. StrictIsComplete'
    <3>1. ASSUME Aggregation!StrictlyComplete
          PROVE  /\ \A c \in Aggregation!AllCells' :
                       \/ Settled(c)'
                       \/ /\ Aggregation!Merging /\ status'[c[1]] = "aborted"
                          /\ dir'[c[1]][c[2]] = "absent"
                 /\ \A g \in Groups : g.series \in Horizontal => \E c \in Catalog(g)' : Settled(c)'
      BY <1>1, <3>1, StrictlySettled, ReportStays
    <3>. QED
      BY <2>1, <3>1 DEF StrictIsComplete, Aggregation!StrictIsComplete, Settled, Catalog,
                        Aggregation!Merging
  <2>. QED
    BY <2>2, <2>3, <2>4
<1>3. CASE ~Aggregation!Mergeable
  <2>1. report'.exit # "ok"
    BY <1>3 DEF Aggregation!Report, Aggregation!Refuse
  <2>. QED
    BY <2>1 DEF CountedApart, RedIsDeserved, StrictIsComplete, Aggregation!CountedApart,
                Aggregation!RedIsDeserved, Aggregation!StrictIsComplete, Aggregation!Reported
<1>. QED
  BY <1>2, <1>3

\* No other step makes a report of success.
LEMMA StillUnreported ==
    ASSUME UntilReported, Aggregation!AggregateNext, ~Aggregation!Report
    PROVE  report'.exit # "ok"
<1>1. report.exit # "ok"
  BY DEF UntilReported, Aggregation!NoReport
<1>2. ASSUME NEW m \in Aggregation!Matrices, Aggregation!MatrixRun(m) PROVE report' = report
  BY <1>2 DEF Aggregation!MatrixRun, Aggregation!BeginCell, Aggregation!MeasureCell,
              Aggregation!AppendResult, Aggregation!Attest, Aggregation!End,
              Aggregation!aggregator
<1>3. CASE Aggregation!ReadAttestations
  BY <1>1, <1>3 DEF Aggregation!ReadAttestations
<1>4. CASE Aggregation!ReadStatus
  BY <1>1, <1>4 DEF Aggregation!ReadStatus
<1>5. CASE Aggregation!CheckMatrices
  BY <1>1, <1>5 DEF Aggregation!CheckMatrices, Aggregation!Refuse
<1>6. CASE Aggregation!ReadCells
  BY <1>1, <1>6 DEF Aggregation!ReadCells
<1>. QED
  BY <1>1, <1>2, <1>3, <1>4, <1>5, <1>6 DEF Aggregation!AggregateNext, Aggregation!Aggregate

\* Every step.  Once there is a report, no step of a matrix is looked at any more.
LEMMA ReportPreserves ==
    ASSUME ReportInv, [MCNext]_allVars
    PROVE  ReportInv'
<1>1. CASE UNCHANGED matrixVars
  BY <1>1, UnchangedPreserves
<1>2. CASE UntilReported /\ Aggregation!AggregateNext
  <2>1. AggInv'
    BY <1>2, MatrixRunPreserves, AggregatePreserves
       DEF ReportInv, Aggregation!AggregateNext, Matrices
  <2>2. CASE Aggregation!Report
    BY <2>1, <2>2, ReportIsTrue DEF ReportInv
  <2>3. CASE ~Aggregation!Report
    <3>2. report'.exit # "ok"
      BY <1>2, <2>3, StillUnreported
    <3>. QED
      BY <2>1, <3>2 DEF ReportInv, CountedApart, RedIsDeserved, StrictIsComplete,
                        Aggregation!CountedApart, Aggregation!RedIsDeserved,
                        Aggregation!StrictIsComplete, Aggregation!Reported
  <2>. QED
    BY <2>2, <2>3
<1>. QED
  BY <1>1, <1>2 DEF MCNext, allVars

\* The disk, the reading and the cells are always as above, and so is the report, with
\* whatever the matrices did while the aggregator read them.
THEOREM ReportedEvidenceIsSound == MCSpec => []ReportInv
<1>1. MCInit => ReportInv
  BY ReportInit
<1>2. ReportInv /\ [MCNext]_allVars => ReportInv'
  BY ReportPreserves
<1>. QED
  BY <1>1, <1>2, PTL DEF MCSpec

\* Every cell that counts was measured, found sound and attested, and in a merge no two
\* share a reserved row or differ in their runtime, although only neighbours are compared
\* (enforce_cell_merge_contract).
THEOREM CountedCellsApart == MCSpec => []CountedApart
BY ReportedEvidenceIsSound, PTL DEF ReportInv

\* A rung is RED only if it is below 60%, or evidence of it failed or is missing in a
\* matrix that has ended, or is there and was not seen: its attestations were read before
\* the matrix ended and its status after, or the matrix ended in the middle of a line
\* (attestation_map, the grade of apply_efficiency_and_knee).
THEOREM RedRungsDeserveIt == MCSpec => []RedIsDeserved
BY ReportedEvidenceIsSound, PTL DEF ReportInv

\* --strict succeeds only if every planned cell was measured and attested, but for those
\* a merge dropped with an aborted matrix, and every horizontal rung was measured.
THEOREM StrictReportIsComplete == MCSpec => []StrictIsComplete
BY ReportedEvidenceIsSound, PTL DEF ReportInv

----------------------------------------------------------------------------
(* A report of no knee.                                                    *)

Baseline(g) == Aggregation!Baseline(g)
Rungs == {g \in report.groups : g.series \in Horizontal /\ g.replicas > 1}

\* What a rung lacks that is not compared although no knee was observed.
NothingToCompare(g) ==
    Baseline(g) \notin report.groups \/ ~(Aggregation!Median(Baseline(g)) > 0)

NoKneeInv ==
    Aggregation!Reported /\ report.knee.status = "not_observed" =>
        \A g \in Rungs : g \in report.evaluated \/ NothingToCompare(g)

\* What is reported as not observed is complete.
LEMMA NoKneeIsComplete ==
    ASSUME Aggregation!Knee.status = "not_observed", NEW g \in Groups, Baseline(g) \in Groups,
           Aggregation!Median(Baseline(g)) > 0
    PROVE  Aggregation!Evaluated(g)
<1>1. Aggregation!NoKneeStatus = "not_observed"
  <2>1. CASE Aggregation!Candidates = {}
    BY <2>1 DEF Aggregation!Knee
  <2>2. CASE Aggregation!Candidates # {}
    BY <2>2 DEF Aggregation!Knee
  <2>. QED
    BY <2>1, <2>2
<1>2. \A h \in Groups : Aggregation!Valid(h) # {}
  BY <1>1 DEF Aggregation!NoKneeStatus, Groups
<1>. QED
  BY <1>2 DEF Aggregation!Evaluated, Aggregation!HasBaseline, Baseline, Groups

\* The step that makes the report.
LEMMA ReportOfNoKnee ==
    ASSUME Aggregation!Report
    PROVE  NoKneeInv'
<1>1. UNCHANGED <<plan, dir, measured, attested, torn, status, read, cells>>
  BY DEF Aggregation!Report, Aggregation!Refuse, Aggregation!disk
<1>2. \A g : Aggregation!Median(g)' = Aggregation!Median(g) /\ Baseline(g)' = Baseline(g)
  BY <1>1, ReportStays DEF Baseline, Aggregation!Baseline
<1>3. CASE Aggregation!Mergeable
  <2>1. /\ report'.groups = Groups /\ report'.knee = Aggregation!Knee
        /\ report'.evaluated = {g \in Groups : Aggregation!Evaluated(g)}
    BY <1>3 DEF Aggregation!Report, Groups
  <2>2. SUFFICES ASSUME Aggregation!Knee.status = "not_observed", NEW g \in Rungs',
                        ~NothingToCompare(g)'
                 PROVE  g \in report'.evaluated
    BY <2>1 DEF NoKneeInv
  <2>3. g \in Groups /\ Baseline(g) \in Groups /\ Aggregation!Median(Baseline(g)) > 0
    BY <1>2, <2>1, <2>2 DEF Rungs, NothingToCompare
  <2>. QED
    BY <2>1, <2>2, <2>3, NoKneeIsComplete
<1>4. CASE ~Aggregation!Mergeable
  <2>1. report'.exit # "ok"
    BY <1>4 DEF Aggregation!Report, Aggregation!Refuse
  <2>. QED
    BY <2>1 DEF NoKneeInv, Aggregation!Reported
<1>. QED
  BY <1>3, <1>4

\* "no horizontal knee through r<n>" leaves a rung uncompared only if no matrix plans its
\* one-replica baseline, or the baseline served nothing useful: every rung that has one
\* to be compared with was compared (the `complete' condition of the knee's decision).
THEOREM NoKneeComparesWhatItCan == MCSpec => []NoKneeInv
<1>1. MCInit => NoKneeInv
  <2>1. MCInit => report = Aggregation!NoReport
    BY DEF MCInit, MatricesRest, Aggregation!AggregateInit
  <2>2. report = Aggregation!NoReport => ~Aggregation!Reported
    BY DEF Aggregation!Reported, Aggregation!NoReport
  <2>. QED
    BY <2>1, <2>2 DEF NoKneeInv
<1>2. NoKneeInv /\ [MCNext]_allVars => NoKneeInv'
  <2>. SUFFICES ASSUME NoKneeInv, [MCNext]_allVars PROVE NoKneeInv'
    OBVIOUS
  <2>1. CASE UNCHANGED matrixVars
    <3>1. \A g : Aggregation!Median(g)' = Aggregation!Median(g) /\ Baseline(g)' = Baseline(g)
      BY <2>1, ReportStays DEF matrixVars, Baseline, Aggregation!Baseline
    <3>2. report' = report
      BY <2>1 DEF matrixVars
    <3>3. Rungs' = Rungs /\ \A g : NothingToCompare(g)' <=> NothingToCompare(g)
      BY <3>1, <3>2 DEF Rungs, NothingToCompare
    <3>. QED
      BY <3>2, <3>3 DEF NoKneeInv, Aggregation!Reported
  <2>2. CASE UntilReported /\ Aggregation!AggregateNext
    <3>1. CASE Aggregation!Report
      BY <3>1, ReportOfNoKnee
    <3>2. CASE ~Aggregation!Report
      BY <2>2, <3>2, StillUnreported DEF NoKneeInv, Aggregation!Reported
    <3>. QED
      BY <3>1, <3>2
  <2>. QED
    BY <2>1, <2>2 DEF MCNext, allVars
<1>. QED
  BY <1>1, <1>2, PTL DEF MCSpec
============================================================================
