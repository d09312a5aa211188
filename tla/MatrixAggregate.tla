-------------------------- MODULE MatrixAggregate --------------------------
(***************************************************************************)
(* hack/arena-sc-aggregate-matrix.py beside the matrix runs it reads       *)
(* (hack/arena-sc-inference-matrix.sh).  A matrix measures its cells one   *)
(* after the other and attests each that passes its gates; the aggregator  *)
(* reads the directories of one or more matrices, finished or still        *)
(* running, file by file, and reports groups of repetitions, their grades  *)
(* and the first horizontal rung that does not scale.                      *)
(*                                                                         *)
(* A rate is an integer; the efficiency thresholds 0.60 and 0.80 and the   *)
(* limits on the coefficient of variation are compared as fractions.  That *)
(* a cell's own files recompute (analyze_cell) is one attribute, `sound`.  *)
(***************************************************************************)
EXTENDS Integers, FiniteSets, FiniteSetsExt, Sequences, SequencesExt

CONSTANTS
    Sources,     \* the matrix directories of the command line, in order, each once
    Plans,       \* the plans they may have: [matrix -> sequence of planned cells],
                 \* a cell [series, replicas, from, to] with its reserved rows
    Horizontal,  \* the series (workers, concurrency, ...) of phase horizontal
    Contracts,   \* values of the fields two matrices must share to be merged
    Rates,       \* [replicas -> the useful RPS such a cell may have]
    Latencies,   \* its p99
    Runtimes,    \* [replicas -> values of the fields two cells must share to be merged]
    Enough       \* valid repetitions that confirm a knee: 5

Matrices == Range(Sources)

VARIABLES
    plan,        \* matrix-plan.tsv
    provenance,  \* matrix-provenance.json
    dir,         \* the directories of the cells: [matrix -> sequence of states]
    result,      \* what was measured in them
    attested,    \* the cells in matrix-results.ndjson
    torn,        \* its last line is not complete
    status,      \* matrix-status.json; none is "running"
    rpc,         \* where the aggregator is
    read,        \* what it has read of a matrix: attestations and status; early, which
                 \* no step looks at, says that the attestations were read while it ran
    cells,       \* what it has made of the cells
    report       \* its report

disk == <<plan, provenance, dir, result, attested, torn, status>>
aggregator == <<rpc, read, cells, report>>
aggregateVars == <<disk, aggregator>>

Merging == Len(Sources) > 1
NoResult == [sound |-> FALSE, rps |-> 0, p99 |-> 0, runtime |-> "none"]
NoReport == [exit |-> "none"]
Unread == [attested |-> {}, status |-> "running", early |-> TRUE]

AggregateInit ==
    /\ plan \in Plans /\ provenance \in [Matrices -> Contracts]
    /\ dir = [m \in Matrices |-> [i \in DOMAIN plan[m] |-> "absent"]]
    /\ result = [m \in Matrices |-> [i \in DOMAIN plan[m] |-> NoResult]]
    /\ attested = [m \in Matrices |-> {}] /\ torn = [m \in Matrices |-> FALSE]
    /\ status = [m \in Matrices |-> "running"]
    /\ rpc = <<"attestations", 1>>
    /\ read = [m \in Matrices |-> Unread]
    /\ cells = [m \in Matrices |-> <<>>]
    /\ report = NoReport

----------------------------------------------------------------------------
(* A matrix run.                                                           *)

\* The cell it is at: the first that is not attested.
Current(m) == Min({i \in DOMAIN plan[m] : i \notin attested[m]})

\* No two matrices measure at a time: each holds the lock from before its first
\* cell until it ends.
Idle(m) == status[m] # "running" \/ dir[m][1] = "absent"
Measuring(m) ==
    /\ status[m] = "running" /\ attested[m] # DOMAIN plan[m]
    /\ \A n \in Matrices \ {m} : Idle(n)

BeginCell(m) ==
    /\ Measuring(m) /\ dir[m][Current(m)] = "absent"
    /\ dir' = [dir EXCEPT ![m][Current(m)] = "begun"]
    /\ UNCHANGED <<plan, provenance, result, attested, torn, status, aggregator>>

\* What a cell of n replicas may have left: files that do not stand up to the
\* gates, or results.
Outcomes(n) ==
    {NoResult} \cup [sound : {TRUE}, rps : Rates[n], p99 : Latencies, runtime : Runtimes[n]]

\* The cell runner, the recovery observer and the telemetry capture have left
\* all their files.
MeasureCell(m) ==
    /\ Measuring(m) /\ dir[m][Current(m)] = "begun"
    /\ dir' = [dir EXCEPT ![m][Current(m)] = "whole"]
    /\ \E outcome \in Outcomes(plan[m][Current(m)].replicas) :
          result' = [result EXCEPT ![m][Current(m)] = outcome]
    /\ UNCHANGED <<plan, provenance, attested, torn, status, aggregator>>

\* The gates passed: a line is appended to matrix-results.ndjson ...
AppendResult(m) ==
    /\ Measuring(m) /\ ~torn[m]
    /\ dir[m][Current(m)] = "whole" /\ result[m][Current(m)].sound
    /\ torn' = [torn EXCEPT ![m] = TRUE]
    /\ UNCHANGED <<plan, provenance, dir, result, attested, status, aggregator>>

\* ... and is complete.
Attest(m) ==
    /\ Measuring(m) /\ torn[m]
    /\ torn' = [torn EXCEPT ![m] = FALSE]
    /\ attested' = [attested EXCEPT ![m] = @ \cup {Current(m)}]
    /\ UNCHANGED <<plan, provenance, dir, result, status, aggregator>>

\* The cleanup writes the status: completed if every cell passed, aborted after
\* a gate, a command or a signal ended the run.
End(m) ==
    /\ status[m] = "running"
    /\ \/ attested[m] = DOMAIN plan[m] /\ status' = [status EXCEPT ![m] = "completed"]
       \/ status' = [status EXCEPT ![m] = "aborted"]
    /\ UNCHANGED <<plan, provenance, dir, result, attested, torn, aggregator>>

MatrixRun(m) == BeginCell(m) \/ MeasureCell(m) \/ AppendResult(m) \/ Attest(m) \/ End(m)

----------------------------------------------------------------------------
(* What the aggregator reads.                                              *)

Source == Sources[rpc[2]]
At(step) == rpc[1] = step
NextSource(step) == IF rpc[2] < Len(Sources) THEN <<step, rpc[2] + 1>> ELSE <<"contract", 1>>

\* Plan and provenance do not change.  One line that does not parse, and the
\* file counts for nothing.
ReadAttestations ==
    /\ At("attestations")
    /\ read' = [read EXCEPT ![Source].attested = IF torn[Source] THEN {} ELSE attested[Source],
                            ![Source].early = status[Source] = "running"]
    /\ rpc' = <<"status", rpc[2]>>
    /\ UNCHANGED <<disk, cells, report>>

ReadStatus ==
    /\ At("status")
    /\ read' = [read EXCEPT ![Source].status = status[Source]]
    /\ rpc' = NextSource("attestations")
    /\ UNCHANGED <<disk, cells, report>>

Refuse == rpc' = <<"done", 1>> /\ report' = [exit |-> "refused"] /\ UNCHANGED <<disk, read, cells>>

CheckMatrices ==
    /\ At("contract")
    /\ IF \A m \in Matrices : provenance[m] = provenance[Sources[1]]
       THEN rpc' = <<"cells", 1>> /\ UNCHANGED <<disk, read, cells, report>>
       ELSE Refuse

\* analyze_cell, on the files as they are now, with the attestations and the
\* status read before, and the state that main makes of it.
Analyzed(m, i) ==
    LET known == i \in read[m].attested
        found == CASE dir[m][i] = "absent" -> "pending"
                   [] dir[m][i] = "begun"  -> "incomplete"
                   [] OTHER -> IF known THEN "complete" ELSE "unattested"
    IN [state |-> CASE found = "pending" /\ Merging /\ read[m].status = "aborted" -> "abandoned"
                    [] found = "pending" /\ read[m].status = "completed" -> "incomplete"
                    [] OTHER -> found,
        valid |-> dir[m][i] = "whole" /\ result[m][i].sound /\ known]

ReadCells ==
    /\ At("cells")
    /\ IF Len(cells[Source]) < Len(plan[Source])
       THEN /\ cells' = [cells EXCEPT ![Source] =
                            Append(@, Analyzed(Source, Len(@) + 1))]
            /\ UNCHANGED rpc
       ELSE /\ rpc' = IF rpc[2] < Len(Sources) THEN <<"cells", rpc[2] + 1>> ELSE <<"report", 1>>
            /\ UNCHANGED cells
    /\ UNCHANGED <<disk, read, report>>

----------------------------------------------------------------------------
(* Groups of repetitions.                                                  *)

AllCells == UNION {{m} \X DOMAIN cells[m] : m \in Matrices}
Cell(c) == cells[c[1]][c[2]]
Row(c) == plan[c[1]][c[2]]
Measured(c) == result[c[1]][c[2]]
Counted == {c \in AllCells : Cell(c).valid}
Terminal(m) == read[m].status \in {"completed", "aborted"}

Groups == {[series |-> Row(c).series, replicas |-> Row(c).replicas] : c \in AllCells}
Catalog(g) == {c \in AllCells : Row(c).series = g.series /\ Row(c).replicas = g.replicas}
Planned(g) == {c \in Catalog(g) : Cell(c).state # "abandoned"}
Valid(g) == Planned(g) \cap Counted
\* Seeded fault: a cell without its attestation is invalid in a running matrix too.
InvalidFinishedEarly(g) ==
    {c \in Planned(g) \ Counted : Cell(c).state \in {"complete", "unattested", "incomplete"}}

InvalidFinished(g) ==
    {c \in Planned(g) \ Counted :
        \/ Cell(c).state = "complete"
        \/ Terminal(c[1]) /\ Cell(c).state \in {"unattested", "incomplete"}}

\* The two values in the middle of a sorted sequence, which may be one: their
\* sum is twice the median.
TwiceMedian(s) == s[(Len(s) + 1) \div 2] + s[(Len(s) + 2) \div 2]
SortedValues(value) ==
    LET order == SetToSortSeq(DOMAIN value, LAMBDA c, d : value[c] < value[d])
    IN  [i \in DOMAIN order |-> value[order[i]]]
Sorted(g, field) == SortedValues([c \in Valid(g) |-> Measured(c)[field]])
Median(g) == TwiceMedian(Sorted(g, "rps"))

\* The standard deviation of s is above percent/100 of its mean.
Varies(s, percent) ==
    LET total == FoldSeq(+, 0, s)
        squares == FoldSeq(LAMBDA x, sum : sum + x * x, 0, s)
    IN  10000 * (Len(s) * squares - total * total) > percent * percent * total * total

Baseline(g) == [g EXCEPT !.replicas = 1]
HasBaseline(g) == Baseline(g) \in Groups /\ Valid(Baseline(g)) # {}
Evaluated(g) == Valid(g) # {} /\ HasBaseline(g) /\ Median(Baseline(g)) > 0

\* The efficiency of g, its median over replicas times the baseline's, is below
\* percent/100.
Below(g, percent) ==
    Evaluated(g) /\ 100 * Median(g) < percent * g.replicas * Median(Baseline(g))

Grade(g) ==
    CASE Planned(g) = {} -> "NOT_RUN"
      [] Planned(g) # {} /\ InvalidFinished(g) # {} -> "RED"
      [] Planned(g) # {} /\ InvalidFinished(g) = {} /\ Valid(g) # Planned(g) -> "PENDING"
      [] OTHER ->
           CASE ~Evaluated(g) -> "UNEVALUATED"
             [] Below(g, 60) -> "RED"
             [] ~Below(g, 60) /\ Below(g, 80) -> "YELLOW"
             [] OTHER -> IF Varies(Sorted(g, "rps"), 10) \/ Varies(Sorted(g, "p99"), 15)
                         THEN "YELLOW" ELSE "GREEN"

Candidates ==
    {g \in Groups : /\ g.series \in Horizontal /\ g.replicas > 1
                    /\ InvalidFinished(g) # {} \/ Below(g, 80)}
Confirms(g) == Cardinality(Valid(g)) >= Enough

NoKneeStatus ==
    IF Groups # {} /\ \A g \in Groups : Planned(g) # {} /\ Valid(g) = Planned(g)
    THEN "not_observed" ELSE "not_yet_evaluable"

Knee ==
    IF Candidates = {} THEN [status |-> NoKneeStatus, replicas |-> 0]
    ELSE LET g == CHOOSE c \in Candidates : \A d \in Candidates : c.replicas <= d.replicas
             confirmed == Confirms(g) /\ HasBaseline(g) /\ Confirms(Baseline(g))
         IN  [status |-> IF confirmed THEN "confirmed" ELSE "candidate",
              replicas |-> g.replicas]

\* Rungs that are planned, by whatever source, and have no valid evidence.
MissingRungs == {g \in Groups : g.series \in Horizontal /\ Valid(g) = {}}

----------------------------------------------------------------------------
(* The report.                                                             *)

\* Seeded fault: only the first rows of neighbours are compared.
RangesOverlapAtStart == \E c, d \in Counted : c # d /\ Row(c).from = Row(d).from

\* The reserved rows of the counted cells are sorted, and only neighbours compared.
\* Cells with the same rows are neighbours whatever comes between them.
Before(c, d) ==
    \/ Row(c).from < Row(d).from
    \/ Row(c).from = Row(d).from /\ Row(c).to < Row(d).to
Neighbours(c, d) ==
    c # d /\ ~Before(d, c) /\ ~\E e \in Counted : Before(c, e) /\ Before(e, d)

RangesOverlap ==
    \/ \E c \in Counted : Row(c).from < 0 \/ Row(c).to <= Row(c).from
    \/ \E c, d \in Counted : Neighbours(c, d) /\ Row(d).from < Row(c).to

\* Every counted cell is compared with the first.
RuntimesDiffer == \E c, d \in Counted : Measured(c).runtime # Measured(d).runtime

Mergeable == Merging => ~RangesOverlap /\ ~RuntimesDiffer

\* Seeded fault: --strict counts the cells only.
StrictlyCounted == \A c \in AllCells : Cell(c).state = "abandoned" \/ c \in Counted

\* --strict: every cell that is not abandoned counts, and no rung is missing.
StrictlyComplete ==
    (\A c \in AllCells : Cell(c).state = "abandoned" \/ c \in Counted) /\ MissingRungs = {}

Report ==
    /\ At("report")
    /\ IF Mergeable
       THEN /\ report' = [exit |-> "ok", counted |-> Counted, groups |-> Groups,
                          grade |-> [g \in Groups |-> Grade(g)], knee |-> Knee,
                          evaluated |-> {g \in Groups : Evaluated(g)},
                          strict |-> IF StrictlyComplete THEN 0 ELSE 1]
            /\ rpc' = <<"done", 1>> /\ UNCHANGED <<disk, read, cells>>
       ELSE Refuse

Aggregate == ReadAttestations \/ ReadStatus \/ CheckMatrices \/ ReadCells \/ Report

AggregateNext == Aggregate \/ \E m \in Matrices : MatrixRun(m)

AggregateSpec == AggregateInit /\ [][AggregateNext]_aggregateVars

----------------------------------------------------------------------------
(* Properties.                                                             *)

Reported == report.exit = "ok"
Rows(c) == Row(c).from .. Row(c).to - 1
Settled(c) == dir[c[1]][c[2]] = "whole" /\ Measured(c).sound /\ c[2] \in attested[c[1]]

\* Every cell that counts was measured and attested, and in a merge no two of
\* them share a row of the corpus or differ in their runtime, although the
\* aggregator compares neighbours, and every cell with the first, only.
CountedApart ==
    Reported =>
        /\ \A c \in report.counted : Settled(c)
        /\ Merging => \A c, d \in report.counted :
                         c # d => /\ Rows(c) \cap Rows(d) = {}
                                  /\ Measured(c).runtime = Measured(d).runtime

\* A matrix was seen to have ended, and the aggregator has not seen this attestation.
Unseen(c) == Terminal(c[1]) /\ c[2] \in attested[c[1]] \ read[c[1]].attested

\* A rung is graded RED only if it is below 60%, or evidence of it failed or is
\* missing in a matrix that has ended, or is there and was not seen.  There are two
\* ways not to see it: the attestations were read while the matrix ran and its status
\* after it had ended; or it ended in the middle of a line, and one line that does
\* not parse discards those of every cell.
RedIsDeserved ==
    Reported => \A g \in {h \in report.groups : report.grade[h] = "RED"} :
        \/ Below(g, 60)
        \/ \E c \in Catalog(g) : ~Settled(c) /\ status[c[1]] # "running"
        \/ \E c \in Catalog(g) : Unseen(c) /\ (read[c[1]].early \/ torn[c[1]])

\* A strict report succeeds only if every planned cell was measured and attested,
\* but what a merge dropped because its matrix was aborted before it; and then
\* every horizontal rung was measured by some matrix.
StrictIsComplete ==
    Reported /\ report.strict = 0 =>
        /\ \A c \in AllCells :
              \/ Settled(c)
              \/ Merging /\ status[c[1]] = "aborted" /\ dir[c[1]][c[2]] = "absent"
        /\ \A g \in report.groups : g.series \in Horizontal => \E c \in Catalog(g) : Settled(c)

\* "no horizontal knee through r<n>" is said only if every horizontal rung above
\* one replica was compared with its baseline (else "baseline and/or planned
\* cells are not yet valid and complete").
NoKneeMeansEvaluated ==
    Reported /\ report.knee.status = "not_observed" =>
        \A g \in report.groups :
            g.series \in Horizontal /\ g.replicas > 1 => g \in report.evaluated
============================================================================
