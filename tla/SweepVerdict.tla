---------------------------- MODULE SweepVerdict ----------------------------
(***************************************************************************)
(* The summarizer of an open-loop sweep                                    *)
(* (hack/arena-sc-open-loop-summarize.py): it attests the cells of the     *)
(* plan row by row from what the sweep left behind, the telemetry series   *)
(* of each plateau among it, groups them by offered rate, and walks up the *)
(* rates to bracket the knee.  A rate whose latency alone is elevated is   *)
(* held until the next rate confirms or clears it.                         *)
(* Time is in ticks from the start of a plateau; ratios are per mille, the *)
(* useful throughput of a cell is in percent of what it offered.           *)
(***************************************************************************)
EXTENDS Integers, FiniteSets, FiniteSetsExt, Sequences, SequencesExt, TLC

CONSTANTS
    Plan,         \* the offered rate of each row, in the order of the plan
    Outcomes,     \* what a cell may measure
    Duration,     \* of a plateau
    MaxGap,       \* --metric-max-gap-seconds
    MaxAge,       \* how old the value of a point may be: a range query repeats the last scrape
    Enough,       \* repetitions for a repeatable bracket (5)
    Disturbable   \* bound: the rows whose cell may be disturbed, one in a sweep

ASSUME SweepConstants == Plan \in Seq(Nat) /\ Duration \in Nat /\ MaxGap \in Nat /\ MaxAge \in Nat

VARIABLES
    pc,
    row,          \* the row of the plan under way
    cell,         \* what its cell left behind
    disturbed,    \* the sweep had its disturbance
    records,      \* the attested cells
    point,        \* the rate the inference is at
    pending,      \* the rate of an unconfirmed elevation, or 0
    knee

vars == <<pc, row, cell, disturbed, records, point, pending, knee>>

----------------------------------------------------------------------------
(* The evidence of a cell.                                                 *)

Instants == 0 .. Duration

\* What happens to the target Pod: nothing, a restart, or a replacement, at an instant
\* of the plateau, before it (-1), or between the two captures of its identity (-2).
Events ==
    {[kind |-> "none", at |-> Duration + 1]}
        \cup [kind : {"restart", "replaced"}, at : -2 .. Duration]

\* samples: the instants at which the series have a point.  shows: the instant from
\* which their points show the event, those before repeat an older scrape.  preflight:
\* what the topology gate recorded.  report: its report as it is on disk.  agrees: with
\* the row, the provenance and its own accounting.
Sound(r, outcome) ==
    [outcome |-> outcome, onSchedule |-> TRUE, event |-> CHOOSE e \in Events : e.kind = "none",
     shows |-> Duration + 1, samples |-> Instants, preflight |-> "pass", report |-> "pass",
     agrees |-> TRUE, signature |-> 1, base |-> r]

\* One disturbance of a cell.
DisturbedCell(sound) ==
    \/ \E e \in Events, times \in SUBSET Instants, age \in 0 .. MaxAge :
          cell' = [sound EXCEPT !.event = e, !.shows = e.at + age, !.samples = times]
    \/ cell' \in {[sound EXCEPT !.onSchedule = FALSE], [sound EXCEPT !.agrees = FALSE],
                  [sound EXCEPT !.signature = 2], [sound EXCEPT !.base = @ - 1]}
    \/ \E gate \in {"pass", "fail", "missing"}, onDisk \in {"pass", "fail", "other"} :
          cell' = [sound EXCEPT !.preflight = gate, !.report = onDisk]

\* The points of the series that carries the name of the Pod seen before the plateau.
SeriesWindow(c) ==
    {t \in c.samples : c.event.kind = "replaced" => t < c.shows}

CompleteSeries(times) ==
    /\ times # {}
    /\ Min(times) <= MaxGap
    /\ \A t \in times \ {Max(times)} : \E u \in times : t < u /\ u - t <= MaxGap
\* The window of a series has no gap: at its start, inside, at its end.
ValidateCompleteSeries(times) ==
    /\ times # {}
    /\ Min(times) <= MaxGap /\ Duration - Max(times) <= MaxGap
    /\ \A t \in times \ {Max(times)} : \E u \in times : t < u /\ u - t <= MaxGap

\* The restart count is a gauge that stays up; readiness is lost for the instant.
ValidateTelemetry(c) ==
    LET times == SeriesWindow(c) IN
    /\ ValidateCompleteSeries(times)
    /\ c.event.kind = "restart" => \A t \in times : t < c.shows

\* The gate passed when it was recorded, and its report still says so of this Pod.  The
\* sweep requires it, and the telemetry: the flags that waive them are off by default.
ValidateTopologyPreflight(c) ==
    /\ c.preflight = "pass" /\ c.report = "pass"
    /\ c.event.kind = "replaced" => c.event.at > -2

Attested(c) == c.agrees /\ ValidateTopologyPreflight(c) /\ ValidateTelemetry(c)

----------------------------------------------------------------------------
(* The rates.                                                              *)

Offered == ToSet(Plan)

\* In ascending order: the k-th is the one that k - 1 are below.
Rates ==
    [k \in 1 .. Cardinality(Offered) |->
        CHOOSE rate \in Offered : Cardinality({r \in Offered : r < rate}) = k - 1]
CellsAt(rate, attested) == SelectSeq(attested, LAMBDA r : Plan[r.row] = rate)
CellsOf(k) == CellsAt(Rates[k], records)

\* Twice the median of a non-empty sequence.
Median2(values) ==
    LET ordered == SortSeq(values, <)
        n == Len(values)
    IN  ordered[(n + 1) \div 2] + ordered[n \div 2 + 1]

\* The population coefficient of variation is at most percent.
CVWithin(values, percent) ==
    LET n == Len(values)
        sum == FoldSeq(LAMBDA v, acc : v + acc, 0, values)
        squares == FoldSeq(LAMBDA v, acc : v * v + acc, 0, values)
    IN  /\ n >= 2 /\ sum > 0
        /\ 10000 * (n * squares - sum * sum) <= percent * percent * sum * sum

\* A rate: medians and sums over its cells; a latency median only over the cells that
\* have one, 0 when none has.
Measures(cells, rate) ==
    LET Of(Field(_)) == [i \in DOMAIN cells |-> Field(cells[i].outcome)]
        useful == [i \in DOMAIN cells |-> rate * cells[i].outcome.useful]
        p99 == SelectSeq(Of(LAMBDA o : o.p99), LAMBDA v : v > 0)
        total(Field(_)) == FoldSeq(LAMBDA v, acc : v + acc, 0, Of(Field))
    IN  [repetitions |-> Len(cells),
         success |-> Median2(Of(LAMBDA o : o.success)),
         drops |-> Median2(Of(LAMBDA o : o.drops)),
         drain |-> Median2(Of(LAMBDA o : o.drain)),
         errors |-> total(LAMBDA o : o.errors),
         health |-> total(LAMBDA o : o.health),
         p99 |-> IF p99 = <<>> THEN 0 ELSE Median2(p99),
         useful |-> Median2(useful),
         steady |-> CVWithin(Of(LAMBDA o : o.useful), 10) /\ CVWithin(p99, 15)]

Aggregate(k) == Measures(CellsOf(k), Rates[k])

\* The signals of one rate, read beside the rate below it and the lowest one.
Capacity(current, previous, added) ==
    \/ current.success < 2 * 990
    \/ current.drops > 0
    \/ current.drain > 2 * 10
    \/ current.errors > 0
    \/ current.health > 0
    \/ current.p99 = 0
    \/ current.useful - previous.useful < 100 * added    \* half of the added offer
LatencyElevated(current, baseline) ==
    current.p99 > 0 /\ baseline.p99 > 0 /\ 4 * current.p99 >= 5 * baseline.p99

Stressed(k) == Capacity(Aggregate(k), Aggregate(k - 1), Rates[k] - Rates[k - 1])
Elevated(k) == LatencyElevated(Aggregate(k), Aggregate(1))

Repeatable(ks) ==
    \A k \in ks : Aggregate(k).repetitions >= Enough /\ Aggregate(k).steady

Bracket(lower, upper, witnesses) ==
    [status |-> "bracketed", lower |-> lower, upper |-> upper,
     confidence |-> IF Repeatable(witnesses) THEN "repeatable" ELSE "exploratory"]
NoBracket(status) ==
    [status |-> status, lower |-> 0, upper |-> 0, confidence |-> "none"]

----------------------------------------------------------------------------
(* The sweep and its summary.                                              *)

Init ==
    /\ pc = "run" /\ row = 1 /\ disturbed = FALSE
    /\ cell = Sound(0, CHOOSE o \in Outcomes : TRUE)
    /\ records = <<>>
    /\ point = 0 /\ pending = 0
    /\ knee = NoBracket("none")

\* The sweep runs the cell of a row.
RunCell ==
    /\ pc = "run"
    /\ \E outcome \in Outcomes :
          LET sound == Sound(row, outcome) IN
          \/ cell' = sound /\ UNCHANGED disturbed
          \/ /\ row \in Disturbable /\ ~disturbed
             /\ disturbed' = TRUE
             /\ DisturbedCell(sound)
    /\ pc' = "validate"
    /\ UNCHANGED <<row, records, point, pending, knee>>

Record(c) == [row |-> row, outcome |-> c.outcome, onSchedule |-> c.onSchedule,
              signature |-> c.signature, base |-> c.base]

\* One ValidationError ends the summarizer without a summary.
ValidateCell ==
    /\ pc = "validate" /\ Attested(cell)
    /\ records' = Append(records, Record(cell))
    /\ IF row < Len(Plan) THEN row' = row + 1 /\ pc' = "run" ELSE row' = row /\ pc' = "summarize"
    /\ UNCHANGED <<cell, disturbed, point, pending, knee>>

Refuse ==
    /\ pc = "validate" /\ ~Attested(cell)
    /\ pc' = "error"
    /\ UNCHANGED <<row, cell, disturbed, records, point, pending, knee>>

\* One runtime signature, disjoint sequence ranges.
Consistent ==
    /\ Cardinality({r.signature : r \in ToSet(records)}) = 1
    /\ Cardinality({r.base : r \in ToSet(records)}) = Len(records)

Evaluable == (\A r \in ToSet(records) : r.onSchedule) /\ Len(Rates) >= 2

Summarize ==
    /\ pc = "summarize"
    /\ pc' = IF ~Consistent THEN "error" ELSE IF Evaluable THEN "infer" ELSE "done"
    /\ knee' = IF Consistent /\ ~Evaluable THEN NoBracket("not_evaluable") ELSE knee
    /\ point' = 2
    /\ UNCHANGED <<row, cell, disturbed, records, pending>>

\* The loop over the rates above the lowest one.
Confirmed ==
    /\ pc = "infer" /\ point <= Len(Rates)
    /\ pending > 0 /\ Elevated(point)
    /\ knee' = Bracket(pending - 1, pending, {pending - 1, pending, point})
    /\ pc' = "done"
    /\ UNCHANGED <<row, cell, disturbed, records, point, pending>>

CapacityTriggered ==
    /\ pc = "infer" /\ point <= Len(Rates)
    /\ ~(pending > 0 /\ Elevated(point)) /\ Stressed(point)
    /\ knee' = Bracket(point - 1, point, {point - 1, point})
    /\ pc' = "done"
    /\ UNCHANGED <<row, cell, disturbed, records, point, pending>>

HeldOver == IF Elevated(point) THEN point ELSE pending
Held == IF Elevated(point) THEN point ELSE 0

NextPoint ==
    /\ pc = "infer" /\ point <= Len(Rates)
    /\ ~(pending > 0 /\ Elevated(point)) /\ ~Stressed(point)
    /\ pending' = Held
    /\ point' = point + 1
    /\ UNCHANGED <<pc, row, cell, disturbed, records, knee>>

NotReached ==
    /\ pc = "infer" /\ point > Len(Rates)
    /\ knee' = NoBracket("not_reached")
    /\ pc' = "done"
    /\ UNCHANGED <<row, cell, disturbed, records, point, pending>>

InferKnee == Confirmed \/ CapacityTriggered \/ NextPoint \/ NotReached

Next == RunCell \/ ValidateCell \/ Refuse \/ Summarize \/ InferKnee

Spec == Init /\ [][Next]_vars

----------------------------------------------------------------------------
(* Properties.                                                             *)

\* A cell that is attested was served by the Pod that the gate looked at, without a
\* restart, up to the last gap of its telemetry and the age of a value: whatever points
\* are missing or repeat an older scrape, what happens earlier leaves a point that shows
\* it or a gap that is too long.
AttestedPodServedThePlateau ==
    (pc \notin {"validate", "error"} /\ records # <<>>) =>
        cell.event.at > Duration - MaxGap - MaxAge

\* The knee is bracketed at the first rate above the lowest one that shows a capacity
\* signal or whose elevated latency the next rate confirms, and is not reached exactly
\* when there is none (knee_inference_policy of the summary).
KneeIsTheFirstSignal ==
    LET signals == {k \in 2 .. Len(Rates) :
                       Stressed(k) \/ (k < Len(Rates) /\ Elevated(k) /\ Elevated(k + 1))}
    IN  pc = "done" /\ knee.status # "not_evaluable" =>
            IF signals = {}
              THEN knee.status = "not_reached"
              ELSE knee.upper = Min(signals) /\ knee.lower = knee.upper - 1
=============================================================================
