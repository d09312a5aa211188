----------------------------- MODULE ClosedLoop -----------------------------
(***************************************************************************)
(* The closed loop of main in instrumentation/reference/src/bin/           *)
(* sustained-corpus-probe.rs: concurrency workers that meet main at two    *)
(* barriers, wait for the shared start, claim rows of the corpus with one  *)
(* atomic counter until the deadline or the end of the corpus, and merge   *)
(* their counts into the shared ones.                                      *)
(*                                                                         *)
(* Time advances in ticks, at any moment of any thread, and saturates one  *)
(* tick after the deadline.  An RPC of the closed loop has no timeout.     *)
(***************************************************************************)
EXTENDS Naturals, FiniteSets

CONSTANTS
    Workers,    \* the concurrency tasks
    Rows,       \* plateau rows: candidate_rows
    SharedStart, \* start_epoch_ms, in ticks, after the first
    Deadline    \* start plus duration_seconds, after the start

VARIABLES
    now,        \* ticks
    mpc,        \* where main is
    wpc,        \* where each worker is
    next,       \* next_row
    answer,     \* the status of its answered RPC
    local,      \* its local_statuses (by kind), local_drained and local_histogram
    shared,     \* statuses, drained_after_deadline and histogram
    exhausted   \* exhausted

counts == <<answer, local, shared>>
workerVars == <<wpc, next, exhausted, counts>>
vars == <<now, mpc, workerVars>>

MainStates == {"spawn", "ready", "release", "join", "reported", "panicked"}
WorkerStates == {"spawned", "ready", "release", "sleep", "check", "claim", "send",
                 "rpc", "answered", "merge", "done"}
Tallies == {"ok", "error", "samples", "drained"}
NoCounts == [t \in Tallies |-> 0]

\* Every count of the code is unsigned; ClaimsAccounted bounds them.
TypeOK ==
    /\ now \in Nat /\ mpc \in MainStates
    /\ wpc \in [Workers -> WorkerStates]
    /\ next \in Nat
    /\ answer \in [Workers -> {"ok", "error"}]
    /\ local \in [Workers -> [Tallies -> Nat]]
    /\ shared \in [Tallies -> Nat]
    /\ exhausted \in BOOLEAN

\* main has just checked that it is ready before the start.
Init ==
    /\ now \in 0 .. SharedStart - 1 /\ mpc = "spawn"
    /\ wpc = [w \in Workers |-> "spawned"]
    /\ next = 0 /\ exhausted = FALSE
    /\ answer = [w \in Workers |-> "ok"]
    /\ local = [w \in Workers |-> NoCounts]
    /\ shared = NoCounts

Alive == mpc \notin {"reported", "panicked"}

Tick ==
    /\ Alive /\ now <= Deadline
    /\ now' = now + 1
    /\ UNCHANGED <<mpc, workerVars>>

-----------------------------------------------------------------------------
(* The barriers, of concurrency + 1 parties each.                          *)

ReadyOpen == mpc # "spawn" /\ \A w \in Workers : wpc[w] # "spawned"
ReleaseOpen ==
    /\ mpc \in {"release", "join"}
    /\ \A w \in Workers : wpc[w] \notin {"spawned", "ready"}

MainStep(from, to) == mpc = from /\ mpc' = to /\ UNCHANGED <<now, workerVars>>

\* Every worker is spawned, and main waits at the ready barrier.
MainReady == MainStep("spawn", "ready")

\* workers_ready_epoch_ms must be before the start, or the probe panics.
MainRelease == ReadyOpen /\ MainStep("ready", IF now < SharedStart THEN "release" ELSE "panicked")

MainJoin == ReleaseOpen /\ MainStep("release", "join")

\* Every worker is joined: the report is made, exit 3 if exhausted.
Report == (\A w \in Workers : wpc[w] = "done") /\ MainStep("join", "reported")

WorkerStep(w, from, to) ==
    /\ Alive
    /\ wpc[w] = from /\ wpc' = [wpc EXCEPT ![w] = to]
    /\ UNCHANGED <<now, mpc>>

Moves(w, from, to) == WorkerStep(w, from, to) /\ UNCHANGED <<next, exhausted, counts>>

Arrive(w) == Moves(w, "spawned", "ready")
PassReady(w) == ReadyOpen /\ Moves(w, "ready", "release")

\* Seeded fault: the workers do not wait for main's check of the clock.
PassUnreleased(w) == Moves(w, "release", "sleep")

PassRelease(w) == ReleaseOpen /\ Moves(w, "release", "sleep")

-----------------------------------------------------------------------------
(* The loop of a worker.                                                   *)

\* sleep_until(start_instant)
Wake(w) == now >= SharedStart /\ Moves(w, "sleep", "check")

CheckDeadline(w) == Moves(w, "check", IF now >= Deadline THEN "merge" ELSE "claim")

\* fetch_add of next_row; beyond the corpus the worker stops.
Claim(w) ==
    /\ WorkerStep(w, "claim", IF next < Rows THEN "send" ELSE "merge")
    /\ next' = next + 1
    /\ exhausted' = (exhausted \/ next >= Rows)
    /\ UNCHANGED counts

Send(w) == Moves(w, "send", "rpc")

\* Seeded fault: the answer never comes, and nothing times the RPC out.
AnswerLost(w) == wpc[w] = "rpc" /\ UNCHANGED vars

\* The classify call returns.
Answer(w) ==
    /\ WorkerStep(w, "rpc", "answered")
    /\ \E status \in {"ok", "error"} : answer' = [answer EXCEPT ![w] = status]
    /\ UNCHANGED <<next, exhausted, local, shared>>

\* The completion is dated: within the plateau, where a success is sampled, or
\* in the drain.
Count(w) ==
    /\ WorkerStep(w, "answered", "check")
    /\ LET tallies == IF now > Deadline THEN {"drained"}
                      ELSE {answer[w]} \cup IF answer[w] = "ok" THEN {"samples"} ELSE {}
       IN  local' = [local EXCEPT ![w] =
                       [t \in Tallies |-> IF t \in tallies THEN @[t] + 1 ELSE @[t]]]
    /\ answer' = [answer EXCEPT ![w] = "ok"]
    /\ UNCHANGED <<next, exhausted, shared>>

\* Seeded fault: the drained counts replace those of the workers before.
MergeReplaces(w) ==
    /\ WorkerStep(w, "merge", "done")
    /\ shared' = [t \in Tallies |-> local[w][t] + IF t = "drained" THEN 0 ELSE shared[t]]
    /\ local' = [local EXCEPT ![w] = NoCounts]
    /\ UNCHANGED <<next, exhausted, answer>>

\* Each map is merged under its own lock; they only grow, and main reads them
\* once every worker is joined, so that one step stands for the three.
Merge(w) ==
    /\ WorkerStep(w, "merge", "done")
    /\ shared' = [t \in Tallies |-> local[w][t] + shared[t]]
    /\ local' = [local EXCEPT ![w] = NoCounts]
    /\ UNCHANGED <<next, exhausted, answer>>

-----------------------------------------------------------------------------
Main == MainReady \/ MainRelease \/ MainJoin \/ Report

Worker(w) ==
    \/ Arrive(w) \/ PassReady(w) \/ PassRelease(w) \/ Wake(w) \/ CheckDeadline(w)
    \/ Claim(w) \/ Send(w) \/ Count(w) \/ Merge(w)

Next == Tick \/ Main \/ \E w \in Workers : Worker(w) \/ Answer(w)

Spec == Init /\ [][Next]_vars

\* Time passes, the runtime polls its tasks, and, unlike in the open loop, the
\* classifier answers: with no RPC timeout the probe has to rely on it.
FairSpec ==
    /\ Spec /\ WF_vars(Tick) /\ WF_vars(Main)
    /\ \A w \in Workers : WF_vars(Worker(w)) /\ WF_vars(Answer(w))

-----------------------------------------------------------------------------
(* Properties.                                                             *)

Busy == {w \in Workers : wpc[w] \in {"send", "rpc", "answered"}}
Claimed == IF next < Rows THEN next ELSE Rows      \* claimed_plateau_rows

\* The units of a tally that the workers have yet to merge, one element each.
Held(t) == UNION {{w} \X (1 .. local[w][t]) : w \in Workers}
Total(t) == shared[t] + Cardinality(Held(t))

\* Every row claimed is an RPC on its way or counted exactly once, in the
\* plateau or in the drain, each success in the plateau is one sample, a worker
\* has at most one RPC that ends in the drain, however long they take, and
\* corpus_exhausted is reported exactly when a worker found no row.
ClaimsAccounted ==
    /\ Claimed = Cardinality(Busy) + Total("ok") + Total("error") + Total("drained")
    /\ Total("samples") = Total("ok")
    /\ Total("drained") <= Cardinality(Workers)
    /\ mpc = "reported" => (exhausted <=> next > Rows)

\* A probe that was not ready in time has sent nothing when it gives up, and no
\* probe sends before the shared start ("workers did not reach the start
\* barrier before shared start epoch").
NothingSentEarly ==
    /\ now < SharedStart => Busy = {}
    /\ mpc = "panicked" => next = 0

\* The closed loop ends, or gives up, if the classifier answers.
LoopEnds == <>(mpc \in {"reported", "panicked"})
=============================================================================
