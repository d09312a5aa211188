--------------------------- MODULE CellEvidence ----------------------------
(***************************************************************************)
(* One inference cell and the files it leaves.  The cell runner            *)
(* (hack/arena-sc-inference-cell.sh) snapshots the targets, drives load at *)
(* them and snapshots them again; beside it the recovery observer of       *)
(* hack/arena-sc-inference-matrix.sh learns the plateau from the driver    *)
(* Jobs and samples the targets at fixed delays after its end, each sample *)
(* read by several commands; the harness then applies its gates and        *)
(* attests the cell.  analyze_cell of hack/arena-sc-aggregate-matrix.py    *)
(* recomputes the verdict from the files alone: Errors is the set of the   *)
(* checks that fail.  Targets restart, are replaced, lose readiness and    *)
(* nodes flap between any two commands.                                    *)
(***************************************************************************)
EXTENDS Integers, FiniteSets, FiniteSetsExt, Sequences, SequencesExt

CONSTANTS
    Replicas,     \* the targets of the cell, each with its driver
    Checkpoints,  \* RECOVERY_CHECKPOINTS: seconds after the plateau
    MaxDelay,     \* RECOVERY_MAX_DELAY_SECONDS
    Duration,     \* DURATION_SECONDS
    Span,         \* rows reserved for an endpoint
    Profiles,     \* what a driver may report, among them the clean one
    Clean,
    MaxNow,       \* bound on the clock
    MaxFaults     \* bound on what happens to targets and nodes

Targets == 1 .. Replicas

VARIABLES
    now,          \* the clock, in seconds
    pods,         \* each target: its Pod, the first, second, ... in its place, with its
                  \* restarts and readiness; the Warnings on record of each of them
    nodeReady,    \* both nodes are Ready
    faults, hurt, \* what has happened to the targets while the evidence was taken
    runner,       \* where the cell runner and the harness around it are
    observer,     \* where the recovery observer is
    start,        \* start_epoch_ms of the driver Jobs; 0: not published
    files         \* the directory of the cell

cluster == <<now, pods, nodeReady, faults, hurt>>
cellVars == <<cluster, runner, observer, start, files>>

NoFiles ==
    [before |-> <<>>, baseline |-> <<>>, drivers |-> <<>>, after |-> <<>>, events |-> <<>>,
     summary |-> <<>>, telemetry |-> FALSE, timeline |-> <<>>]

\* The rollout left healthy targets, each with a Warning of its start on record.
CellInit ==
    /\ now = 0 /\ start = 0 /\ nodeReady = TRUE /\ faults = 0 /\ hurt = {}
    /\ pods = [t \in Targets |-> [uid |-> 1, restarts |-> 0, ready |-> TRUE, warnings |-> <<1>>]]
    /\ runner = "targets" /\ observer = <<"anchor", 0>>
    /\ files = NoFiles

----------------------------------------------------------------------------
(* The cluster.                                                            *)

Decided == runner \in {"attested", "failed"}

\* Disturbances that the evidence must show: from the first snapshot to the last, of
\* the Pods of the first.
Watching(t, kind) ==
    IF kind = "warning"
    THEN /\ files.baseline # <<>> /\ observer # <<"gone", Len(Checkpoints)>>
         /\ pods[t].uid = files.before[t].uid
    ELSE /\ files.before # <<>>
         /\ ~ (observer[2] = Len(Checkpoints) /\ observer[1] # "wait" /\ observer[1] # "pods")

Disturb(t, pod, kind) ==
    /\ faults < MaxFaults /\ ~Decided
    /\ faults' = faults + 1
    /\ pods' = [pods EXCEPT ![t] = pod]
    /\ hurt' = IF Watching(t, kind) THEN hurt \cup {kind} ELSE hurt
    /\ UNCHANGED <<now, nodeReady, runner, observer, start, files>>

Restart(t) == Disturb(t, [pods[t] EXCEPT !.restarts = @ + 1], "restart")

\* The events of a Pod stay on record when it is replaced.
Replace(t) ==
    Disturb(t, [uid |-> pods[t].uid + 1, restarts |-> 0, ready |-> FALSE,
                warnings |-> Append(pods[t].warnings, 0)], "replace")

\* A failed readiness probe is also an Unhealthy event of the Pod.
LoseReady(t) ==
    /\ pods[t].ready
    /\ Disturb(t, [pods[t] EXCEPT !.ready = FALSE, !.warnings[pods[t].uid] = @ + 1], "warning")
RegainReady(t) ==
    /\ ~pods[t].ready /\ ~Decided
    /\ pods' = [pods EXCEPT ![t].ready = TRUE]
    /\ UNCHANGED <<now, nodeReady, faults, hurt, runner, observer, start, files>>

NodeFlaps ==
    /\ ~Decided /\ faults < MaxFaults /\ faults' = faults + 1
    /\ nodeReady' = ~nodeReady
    /\ UNCHANGED <<now, pods, hurt, runner, observer, start, files>>

\* Nothing depends on the time before the Jobs are published.
Tick ==
    /\ start > 0 /\ now < MaxNow /\ ~Decided
    /\ now' = now + 1
    /\ UNCHANGED <<pods, nodeReady, faults, hurt, runner, observer, start, files>>

----------------------------------------------------------------------------
(* The gates that the scripts and the analysis share.                      *)

Uids(snapshot) == [t \in DOMAIN snapshot |-> snapshot[t].uid]
Healthy(snapshot) == \A t \in DOMAIN snapshot : snapshot[t].ready /\ snapshot[t].restarts = 0

\* target_snapshot_valid: the same Pods, all healthy.
SnapshotValid(snapshot, uids) == Uids(snapshot) = uids /\ Healthy(snapshot)

\* Seeded fault: an event counts when it is new, not when its count has grown.
WarnedIfNew(before, snapshot, uids) ==
    \E t \in DOMAIN uids :
        snapshot[t].warnings[uids[t]] > 0 /\ before[t].warnings[uids[t]] = 0

\* warning_event_delta: an event counts for the Pods of the first snapshot only.
Warned(before, snapshot, uids) ==
    \E t \in DOMAIN uids : snapshot[t].warnings[uids[t]] > before[t].warnings[uids[t]]

PlateauEnd == start + Duration
Target(i) == PlateauEnd + Checkpoints[i]

Total(drivers, field) == MapThenSumSet(LAMBDA t : drivers[t][field], DOMAIN drivers)

\* The checks of one driver's report, closed loop.
DriverSound(d) ==
    /\ ~d.exhausted /\ ~d.late /\ d.errors = 0
    /\ d.job = "complete"

\* The rows of the endpoints follow each other from the cell's base, here 0.
RowsReserved(drivers) ==
    {drivers[t].first : t \in DOMAIN drivers} =
        {(i - 1) * Span : i \in 1 .. Cardinality(DOMAIN drivers)}

Accounted(drivers) ==
    /\ Total(drivers, "claimed") > 0
    /\ Total(drivers, "claimed") =
           Total(drivers, "ok") + Total(drivers, "errors") + Total(drivers, "drained")

----------------------------------------------------------------------------
(* The cell runner.                                                        *)

RunnerStep(from, to) ==
    runner = from /\ runner' = to /\ UNCHANGED <<cluster, observer>>

TargetsBefore ==
    /\ IF Healthy(pods)
       THEN RunnerStep("targets", "baseline") /\ files' = [files EXCEPT !.before = pods]
       ELSE RunnerStep("targets", "exited") /\ UNCHANGED files
    /\ UNCHANGED start

EventsBefore ==
    /\ RunnerStep("baseline", "publish")
    /\ files' = [files EXCEPT !.baseline = pods]
    /\ UNCHANGED start

PublishJobs ==
    /\ RunnerStep("publish", "load")
    /\ start' = now + 1
    /\ UNCHANGED files

\* The Jobs are over, or have not completed when the wait for them is: one driver
\* may have fared otherwise than the rest.
DriversEnd ==
    /\ now >= PlateauEnd
    /\ \E odd \in Targets, p \in Profiles :
          /\ files' = [files EXCEPT !.drivers = [t \in Targets |->
                          LET d == IF t = odd THEN p ELSE Clean
                          IN  [d EXCEPT !.first = @ + (t - 1) * Span]]]
          /\ RunnerStep("load", IF p.job = "failed" THEN "exited" ELSE "after")
    /\ UNCHANGED start

TargetsAfter ==
    /\ RunnerStep("after", "events")
    /\ files' = [files EXCEPT !.after = pods]
    /\ UNCHANGED start

EventsAfter ==
    /\ RunnerStep("events", "summarize")
    /\ files' = [files EXCEPT !.events = pods]
    /\ UNCHANGED start

\* The runner's own gates: exit 4 for the targets and their nodes, exit 5 for the
\* summary.
Summary(drivers) ==
    [field \in {"claimed", "ok", "errors", "drained"} |-> Total(drivers, field)]

SummaryValid ==
    /\ Total(files.drivers, "claimed") > 0 /\ Total(files.drivers, "errors") = 0
    /\ \A t \in Targets : ~files.drivers[t].exhausted /\ ~files.drivers[t].late
    /\ ~Warned(files.baseline, files.events, Uids(files.before))

Summarize ==
    /\ runner = "summarize"
    /\ IF SnapshotValid(files.after, Uids(files.before)) /\ nodeReady /\ SummaryValid
       THEN RunnerStep("summarize", "summarized") ELSE RunnerStep("summarize", "exited")
    /\ files' = [files EXCEPT !.summary = Summary(files.drivers)]
    /\ UNCHANGED start

----------------------------------------------------------------------------
(* The recovery observer.  observer is what it does next, and for which of *)
(* the checkpoints.                                                        *)

At(step) == observer[1] = step
ObserverStep(to) == observer' = to /\ UNCHANGED <<cluster, runner, start>>
Give == ObserverStep(<<"failed", observer[2]>>) /\ UNCHANGED files
Next1 == IF observer[2] < Len(Checkpoints) THEN <<"wait", observer[2] + 1>> ELSE <<"gone", observer[2]>>
Sample == Len(files.timeline)

\* It polls for the Jobs, and gives up when the runner has exited before them.
DiscoverPlateau ==
    /\ At("anchor")
    /\ \/ start > 0 /\ ObserverStep(<<"wait", 1>>) /\ UNCHANGED files
       \/ start = 0 /\ runner \in {"exited", "failed"} /\ Give

AwaitCheckpoint ==
    /\ At("wait") /\ now >= Target(observer[2])
    /\ IF now - Target(observer[2]) > MaxDelay THEN Give
       ELSE ObserverStep(<<"pods", observer[2]>>) /\ UNCHANGED files

\* assert_target_health: the Pods, then the Deployment that the gates do not ask
\* how many replicas are ready ...
ReadPods ==
    /\ At("pods") /\ ObserverStep(<<"deployment", observer[2]>>)
    /\ files' = [files EXCEPT !.timeline = Append(@,
                    [started |-> now, pods |-> pods, available |-> FALSE, nodes |-> FALSE,
                     events |-> <<>>, observed |-> 0])]

ReadDeployment ==
    /\ At("deployment")
    /\ IF SnapshotValid(files.timeline[Sample].pods, Uids(files.before))
       THEN /\ ObserverStep(<<"node", observer[2]>>)
            /\ files' = [files EXCEPT !.timeline[Sample].available =
                                \A t \in Targets : pods[t].ready]
       ELSE Give

\* ... and the nodes, which are snapshotted after they were found Ready.
CheckNodes ==
    /\ At("node")
    /\ IF nodeReady THEN ObserverStep(<<"nodes", observer[2]>>) /\ UNCHANGED files ELSE Give

ReadNodes ==
    /\ At("nodes") /\ ObserverStep(<<"events", observer[2]>>)
    /\ files' = [files EXCEPT !.timeline[Sample].nodes = nodeReady]

ReadEvents ==
    /\ At("events")
    /\ IF Warned(files.baseline, pods, Uids(files.before)) \/ now - Target(observer[2]) > MaxDelay
       THEN Give
       ELSE /\ ObserverStep(Next1)
            /\ files' = [files EXCEPT !.timeline[Sample].events = pods,
                                      !.timeline[Sample].observed = now]

Observe ==
    DiscoverPlateau \/ AwaitCheckpoint \/ ReadPods \/ ReadDeployment
        \/ CheckNodes \/ ReadNodes \/ ReadEvents

----------------------------------------------------------------------------
(* The harness, and the analysis of the files.                             *)

\* Seeded fault: the harness does not look at how the observer ended.
CellFailsWithRunner ==
    /\ runner = "exited"
    /\ runner' = "failed" /\ observer' = <<"failed", observer[2]>>
    /\ UNCHANGED <<cluster, start, files>>

\* The harness cancels the observer of a runner that failed.
CellFails ==
    /\ \/ runner = "exited"
       \/ runner = "summarized" /\ At("failed")
    /\ runner' = "failed" /\ observer' = <<"failed", observer[2]>>
    /\ UNCHANGED <<cluster, start, files>>

\* What Prometheus has of the plateau: a flap may fall between two samples.
CaptureTelemetry ==
    /\ runner = "summarized" /\ At("gone")
    /\ runner' = "captured"
    /\ \E ready \in BOOLEAN : files' = [files EXCEPT !.telemetry = ready]
    /\ UNCHANGED <<cluster, observer, start>>

OnTime(i) ==
    LET line == files.timeline[i]
    IN  /\ line.started >= Target(i) /\ line.observed >= line.started
        /\ line.observed - Target(i) <= MaxDelay

\* Seeded fault: requests that neither completed nor drained are not missed.
HarnessAcceptsLosses ==
    /\ \A t \in Targets : DriverSound(files.drivers[t]) /\ files.drivers[t].drainedOK
    /\ RowsReserved(files.drivers)
    /\ Len(files.timeline) = Len(Checkpoints)
    /\ \A i \in DOMAIN files.timeline : OnTime(i)
    /\ SnapshotValid(files.after, Uids(files.before))
    /\ files.telemetry

\* validate_cell_artifacts
HarnessAccepts ==
    /\ \A t \in Targets : DriverSound(files.drivers[t]) /\ files.drivers[t].drainedOK
    /\ RowsReserved(files.drivers) /\ Accounted(files.drivers)
    /\ Len(files.timeline) = Len(Checkpoints)
    /\ \A i \in DOMAIN files.timeline : OnTime(i)
    /\ SnapshotValid(files.after, Uids(files.before))
    /\ files.telemetry

Validate ==
    /\ runner = "captured"
    /\ runner' = IF HarnessAccepts THEN "attested" ELSE "failed"
    /\ UNCHANGED <<cluster, observer, start, files>>

\* The driver checks of analyze_cell ...
DriverErrors ==
    {error \in {"drivers", "rows", "accounting", "summary"} :
        \/ error = "drivers" /\ \E t \in Targets : ~DriverSound(files.drivers[t])
        \/ error = "rows" /\ ~RowsReserved(files.drivers)
        \/ error = "accounting" /\ ~Accounted(files.drivers)
        \/ error = "summary" /\ files.summary # Summary(files.drivers)}

\* ... those of the targets, their events and their telemetry ...
TargetErrors ==
    LET uids == Uids(files.before)
    IN {error \in {"before", "after", "events", "telemetry"} :
          \/ error = "before" /\ ~SnapshotValid(files.before, uids)
          \/ error = "after" /\ ~SnapshotValid(files.after, uids)
          \/ error = "events" /\ Warned(files.baseline, files.events, uids)
          \/ error = "telemetry" /\ ~files.telemetry}

\* ... and recovery_validation.
RecoveryErrors ==
    LET uids == Uids(files.before)
        Some(Bad(_)) == \E i \in DOMAIN files.timeline : Bad(i)
    IN {error \in {"checkpoints", "timing", "health", "nodes", "warnings", "deployment"} :
          \/ error = "checkpoints" /\ Len(files.timeline) # Len(Checkpoints)
          \/ error = "timing" /\ Some(LAMBDA i : ~OnTime(i))
          \/ error = "health" /\ Some(LAMBDA i : ~SnapshotValid(files.timeline[i].pods, uids))
          \/ error = "nodes" /\ Some(LAMBDA i : ~files.timeline[i].nodes)
          \/ error = "warnings"
                /\ Some(LAMBDA i : Warned(files.baseline, files.timeline[i].events, uids))
          \/ error = "deployment" /\ Some(LAMBDA i : ~files.timeline[i].available)}

Errors == DriverErrors \cup TargetErrors \cup RecoveryErrors

----------------------------------------------------------------------------

Runner ==
    TargetsBefore \/ EventsBefore \/ PublishJobs \/ DriversEnd \/ TargetsAfter
        \/ EventsAfter \/ Summarize

Harness == CellFails \/ CaptureTelemetry \/ Validate

Disturbance ==
    NodeFlaps \/ \E t \in Targets : Restart(t) \/ Replace(t) \/ LoseReady(t) \/ RegainReady(t)

CellNext == Tick \/ Disturbance \/ Runner \/ Observe \/ Harness

\* Time passes, and no command of the scripts hangs.
CellFairness == WF_cellVars(Tick) /\ WF_cellVars(Runner) /\ WF_cellVars(Observe) /\ WF_cellVars(Harness)

CellSpec == CellInit /\ [][CellNext]_cellVars /\ CellFairness

----------------------------------------------------------------------------
(* Properties.                                                             *)

\* What the harness attests the analysis recomputes, but for what changed between
\* the commands of one recovery sample: the Deployment is read after the Pods and
\* the nodes again after they were found Ready, and only the analysis looks.
AttestedRecomputes == runner = "attested" => Errors \subseteq {"deployment", "nodes"}

\* The files of a cell that counts show its targets undisturbed: none was restarted
\* or replaced between the first snapshot and the last recovery sample, and none had
\* a Warning after the first list of events, although nobody watched in between.
ValidIsUndisturbed == runner = "attested" /\ Errors = {} => hurt = {}

\* Every cell is decided: the observer does not wait for the Jobs of a runner that
\* has exited, nor the harness for an observer that failed.
CellDecided == <>Decided
============================================================================
