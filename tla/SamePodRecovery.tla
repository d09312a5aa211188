-------------------------- MODULE SamePodRecovery --------------------------
(***************************************************************************)
(* One same-Pod recovery cycle (hack/arena-sc-same-pod-recovery-cycle.sh)  *)
(* and the verdict of hack/arena-sc-same-pod-recovery-summarize.py on it.  *)
(* Absolute-start driver Jobs (pre, overload, sparse recovery probes,      *)
(* post) are armed before T0; a checkpoint of the target authorizes the    *)
(* load, observers watch the Pod, and a cancellation must delete every Job *)
(* before T0 and prove it.  Afterwards the counter that the target logs is *)
(* reconciled with the drivers, and the summarizer decides from the files  *)
(* alone: the recovery time among the probes, the colour, or invalid.      *)
(* Time is in seconds relative to T0; the clock jumps between Instants.    *)
(***************************************************************************)
EXTENDS Integers, FiniteSets, FiniteSetsExt, Sequences, SequencesExt

CONSTANTS
    Offsets,      \* the recovery probes, in seconds after the overload
    PostSlots,    \* requests of the post phase
    Checkpoints,  \* instants of the checkpoints after the load-authorizing one
    Instants,     \* the instants the clock stops at
    Barrier, Bound, BoundDeadline, CancelDeadline, \* leads before T0, negative
    RequestTimeout, DeleteTimeout,                 \* of the two deletions
    OverloadStart, OverloadEnd, PostStart, PostEnd,
    RpcTimeout, LogInterval, MetricSettle, CounterSettle,
    GreenMax, AmberMax,
    MaxFaults     \* bound on what goes wrong

VARIABLES
    clock,
    target,       \* the Pod: uid, restarts and OK responses it counted, and the Warning
                  \* events of the Pod that was bound, uid 0
    logged,       \* the last counter in its log
    jobs,         \* each Job: its state, and its answers in the order of arrival
    hurt,         \* the Pod was disturbed, or shared, before the file that must show it
    faults,
    bound,        \* the load-authorizing checkpoint: waiting, stalled, killed, gate, failed
    monitor,      \* the health monitor: running, done or failed
    seen,         \* its samples and the checkpoints that passed
    runner,       \* where the script is
    due,          \* when its current command is killed, or its loop gives up
    files,        \* what it collected
    status        \* recovery-status.json, and the decision

vars == <<clock, target, logged, jobs, hurt, faults, bound, monitor, seen, runner,
          due, files, status>>
pod == <<target, hurt>>
script == <<runner, due, files, status>>
observers == <<bound, monitor, seen>>

----------------------------------------------------------------------------
(* The plan.                                                               *)

Probes == 3 .. Len(Offsets) + 2
Post == Len(Offsets) + 3
Jobs == 1 .. Post
Start(j) ==
    CASE j = 1 -> 0
      [] j = 2 -> OverloadStart
      [] j \in Probes -> OverloadEnd + Offsets[j - 2]
      [] j = Post -> PostStart
Slots(j) == IF j = Post THEN PostSlots ELSE 1

\* What validate_plan requires of the frozen schedule.
ValidatePlan ==
    /\ \A j, k \in Jobs : j < k => Start(j) < Start(k)
    /\ Barrier < Bound /\ Bound < BoundDeadline
    /\ BoundDeadline + RequestTimeout + DeleteTimeout <= CancelDeadline
    /\ CancelDeadline < 0
    /\ \A c \in Checkpoints : c >= 0

\* The statuses a driver of each phase may report, "slow" when the RTT is over the
\* recovery budget: it matters for the probes and the post phase.
Allowed(j) ==
    CASE j = 1 -> {"good"}
      [] j = 2 -> {"good", "exhausted"}
      [] j \in Probes -> {"good", "slow", "exhausted"}
      [] j = Post -> {"good", "slow"}
Answers(j) == Allowed(j) \cup {"lost"}
Ok(answers) == {i \in DOMAIN answers : answers[i] \in {"good", "slow"}}
Counted(answers) == Cardinality(Ok(answers))

NoDecision == [valid |-> FALSE, time |-> -1, color |-> "none"]

Init ==
    /\ ValidatePlan
    /\ clock = Min(Instants)
    /\ target = [uid |-> 0, restarts |-> 0, warnings |-> 0, served |-> 0]
    /\ logged = 0 /\ hurt = FALSE /\ faults = 0
    /\ jobs = [j \in Jobs |-> [state |-> "created", armed |-> 0, answers |-> <<>>]]
    /\ bound = "waiting" /\ monitor = "idle" /\ seen = {}
    /\ runner = "arming" /\ due = Barrier
    /\ files = [after |-> <<>>, events |-> 0, counter |-> 0, log |-> 0]
    /\ status = [status |-> "none", decision |-> NoDecision]

----------------------------------------------------------------------------
(* The cluster.                                                            *)

AllComplete == \A j \in Jobs : jobs[j].state = "complete"

Fault == runner # "done" /\ faults < MaxFaults /\ faults' = faults + 1

Disturb(pod2, late) ==
    /\ Fault
    /\ target' = pod2 /\ logged' = pod2.served
    /\ hurt' = (hurt \/ ~late)
    /\ UNCHANGED <<clock, jobs, observers, script>>

\* A restart clears the counters of the process.
Restart == Disturb([target EXCEPT !.restarts = @ + 1, !.served = 0], files.after # <<>>)
Replace ==
    /\ target.uid = 0
    /\ Disturb([target EXCEPT !.uid = 1, !.restarts = 0, !.served = 0], files.after # <<>>)

\* The Pod fails a readiness probe and passes the next one: only an event remains,
\* and stays when the Pod is replaced.
Flap ==
    /\ Fault /\ target.uid = 0
    /\ target' = [target EXCEPT !.warnings = @ + 1]
    /\ hurt' = (hurt \/ runner \notin {"summary", "done"})
    /\ UNCHANGED <<clock, logged, jobs, observers, script>>

\* A client that ignores the lock sends a request and gets its answer.
Stray ==
    /\ Fault
    /\ target' = [target EXCEPT !.served = @ + 1]
    /\ hurt' = (hurt \/ ~AllComplete)
    /\ UNCHANGED <<clock, logged, jobs, observers, script>>

----------------------------------------------------------------------------
(* The drivers.                                                            *)

\* The drivers print their ARMED records; one of them may be late.
ArmDue ==
    /\ runner = "arming" /\ \E j \in Jobs : jobs[j].state = "created"
    /\ \A j \in Jobs : jobs[j].armed # clock

Arm ==
    /\ ArmDue
    /\ \E late \in SUBSET Jobs :
          /\ Cardinality(late) <= 1
          /\ IF late = {} THEN faults' = faults ELSE Fault
          /\ jobs' = [j \in Jobs |->
                        IF j \in late \/ jobs[j].state # "created" THEN jobs[j]
                        ELSE [state |-> "armed", armed |-> clock, answers |-> <<>>]]
    /\ UNCHANGED <<clock, pod, logged, observers, script>>

\* The target counts the requests it answers; the next Pod has another address.
Answer(j, a) ==
    /\ IF a = "lost" /\ target.uid = 0 THEN Fault ELSE faults' = faults
    /\ target.uid # 0 => a = "lost"
    /\ target' = [target EXCEPT !.served = @ + IF a \in {"good", "slow"} THEN 1 ELSE 0]
    /\ jobs' = [jobs EXCEPT ![j].answers = Append(@, a),
                            ![j].state = IF Len(jobs[j].answers) + 1 = Slots(j)
                                         THEN "complete" ELSE "running"]
    /\ UNCHANGED <<clock, logged, hurt, observers, script>>

LastAnswer(j) == j = Post /\ Len(jobs[j].answers) + 1 = Slots(j)

\* An armed driver sends on its schedule, whatever became of the script.
SendDue(j) ==
    jobs[j].state \in {"armed", "running"} /\ clock = Start(j) /\ ~LastAnswer(j)

Send(j) ==
    /\ SendDue(j)
    /\ \E a \in Answers(j) : Answer(j, a)

\* The last response of the plateau may drain until the RPC timeout.
Drain ==
    /\ jobs[Post].state = "running" /\ LastAnswer(Post) /\ clock >= PostEnd
    /\ \E a \in Answers(Post) : Answer(Post, a)

----------------------------------------------------------------------------
(* The observers.                                                          *)

Healthy == target.uid = 0 /\ target.restarts = 0
Deleted == [j \in Jobs |-> [jobs[j] EXCEPT !.state = "deleted"]]

\* A request for the deletion of the Jobs fails in an outage, the one that stalled
\* the checkpoint or another.
Outage == bound \in {"stalled", "killed"}
Request(ok) ==
    IF ok THEN jobs' = Deleted /\ faults' = faults
    ELSE jobs' = jobs /\ IF Outage THEN faults' = faults ELSE Fault

\* An observer that fails asks for the deletion and exits.
AbortFromObserver == \E ok \in BOOLEAN : Request(ok)

Observing == runner \in {"bound", "polling"}

\* The load-authorizing checkpoint, killed at its deadline.
BoundDue == Observing /\ bound = "waiting" /\ clock >= Bound

TargetBound ==
    /\ BoundDue
    /\ IF Healthy /\ clock <= BoundDeadline
       THEN bound' = "gate" /\ UNCHANGED <<jobs, faults>>
       ELSE bound' = "failed" /\ AbortFromObserver
    /\ UNCHANGED <<clock, pod, logged, monitor, seen, script>>

Stall ==
    /\ BoundDue
    /\ Fault /\ bound' = "stalled"
    /\ UNCHANGED <<clock, pod, logged, jobs, monitor, seen, script>>

KillDue == Observing /\ bound = "stalled" /\ clock >= BoundDeadline

Kill ==
    /\ KillDue
    /\ bound' = "killed" /\ AbortFromObserver
    /\ UNCHANGED <<clock, pod, logged, monitor, seen, script>>

Seen(what) == seen' = seen \cup {<<what, clock>>}

\* monitor_health: a sample at every instant, until the post phase is over.
SampleDue == Observing /\ monitor = "running" /\ <<"sample", clock>> \notin seen

Sample ==
    /\ SampleDue
    /\ Seen("sample")
    /\ IF Healthy
       THEN /\ monitor' = IF clock >= PostEnd THEN "done" ELSE "running"
            /\ UNCHANGED <<jobs, faults>>
       ELSE monitor' = "failed" /\ AbortFromObserver
    /\ UNCHANGED <<clock, pod, logged, bound, script>>

\* capture_checkpoint, for the others.
CheckpointDue ==
    /\ Observing /\ monitor # "failed"
    /\ clock \in Checkpoints /\ <<"checkpoint", clock>> \notin seen

Checkpoint ==
    /\ CheckpointDue
    /\ IF Healthy
       THEN Seen("checkpoint") /\ UNCHANGED <<jobs, faults, monitor>>
       ELSE monitor' = "failed" /\ seen' = seen /\ AbortFromObserver
    /\ UNCHANGED <<clock, pod, logged, bound, script>>

Passed == {c \in Checkpoints : <<"checkpoint", c>> \in seen}

----------------------------------------------------------------------------
(* The script.                                                             *)

Runs(from, to) ==
    /\ runner = from /\ runner' = to
    /\ UNCHANGED <<clock, pod, logged, observers>>

\* die: the exit trap runs cleanup, which asks for the deletion first.
Die(from) ==
    /\ Runs(from, "cancel")
    /\ due' = clock + RequestTimeout
    /\ UNCHANGED <<jobs, faults, files, status>>

AllArmed == \A j \in Jobs : jobs[j].state = "armed"

\* The ARMED barrier: the 14 records by its deadline, or die.
CloseBarrier ==
    /\ AllArmed /\ clock <= Barrier
    /\ runner = "arming" /\ runner' = "bound"
    /\ monitor' = "running"
    /\ UNCHANGED <<clock, pod, logged, jobs, faults, bound, seen, due, files, status>>
BarrierLate == clock > Barrier /\ Die("arming")

ObserverFailed == bound \in {"failed", "killed"} \/ monitor = "failed"

\* The loop that waits for the gate file.
Authorize ==
    /\ bound = "gate" /\ ~ObserverFailed
    /\ Runs("bound", "polling")
    /\ UNCHANGED <<jobs, faults, due, files, status>>
NotAuthorized ==
    /\ ObserverFailed \/ (bound # "gate" /\ clock > BoundDeadline)
    /\ Die("bound")

\* quick_validate_completed_job
ReportOK(j) ==
    /\ Len(jobs[j].answers) = Slots(j)
    /\ \A i \in DOMAIN jobs[j].answers : jobs[j].answers[i] \in Allowed(j)

\* The loop over the live Jobs.
CycleBroken ==
    \/ ObserverFailed
    \/ \E j \in Jobs : jobs[j].state = "deleted"
    \/ \E j \in Jobs : jobs[j].state = "complete" /\ ~ReportOK(j)

Abort == CycleBroken /\ Die("polling")

\* The observers have finished too: targets-after.json.
ObserversDone == AllComplete /\ monitor = "done" /\ Passed = Checkpoints

Collect ==
    /\ ObserversDone /\ ~CycleBroken
    /\ Runs("polling", "telemetry")
    /\ files' = [files EXCEPT !.after = <<target.uid, target.restarts>>]
    /\ UNCHANGED <<jobs, faults, due, status>>

Responses == UNION {{j} \X Ok(jobs[j].answers) : j \in Jobs}
ExpectedServed == Cardinality(Responses)

\* Seeded fault: the counters are read as soon as the drivers have ended.
ReadsCountersAtOnce == TRUE

\* The telemetry window and its settling time come first.
ReadsCounters == clock >= PostEnd + RpcTimeout + MetricSettle

TelemetrySettled ==
    /\ ReadsCounters
    /\ Runs("telemetry", "counters")
    /\ due' = clock + CounterSettle
    /\ UNCHANGED <<jobs, faults, files, status>>

\* The log of the bound Pod is read until its last counter is what the drivers
\* were answered.
CountersAgree ==
    /\ target.uid = 0 /\ logged = ExpectedServed
    /\ Runs("counters", "events")
    /\ files' = [files EXCEPT !.counter = logged, !.log = target.restarts]
    /\ UNCHANGED <<jobs, faults, due, status>>
CountersDiffer ==
    /\ \/ target.uid # 0
       \/ logged > ExpectedServed
       \/ logged # ExpectedServed /\ clock >= due
    /\ Die("counters")

EventsAfter ==
    /\ Runs("events", "summary")
    /\ files' = [files EXCEPT !.events = target.warnings]
    /\ UNCHANGED <<jobs, faults, due, status>>

\* cleanup after a die: a request at once, then, before T0, a deletion that must
\* be proved; faults make the requests fail.
Cancel ==
    /\ Runs("cancel", "delete")
    /\ \E ok \in BOOLEAN : Request(ok)
    /\ due' = clock + DeleteTimeout
    /\ UNCHANGED <<files, status>>

\* Seeded fault: the exit code of the deletion is not looked at.
CancelledUnchecked(ok, from) == from < 0 => clock <= CancelDeadline

\* cancellation_valid: before T0 zero Jobs are left, seen before the deadline; a
\* cleanup that starts after T0 waits for the deletion and no more.
Cancelled(ok, from) == ok /\ (from < 0 => clock <= CancelDeadline)

Ends(s) == status' = [status EXCEPT !.status = s]

ForegroundDelete ==
    /\ Runs("delete", "done")
    /\ \E ok \in BOOLEAN :
          /\ Request(ok)
          /\ IF Cancelled(ok, due - DeleteTimeout)
             THEN Ends(IF files.counter > 0 THEN "invalid" ELSE "aborted")
             ELSE Ends("cleanup_failed")
    /\ UNCHANGED <<due, files>>

----------------------------------------------------------------------------
(* The summarizer.                                                         *)

\* validate_driver_report: what a driver may report and still count.
DriverSound(j) ==
    /\ Len(jobs[j].answers) = Slots(j)
    /\ \A i \in 1 .. Slots(j) : jobs[j].answers[i] \in Allowed(j)

\* Seeded fault: a record of the last instant counts for the script but not here.
BarrierSoundStrict == \A j \in Jobs : jobs[j].armed < Barrier

\* validate_precreated_jobs, validate_armed_barrier
BarrierSound == \A j \in Jobs : jobs[j].state # "created" /\ jobs[j].armed <= Barrier

\* validate_identity: the snapshots, the checkpoints, the gate and the samples.
IdentitySound ==
    /\ files.after = <<0, 0>>
    /\ Passed = Checkpoints /\ bound = "gate"
    /\ \A i \in Instants : 0 <= i /\ i <= PostEnd => <<"sample", i>> \in seen

\* validate_event_delta; the Pod had no Warning before the load.
EventsQuiet == files.events = 0

\* validate_queue_logs: the log has samples of the pre phase and of the overload.  A
\* restart that the snapshots do not show came after the drivers, and the log of the
\* container it began has none.
LogSound == files.log = 0

\* validate_counter_reconciliation, with a tolerance of zero.
Reconciles == files.counter = ExpectedServed

Valid ==
    /\ \A j \in Jobs : DriverSound(j)
    /\ BarrierSound /\ IdentitySound /\ EventsQuiet /\ LogSound /\ Reconciles

Good(p) == jobs[p].answers = <<"good">>

\* A report holds its RTTs sorted: how many were answered, and the largest.
PostSlow == {i \in DOMAIN jobs[Post].answers : jobs[Post].answers[i] = "slow"}

\* Seeded fault: two good RTTs among the sorted ones pass for the first two answers.
TwoRttsConfirm == Counted(jobs[Post].answers) - Cardinality(PostSlow) >= 2

\* post_continuation_good
PostConfirms == Counted(jobs[Post].answers) = PostSlots /\ PostSlow = {}

\* evaluate_cycle: the candidates for first_stable.
Stable(p) ==
    /\ \A q \in Probes : q >= p => Good(q)
    /\ Max(Probes) - p < 2 => PostConfirms

\* The earliest of them, and its colour; -1 is no recovery.
RecoveryTime ==
    LET stable == {p \in Probes : Stable(p)}
    IN  IF stable = {} THEN -1 ELSE Offsets[Min(stable) - 2]

Color(time, checks) ==
    CASE time = -1 \/ time > AmberMax \/ ~checks -> "red"
      [] time <= GreenMax /\ checks -> "green"
      [] OTHER -> "amber"

\* analyze_run: invalid, or the decision, which also depends on the service
\* thresholds of the steady phases (checks).
Summarize ==
    /\ Valid
    /\ Runs("summary", "done")
    /\ \E checks \in BOOLEAN :
          status' = [status |-> "completed",
                     decision |-> [valid |-> TRUE, time |-> RecoveryTime,
                                   color |-> Color(RecoveryTime, checks)]]
    /\ UNCHANGED <<jobs, faults, due, files>>
Reject == ~Valid /\ Die("summary")

----------------------------------------------------------------------------

RunnerNext ==
    \/ CloseBarrier \/ BarrierLate \/ Authorize \/ NotAuthorized \/ Abort \/ Collect
    \/ TelemetrySettled \/ CountersAgree \/ CountersDiffer \/ EventsAfter
    \/ Summarize \/ Reject

ObserverNext == TargetBound \/ Kill \/ Sample \/ Checkpoint

\* The script has what it waits for, or has waited long enough.
ScriptDue ==
    \/ runner = "arming" /\ (AllArmed \/ clock > Barrier)
    \/ runner = "bound" /\ (bound = "gate" \/ ObserverFailed \/ clock > BoundDeadline)
    \/ runner = "polling" /\ (CycleBroken \/ ObserversDone)
    \/ runner = "telemetry" /\ ReadsCounters
    \/ runner = "counters" /\ (target.uid # 0 \/ logged >= ExpectedServed \/ clock >= due)
    \/ runner \in {"events", "summary"}

\* Everything takes less than the time to the next instant, except the last
\* response, a stalled command and the commands of the cleanup.
Prompt ==
    \/ ScriptDue \/ BoundDue \/ KillDue \/ SampleDue \/ CheckpointDue
    \/ ArmDue \/ \E j \in Jobs : SendDue(j)

\* The target logs its counters every LogInterval if they have changed.
Tick ==
    /\ runner = "done" => \E j \in Jobs : jobs[j].state \in {"armed", "running"}
    /\ ~Prompt
    /\ \E i \in Instants :
          /\ i > clock /\ \A k \in Instants : k > clock => i <= k
          /\ runner \in {"cancel", "delete"} => i <= due
          /\ jobs[Post].state = "running" => i <= PostEnd + RpcTimeout \/ ~LastAnswer(Post)
          /\ clock' = i
          /\ logged' \in IF i >= clock + LogInterval THEN {target.served}
                        ELSE {logged, target.served}
    /\ UNCHANGED <<pod, jobs, faults, observers, script>>

Next ==
    \/ RunnerNext \/ Cancel \/ ForegroundDelete
    \/ ObserverNext \/ Stall
    \/ Arm \/ (\E j \in Jobs : Send(j)) \/ Drain
    \/ Restart \/ Replace \/ Flap \/ Stray
    \/ Tick

Spec == Init /\ [][Next]_vars

----------------------------------------------------------------------------
(* Properties.                                                             *)

\* A valid summary measured one undisturbed Pod and the drivers alone: no restart,
\* replacement or event, and no response to another client while a driver was at
\* work, although each is looked for in another file, at another time.
ValidIsExclusive == status.decision.valid => ~hurt

\* What the probes and the post phase saw, in the order of the requests.
Observed == [i \in 1 .. Len(Offsets) |-> Good(i + 2)]
            \o [i \in 1 .. PostSlots |-> jobs[Post].answers[i] = "good"]

Recovered(p) ==
    /\ \A i \in p - 2 .. p : Observed[i]
    /\ \A q \in Probes : q >= p => Good(q)

\* The recovery time is the first probe followed by two more good observations, in
\* the order of the requests, and by no bad probe, although the report of the post
\* phase has lost that order; only slowness in the post phase may hide it.
RecoveryIsChronological ==
    LET recovered == {p \in Probes : Recovered(p)}
        time == status.decision.time
    IN  status.decision.valid =>
            IF time = -1 THEN \A p \in recovered : Max(Probes) - p < 2
            ELSE recovered # {} /\ time = Offsets[Min(recovered) - 2]

\* A run that was never authorized sends nothing, or says that it could not prove it.
UnauthorizedLoadIsReported ==
    status.status = "aborted" /\ bound # "gate" =>
        \A j \in Jobs : jobs[j].answers = <<>>

\* When nothing goes wrong the cycle is measured: no deadline of the script and no
\* delay of the target's log rejects it.
CleanCycleIsMeasured ==
    runner = "done" /\ faults = 0 => status.status = "completed"
============================================================================
