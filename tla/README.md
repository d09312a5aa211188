# Formal models of the llm-d-sc benchmark

This directory holds TLA+ models of the program in `src/`: a semantic classifier
server (Rust), the load generators that drive it (Rust), and the shell and
Python programs that plan, run and judge benchmark campaigns on a cluster. The
models say what the concurrent and failure-prone parts of that program do, TLC
checks them on small instances, and TLAPS proves the most important facts for
every instance.

Paths below are relative to `src/`. Abbreviations: `handoff.rs`, `metrics.rs`,
`grpc/classify.rs` are in `instrumentation/reference/src/`; the *probe* is
`instrumentation/reference/src/bin/sustained-corpus-probe.rs`; *campaign.sh* is
`hack/arena-sc-horizontal-scale-campaign.sh`, *sweep.sh* is
`hack/arena-sc-rayon-resource-sweep.sh`, *cell.sh*, *matrix.sh* and *cycle.sh*
are `hack/arena-sc-inference-cell.sh`, `hack/arena-sc-inference-matrix.sh` and
`hack/arena-sc-same-pod-recovery-cycle.sh`, the *aggregator* is
`hack/arena-sc-aggregate-matrix.py`.

Contents: 1 the system; 2 modules; 3 how the models correspond to the code;
4 runs; 5 fairness; 6 proofs; 7 findings; 8 what is not modelled.

## 1. The system and its parts

### 1.1 Inventory

| Component | State it keeps | Operations | Hard behaviour | What makes it correct | Status |
|---|---|---|---|---|---|
| Inference executor (`handoff.rs`) | admission semaphore, bounded channel, two atomic counters, worker threads, the receiver's mutex | `try_enqueue`, the worker loop, unwinding after a panic, shutdown of the channel | several threads between two atomic operations; a job that outlives its client; a panic in a forward | permits conserved, count exact and bounded, each admitted request answered once, refusal only at the bound | modelled |
| Classify handler (`grpc/classify.rs`) | one oneshot receiver per RPC | signal check, admission, await, status mapping | cancellation at the await | as above | partly |
| Metrics registry (`metrics.rs`) | gauges, counters, histograms | `record_admitted`, `record_completed`, scrape | stores of values computed earlier by several threads | the gauge agrees with the executor | partly |
| Exporter, OTel, server start (`metrics_exporter.rs`, `otel.rs`, `bin/server.rs`) | none of interest | start-up wiring | none | - | not modelled |
| Probe, open loop | schedule, in-flight semaphore, task set, results | rate parsing, slot dispatch, drop, RPC task, join, finalize | wake-ups that come late, RPCs that never answer, a slot late *and* dropped | slots = initiated + dropped; every RPC assigned to plateau or drain; never more than the limit in flight; the schedule never waits | modelled |
| Probe, closed loop | next row, two barriers, local and shared tallies, the exhausted flag | claim, send, count, merge, report | a row claimed after its deadline check, corpus shorter than the plateau, main giving up between the barriers | each row claimed counted once; nothing sent before the shared start | modelled |
| Probe, rows and ARMED record | corpus rows, digests, frozen configuration | read, warm-up, emit ARMED, wait for T0 | ARMED precedes the warm-up | the controller's gate sees what the driver will do | partly |
| Saturation, corpus, connection probes | barrier, counters | connect, wait, send | a worker that panics before a barrier | probes end | not modelled |
| Signal emulator driver (`driver/src/main.rs`) | semaphore, join set, histograms | closed loop, open loop with back-pressure, scheduled start | lag measured before a permit is awaited | counts add up | not modelled |
| Horizontal scale planner (`hack/...-scale-plan.py`) | a plan and a sequence ledger per campaign | build, scan ledgers, write plan, write ledger | concurrent planners; a planner killed while it writes | no row is ever sent twice | modelled |
| Horizontal scale campaign (*campaign.sh*) | lock ConfigMap, target Deployment, driver Jobs, flags, status file | plan, lock, scale out, cells, reconcile, cleanup | signals and failures between any two commands, drivers that fail, target Pods that restart, two campaigns | mutual exclusion, barrier closed before T0, no disturbed campaign completes, nothing left behind unreported | modelled |
| Horizontal scale preflight and summarizer | none (pure gates over files) | `--validate-armed-cell`, `--materialize-completed-cell`, decision | constants that must agree with the driver's | the gates accept what the code itself produces | partly |
| Same-Pod recovery cycle (*cycle.sh*) and summarizer | Jobs with absolute starts, observers and their files, the status | ARMED barrier, load-authorizing checkpoint, health monitor, counter reconciliation, cancellation, verdict | Jobs that start whether or not the script lives; deadlines before T0; a counter that is logged at intervals; RTTs reported sorted | a valid summary measured one undisturbed Pod; a run that was not authorized sends nothing or says so | partly |
| Inference cell (*cell.sh*) and matrix (*matrix.sh*) | the directory of a cell, the matrix's plan, results and status | snapshots, Jobs, waits, recovery observer, gates, attestation | two programs beside each other on one cell; samples read by several commands; a results file appended to while it is read | what is attested can be recomputed from the files and shows an undisturbed target | partly |
| Open-loop sweep and its summarizer (`hack/arena-sc-open-loop-summarize.py`) | a directory per row, records, the knee | attest a row, group by rate, bracket the knee | telemetry with gaps, a Pod replaced between two looks at it | an attested plateau was served by one Pod; the bracket is the first signal | summarizer modelled |
| Rayon resource sweep (*sweep.sh*) | lock, temporary Deployment, flags, results, status file | plan, lock, clone, one Pod and one driver per cell, cleanup | creates and flags apart; a runner that fails or outlives its caller; the lock is retained when cleanup fails, and deleted without asking whose it is | nothing runs without the lock; completed means clean | modelled |
| Transport matrix, its summarizers and audit | own lock, target, files | matrix loop, aggregation | cleanup | as above | not modelled |
| Knee analyzers (`hack/arena-sc-knee-confirm-*.py`) | a decision document | evaluate five blocks, permit pooling, evaluate ten | a seeded bootstrap; a summary that changes after it was decided | a confirmed knee rests on the blocks first decided on | modelled |
| Matrix aggregation (*aggregator*) | what it has read of each matrix | read sources, merge contract, groups, grades, knee, strict mode | matrices that still run while they are read | only measured and attested cells count; RED and strict mean what they say | modelled |
| Topology preflight | none | cpuset checks | none | - | not modelled |
| Profiling tools | none | parsers | none | - | not modelled |
| Evidence export, briefs, capture, packaging | files | conversion | none | - | not modelled |

### 1.2 How they interact

- A client RPC reaches a **classify handler**, which takes an admission permit,
  counts itself, publishes the count to the **metrics registry** and puts a job
  with a oneshot sender into the **executor**'s channel. A worker takes it, runs
  the forward, sends the answer, lowers the count, publishes it and drops the
  job with its permit.
- The **probe** is the client. Its open loop offers slots on a schedule that
  depends on nothing but the clock; its closed loop keeps `concurrency` RPCs
  going. Both send rows out of a range of sequence numbers.
- That range is reserved by the **planner**, one block per campaign index, one
  sub-range per driver Job, and marked in a ledger file under a shared root.
- **campaign.sh** calls the planner, takes the cluster-wide lock, creates a
  target Deployment, and for each cell of the plan creates suspended driver
  Jobs (the probe), releases them, waits until each has printed its ARMED
  record, and lets them start at T0 on their own. The **summarizer** decides
  whether a cell is armed and whether a finished cell counts.
- **sweep.sh** takes the same lock, clones the reference Deployment at zero
  replicas, and for each cell replaces the one Pod of the clone, has **cell.sh**
  fix T0, apply one driver Job and wait for it, and records the result.
- **matrix.sh** runs the cells of its plan one after the other: it rolls out the
  targets, starts **cell.sh** and beside it a recovery observer that learns the
  plateau from the Jobs that cell.sh creates, applies its gates to the files and
  appends a line to `matrix-results.ndjson`. The **aggregator** reads any number
  of such directories, finished or not, and recomputes each cell.
- The open-loop sweep leaves a directory per row; its **summarizer** attests them
  and brackets the knee. Two such sweeps are the stages that the **knee
  analyzers** decide on; the second analyzer reads the first one's decision and
  the summary it was made from.
- **cycle.sh** creates all its driver Jobs with absolute starts, lets observers
  watch one Pod, and hands its files to the recovery summarizer.
- The lock `sc-benchmark-matrix-lock` is shared by campaign.sh, the recovery
  cycle, the inference matrix, the open-loop sweep and the Rayon sweep. The
  transport matrix has a lock of its own.

### 1.3 Hazards

`PROJECT.json` lists each hazard at the line where it bites, with the
properties that would catch it. The ones that drove the models: the order of
`fetch_add`/`fetch_sub`/gauge stores; cancellation between admission and
answer; a panic in a forward; the slot arithmetic at the plateau's edge; answer
against timeout at the end of the plateau; the deadline read before the claim;
check-then-write of the ledger; the windows between a create and its flag; the
clock read before the logs are collected; polled health; leftovers of a cleanup
that failed; a lock deleted by name; a driver that runs on after its controller
is gone; evidence of one moment collected by commands of several moments; files
read while they are written, or written again after they were judged; telemetry
that ends before the plateau does; order lost by sorting.

## 2. Modules

| Module | Models |
|---|---|
| `Handoff` | the executor, the handler that calls it and the gauges it feeds, one atomic operation per step |
| `BoundedAdmission` | what the executor promises: at most `Bound` units, refusal only when full, an answer to every admitted request |
| `HandoffRefinement` | `Handoff` with the mapping to `BoundedAdmission` |
| `OfferedRate` | the rate and schedule arithmetic of the probe |
| `OpenLoop` | `run_open_loop`: dispatcher, RPC tasks, timeouts, results; extends `OfferedRate` |
| `ClosedLoop` | the closed loop of the probe's `main` |
| `SequenceLedger` | planners over one ledger root |
| `ScaleCampaign` | campaigns over one cluster: scripts, driver Jobs, target Pods, clocks and lock |
| `RayonSweep` | sweeps over one cluster: scripts with the cell runner, driver Jobs, clones, reference Deployment and lock |
| `SharedLock` | campaigns and sweeps over one cluster and one lock: `ScaleCampaign` extended with an instance of `RayonSweep`, and the mapping to `ClusterLock` |
| `ClusterLock` | what the lock promises: load begins under it, its holder gives it back, over load only if that is known, and a sweep then not at all |
| `CellEvidence` | one cell of an inference matrix: *cell.sh*, the recovery observer and the harness of *matrix.sh*, and what `analyze_cell` recomputes |
| `MatrixAggregate` | matrices that run and the aggregator that reads them |
| `SweepVerdict` | the open-loop summarizer: attestation of rows and knee inference |
| `KneeConfirm` | the two knee analyzers and the files between them |
| `SamePodRecovery` | one recovery cycle, its observers, cancellation and summarizer |
| `ThreadCount` | counting lemmas for the proofs |
| `HandoffProofs`, `ProbeProofs`, `LedgerRecoveryProofs`, `ScaleCampaignProofs`, `SharedLockProofs`, `EvidenceProofs`, `DecisionProofs` | theorems: of a component, or of the components that one MC module runs |
| `MCHandoff`, `MCSequenceLedger`, `MCScaleCampaign`, `MCSharedLock`, `MCMatrixAggregate` | values of constants and symmetry for TLC |
| `MCProbe`, `MCLedgerRecovery`, `MCEvidence`, `MCDecisions` | the same for several models that do not interact, one after the other in one run: the variable `mode` says which of them a behaviour is of, and the variables of the others rest. `MCProbe`: `OpenLoop`, `ClosedLoop` and a walk through every small rate of `OfferedRate`; `MCLedgerRecovery`: `SequenceLedger`, `SamePodRecovery`; `MCEvidence`: `CellEvidence`, `SweepVerdict`; `MCDecisions`: `KneeConfirm`, `MatrixAggregate` |

A definition whose comment begins *Seeded fault* is no part of the model: it is a
plausible bug in the definition it stands beside, and substituting it makes TLC
report the property it is meant for, which shows that the property can fail.

## 3. Correspondence with the code

### 3.1 Handoff

A handler is an RPC in progress. Its `pc` is the point of `classify` /
`try_enqueue` it has reached: `acquire` (`try_acquire_owned`), `count`
(`fetch_add`), `store` and `metric_max` (the two stores of `record_admitted`),
`max` (`fetch_max`), `send` (`try_send`), `awaiting` (`respond.await`). A worker
holds the receiver's mutex (`receive`), runs the forward, sends the answer
(`responded`), lowers the count (`counted`), stores the gauge (`recorded`) and
drops the job. So that every order the threads allow is explored, each atomic
operation is a step; they are sequentially consistent in the model, while the
code uses weaker orderings on single cells, whose per-cell order is total
anyway.

- `Cancel`: the client goes away at the await; its job stays and becomes `Orphan`.
- `Panic`, `UnwindPermit`, `Exit`: a forward unwinds its worker; the job's permit
  and sender are dropped, the count is not lowered (the code has no guard for
  that), and the last worker out drops the receiver with the jobs in it.
- Counters are `AtomicUsize`: `FetchSub` wraps to `UsizeMax`, `Saturating1` is
  `saturating_sub`, as at `handoff.rs:164-165`.

The classification itself, the cache and the timings of stages carry no control
and are left out.

### 3.2 OfferedRate and OpenLoop

`OfferedRate` translates `gcd`, `parse`, `slots_for` and `offset_for`. A tick
stands for the nanosecond, a second has `TicksPerSecond` of them. The u128
products of the code cannot overflow for the inputs `parse` accepts.

`OpenLoop` has the dispatcher's loop (`sleep`, `join`, `clock`, `decide`), its
drain, and a task per slot. `Tick` may happen between any two steps, so a
dispatcher may be late by any amount, and an answer races its timeout.
`Lag`, `IsLate` and `TooLate` use the clock value that was read *before* the
decision, as the code does. `res` is `OpenLoopResults`; `lateSlots` and
`lostSlots` are history variables that only properties read.

### 3.3 ClosedLoop

Workers meet `main` at the ready and release barriers, sleep until `SharedStart`,
check the deadline, claim (`next_row.fetch_add`), send, count, and merge their
tallies at the end. `main` panics if the ready barrier is late. The three shared
structures are merged under one lock each and read only after all workers are
joined, so `Merge` is one step. There is no RPC timeout in the code and none in
the model.

### 3.4 SequenceLedger

A planner computes its block and its Jobs' ranges (`BuildPlan`), lists the
ledger files (`ListLedgers`), reads them (`AssertNoOverlap`), writes the plan
and then its ledger, which is opened (`OpenLedger`: the file exists and is torn)
before it is filled. `Kill` may happen at any step. All planners share one
ledger root. Index, span and namespace are the arithmetic of `build_plan`; rates
and cell order are data.

### 3.5 ScaleCampaign

`pc` is where each script is; a state between a create and the assignment of
its flag (`lockCreated`, `targetCreated`) is a state of its own, because a
signal may fall there. Every command may fail after it took effect: `CreateLock`
and `CreateTarget` may both create and go to cleanup, deletions may leave any
subset. `Interrupt` stands for INT, TERM and any command that fails; `Kill` for
KILL and for a second signal once cleanup has put the default handlers back.

The drivers are `jobs[c][e]`, from `suspended` over `started` and `armed` to
`loading`, and `complete`, `failed` or `crashed`. Time is known only relative to
T0 of the cell: `lead` (more than the gate's margin before T0), `gate`,
`plateau`, `drain`, `over`. A script compares the clock with exactly these
boundaries. `drift[c]` records in which cell a target Pod first changed, whether
or not the script has looked since; `Healthy` is what the polls of
`capture_health` see.

`RowsMatch` is the comparison of `validate_report` between the last row a driver
reports (`LastSent`) and the one the summarizer expects (`LastWanted`). In the
code they are 9999 and 10000 and the comparison always fails (finding 2 in
section 7). A model with those values alone would say nothing about what happens
after a first cell, so `scale_cells` and `shared_lock` give both constants the
same value: their behaviours include all those of the unequal case, in which the
script goes to cleanup at `collect` (as `Interrupt` allows there too), and those
of the script with the constant corrected.

### 3.6 RayonSweep and SharedLock

`spc` is where each sweep is, with a state between each create and its flag as
in `ScaleCampaign`. `sflags` is the set of the flags that are set: `owned`
(`sweep_dir_owned`), `lock`, `before` (the reference was captured), `clone`
(`sweep_deployment_created`), `driver` (`active_driver_run_id` is not empty),
`complete`, `planned`. `clone[s]` is `absent`, `parked` (no replica) or
`running`; `driver[s]` is the Job that *cell.sh* applies, from `started` over
`loading` to `complete` or `failed`; `reference[s]` says whether somebody changed
the reference Deployment since the sweep captured it. The cell runner is a child
that the sweep waits for, so its steps are `RunCell` (T0 and the Job) and
`CollectCell` (wait and gates); if it fails, or its caller is killed while it
runs, the Job may have been applied. A cell whose gates fail ends the sweep, by
`Abort` or by the branch to `cleanup` of the action that has already changed
something.

`Abort` stands for INT, TERM, `die` and any command that fails; the cleanup
ignores INT and TERM, so there it takes `Kill`. Every deletion may leave what it
was to delete, and then `failed` (`cleanup_failed`) is set, which keeps the lock.

`SharedLock` puts both kinds of program on one `lock` variable: a step is a step
of a campaign or of a sweep. The programs touch nothing else of each other's:
names and labels carry the run-id.

`ClusterLock` is the discipline without the scripts: a program takes the lock
when nobody has it, loads the cluster only while it has it, and gives it back
itself. It may end its load whenever that ends, and a *keeper* gives the lock back
only without load and if nothing failed. `Discipline` in `SharedLock` instantiates it: `loading` are
the campaigns with Jobs or target Pods and the sweeps whose Pod or driver runs,
`known` are the programs with `cleanup_error` or `cleanup_failed`, the keepers are
the sweeps. The abstract specification does not say that a program ends: a killed
script keeps the lock.

### 3.7 CellEvidence

Three programs work on one cell: `runner` is the position of *cell.sh* and then
of the harness in *matrix.sh* that waits for it, `observer` the position of
`capture_recovery`, and `pods`, `nodeReady`, `now` are what their commands see.
`files` is the directory of the cell. Each `kubectl` command is a step, so that a
target may restart, be replaced, lose readiness or get a Warning, and a node may
flap, between any two of them; `hurt` is a history variable of what happened while the
evidence was being taken, which only a property reads. `HarnessAccepts` is
`validate_cell_artifacts`, with the files it looks at and no others; `Errors` is
what `analyze_cell` finds in all of them. `Profiles` are the reports a driver may
leave, each of them refused by another gate. The Warning events of a Pod that is gone stay in the API, so `warnings` has
one count per uid, and what an event list shows depends on the uids that are
asked for.

### 3.8 MatrixAggregate

`MatrixRun` is *matrix.sh* as its directory shows it: a cell is `absent`,
`begun` or `whole`, its line in the results file is written in two steps (`torn`
in between), and the status is written last. The aggregator (`rpc`) reads the
attestations of a source, then its status, then the next source, and the cells
much later; each read is a step between which the matrices go on. `early` in `read`
says that a matrix still ran when its attestations were read; no step looks at it, it
is there for `RedIsDeserved`. Grades,
efficiency and variation are compared as integer fractions. Whether a cell's
files stand up to `analyze_cell` is the one attribute `sound`, which
`CellEvidence` refines.

### 3.9 SweepVerdict and KneeConfirm

`SweepVerdict` runs the rows of a plan and attests each as the summarizer does.
A cell of one row may have one disturbance: any event of its Pod at any instant with
any set of telemetry samples, or a preflight, report, accounting, signature or
range that does not fit. The telemetry comes from range queries
(`capture-thanos.sh`), whose points repeat the last scrape, and `pod_ready` and
`restarts` are gauges of another exporter: a point may show a restart up to `MaxAge`
after it, and the name of a Pod that is gone for as long. `shows` is the instant from
which the points of a cell show its event. The flags that waive telemetry and
preflight (`--telemetry-required 0`, `required: false`) are off by default and not
modelled. The loop of `infer_knee` is four actions, one per way
through its body. Times are ticks of the plateau; ratios are integers.

`KneeConfirm` has the two stages and their analyzers. The bootstrap resamples
whole blocks with a seeded generator; what the generator draws is not modelled
but what any draw can decide: an effect passes if every resample's median passes,
fails if none does, and otherwise as `draws` says, which is any function of the
number of blocks. `Resummarize` writes the Stage A summary again between the two
analyses: a block, or the settings. The hash that pins the first decision stands for
the published document, which repeats the cells, their order and the gates of its
summary, and not the settings. That the restarts of a block were attested
(`zero_restarts_attested`) is a gate of the summary, not a second clause of `Clean`.

### 3.10 SamePodRecovery

Time is seconds relative to T0 and jumps between `Instants`, the moments at which
some deadline, checkpoint or slot of the frozen schedule falls. Everything that
is quick in the code happens before the clock moves on: `Prompt` is the disjunction of
the guards of those actions (`ArmDue`, `SendDue`, `BoundDue`, `ScriptDue`, ...), which the
actions themselves use. What may take long does not keep the clock: a stalled
request, the deletions, the last response.
`TargetBound`, `Sample` and `Checkpoint` are the background observers; each may
abort by a deletion of its own. `Cancel` and `ForegroundDelete` are the two
deletions of `cleanup`; the drivers run on their absolute starts as long as no
deletion has taken effect. The summarizer's checks are operators over what the files hold, which
is not what happened: a counter read once, snapshots of two moments, RTTs sorted.
The events are those of the Pod that was bound, and stay when it is replaced; the
log is that of the container that runs when it is read, so one that began after
the drivers shows none of their phases (`LogSound`).

## 4. Runs

| Run | Asks | Bounds |
|---|---|---|
| `handoff_admission` | Do permits, counts, jobs and refusals agree under every interleaving with cancellation? | 3 handlers, 2 workers, bound 2: one handler too many, so refusals happen, and two workers race on every counter |
| `handoff_panic` | Is anybody left waiting, or any permit lost, when forwards panic and clients leave? Does the executor implement `BoundedAdmission`, liveness included? | 2 handlers, 2 workers, bound 2: both workers may die, with jobs queued |
| `handoff_gauge` | Is the exported gauge right when nothing runs? (no: finding 1) | 2 handlers, 2 workers |
| `probe` | Open loop: do counts, permits and lateness agree, and does it end? Closed loop: is every claimed row counted once, nothing sent early, exhaustion exact? Are slots and offsets exact at every slot of every small rate? | open: 3 slots (a rate of 3/2) in 2 seconds of 2 ticks, 2 in flight, late after 0, dropped after 1, timeout 2: a slot may be on time, late, late and dropped, or dropped at the limit, and an RPC may outlive the plateau. Closed: 2 workers, 4 rows, start 1, deadline 3: the corpus may outlast the plateau or end within it. Rates: numerators to 30, denominators 1, 4, 10, 7 ticks a second, to 4 seconds: rates that divide the second and rates that do not |
| `ledger_recovery` | Can a row be sent twice by planners of which one saw the other's ledger? Does a valid recovery summary show one undisturbed Pod and the drivers alone, and a run that was not authorized no load? | ledger: 3 planners, both indices the namespace holds and one beyond each end, 2 to 4 Jobs against a block that holds 3. Recovery: 3 of the 10 probes, 1 of the checkpoints and 3 post requests, at the offsets and deadlines of the code; one fault anywhere |
| `sequence_ledger_race` | Can two planners hold one block? (yes: finding 3) | 2 planners |
| `scale_cells` | Are barrier, health and cleanup right for one campaign, and does it end? | cells of two and of one driver, 2 scale batches |
| `shared_lock` | Does each program work under its own lock only, can it meet load of another, is a completed sweep clean? Do the scripts together implement `ClusterLock`? | 2 campaigns and 1 sweep, of which any 2 start; one endpoint, one batch and one cell each |
| `scale_rows` | Does the gate accept the rows of a driver that was verified ARMED? (no: finding 2) | 1 campaign, the expectation one row past what is sent |
| `evidence` | Does the aggregator recompute what the harness attested, does a cell that counts show an undisturbed target, is every cell decided? Was an attested plateau served by the Pod that the gate saw, and is the bracket the first signal? | cell: 2 targets, 2 recovery samples, 5 driver reports, one fault anywhere. Sweep: 4 rates, two repetitions, 3 outcomes a cell, one disturbed cell with any subset of 5 samples, whose values may be one tick old |
| `decisions` | What may the extension confirm, and on which blocks? Which cells count, when is a rung RED, what does strict promise? | knee: 3 blocks a stage of 4 measurements, at every boundary of the rule, at most one block of a stage unsound; two flaws, so that a rewritten summary may hide another departure; a pooled bootstrap in doubt passes, which confirms more. Matrices: two of two cells and one, overlapping rows or not, that run while they are read |
| `matrix_knee` | Does "no knee" mean that every rung was compared? (no: finding 4) | one matrix of 2 and 3 replicas |

`shared_lock` has the bound `TwoPrograms`: at most two of the three programs leave
their first state. A program that has not started changes nothing, so every pair
is explored, which is what exclusion and leftovers are about; a third one at the
same time is what the proofs are for (section 6). Its second bound is
`SteadyTargets`: no target Pod changes in the middle of a cell. A campaign leaves
such a cell by the error path of every other failure, which the run does explore;
the changes themselves are explored by `scale_cells`.

The bounds of the merged runs were chosen by the cases: with one fault every
single check of the evidence is the only one that can catch it, which is the case
that a gate made redundant by another would hide. The study of the knee has two
flaws: one in what was measured and one in what was written over it since. Two repetitions of a rate are
the least that have a median of their own, three blocks the least odd number with
a block beside the middle one; the proofs of section 6 cover every odd number.
Three sparse probes suffice for a recovery confirmed among the probes, by the
post phase, and by both.

Deadlock is checked in the `handoff_*` runs: handlers may always call again, and
after a panic the handlers still do. The other models end (a probe reports, a
planner reserves, a script exits), so their configurations switch the deadlock
check off; that they end is a liveness property where it matters. Symmetry is
used only in runs without liveness.

What the properties say, beyond their one-line comments in the modules:

- `RefusedOnlyAtBound` is the sharpest form of "normal concurrency is not
  refused" that is true: because an answer is sent before the permit is
  released, a client that calls again at once may meet its own last permit. The
  refusal is still never a lost permit: `Bound` permits are with requests in
  progress or with work that nobody waits for any more.
- `EveryWaiterAnswered` needs the whole chain: the mutex is handed on, an
  unwinding worker drops its sender, the last one drops the channel.
- `ScheduleNeverBlocks` says that the dispatcher is enabled at each point
  between two sleeps, whatever its RPCs do; this is what *open loop* means.
- `BarrierClosedInTime` holds although the script reads the clock first and the
  logs for seconds after, because the validator reads the clock again.
- `LeftoversReported` holds although the target's flag is set after its create,
  because `cleanup` also lists what still carries the run's label.
- `EveryHolderOwnsTheLock` is what makes the unchecked deletion at `sweep.sh:215`
  safe: nobody else deletes a lock it does not own, so a set flag means that the
  ConfigMap is still the sweep's.
- `AttestedRecomputes` has two exceptions, and both are of the code: the observer
  reads the Deployment after the Pods and the nodes again after it found them
  Ready, and only the aggregator looks at these files. The harness may attest a
  cell that the aggregator then counts as invalid, never the other way round.
- `ValidIsUndisturbed` holds although nobody watches between the snapshots: restart counts
  and uids only move forward, and an event's count stays. It does not promise
  that a target stayed *ready* without an event.
- `AttestedPodServedThePlateau` says *up to the last gap and the age of a value*: a
  restart in the last `MaxGap` seconds of a plateau may go unseen, and one that a last
  point does not show yet, in the `MaxAge` before them. With `MaxAge` left out of the
  bound the property is violated.
- `ExtensionRescuesOnlyVariability`: since a stage has an odd number of blocks,
  the medians of its bootstrap are blocks of its own, so the intervals pass as
  soon as the blocks do. The analyzer's resampling can therefore never be the
  reason why Stage A is inconclusive while the pooled blocks are confirmed.
- `ConfirmedOnPublishedBlocks` says of the settings only that the two summaries which
  were pooled agree. The document of Stage A has none, so a Stage A that was decided
  under other settings and then written again may be pooled; with two flaws the run
  reaches that.
- `RedIsDeserved` lists the two ways in which a rung is graded RED although its cells
  were measured, found sound and attested. The attestations were read while the matrix
  ran and its status after it had ended. Or the matrix ended between the two halves of
  a line of its results: one line that does not parse discards the attestations of all
  its cells (`attestation_map`), and every rung it measured is RED once it is seen to have ended.
  Dropping either way violates the property.
- `UnauthorizedLoadIsReported` is about `aborted` only: a cleanup that could not
  prove the deletion says `cleanup_failed`, and then load may have run.
- `OthersLoadIsReported` is what is left of mutual exclusion once the lock is
  released by a cleanup that failed: the other one knows that it failed, or was
  killed. No configuration lists it, because it is an invariant of `ClusterLock`
  (`LoadIsOwned`) in the terms of the scripts, so that `ImplementsLock` checks it; it
  is proved as `OnlyReportedLoad`.

## 5. Fairness

- `Handoff`: weak fairness of each worker's next step, whichever it is (a
  forward ends, by an answer or a panic), and of the handler's steps after
  `Call`. They are OS threads and tokio tasks with no other wait than the ones
  modelled. No fairness of `Call` or `Cancel`, and none of the receiver's mutex:
  any worker that gets it takes the oldest job.
- `OpenLoop`: the clock, the dispatcher and the RPC tasks, timers included.
  None for `Answer`: `ProbeEnds` must hold though the classifier is silent.
- `ClosedLoop`: the same and `Answer`, since the code has no RPC timeout there;
  without that assumption `LoopEnds` is false of the code.
- `CellEvidence`: time, and each of the three programs' next command. A command of
  theirs has a timeout or is a local one. None for faults or for the Jobs: the
  runner's wait ends by its own limit.
- `RayonSweep`, `SharedLock`, `MatrixAggregate`, `SweepVerdict`, `KneeConfirm` and
  `SamePodRecovery` state safety only.
- `ScaleCampaign`: each script's own commands (each has a request timeout or a
  wait timeout, `campaign.sh:58`), cleanup, and the clock. None for drivers,
  target Pods, signals or failures.

## 6. Proofs

All theorems hold for every value of the constants that satisfies the
assumptions named in the modules (`HandoffAssumption`, `OpenLoopAssumption`,
`LedgerAssumption`, `CampaignAssumption`, `SharedLockAssumption`,
`BlocksAssumption`, `PairsAssumption`, `SweepConstants`, and in the MC modules, which say
how components that do not interact are put together, `ProbeConstants`,
`CellConstants`, `MatrixConstants`, `RecoveryConstants`). Most say only what set a constant
is of. `RecoveryConstants` says four things more, about `Instants`. The clock stops
no later than the deadline of the barrier (T0 is at least 360 seconds ahead, the barrier
180 before it), in the window of the load-authorizing checkpoint, and between the
deadline of that one and T0: the script looks every second. And the settling time before
the counters are read holds an interval of the target's log. Every run whose module extends one of these modules evaluates its
assumptions.

- `HandoffProofs`. `PermitInv` = `TypeOK` and `PermitsConserved` is inductive:
  each step moves one thread, so by the counting lemma `MoveCount` each of the
  counts in the equation changes by what the step did to `permits` or to the
  queue. It needs no assumption on panics or cancellation. `CountInv` adds the
  exact count, that no worker dies and no handler reaches the undo states, and a
  bound on every value read and not yet stored in a maximum (`seen`); it is
  inductive relative to `PermitInv` while no forward panics.
  The bound on the count follows from both: who is counted holds a permit.
  Theorems: `TypeCorrect`, `PermitsNeverLost`, `CountAlwaysExact`,
  `AdmissionBounded`, `ChannelNeverRefuses`.
  `JobsInv` says where jobs are, not how many there are: no handler has two, those that
  wait are those that have one, and a worker past its forward holds nobody's. From
  it and the permits, every unit that is out is with a request in progress, a waiting
  one's job or an abandoned one (`JobsByPlace`, `WorkIsJobs`). Theorems:
  `OneJobEach` (`OneJobPerWaiter`), `NeverRefusedBelowBound` (`RefusedOnlyAtBound`) and
  `AdmissionIsRefined`: the executor implements the safety part of `BoundedAdmission`
  (`AdmissionSafety` in `HandoffRefinement`), panics and the loss of every thread
  included. There a step of a handler or a worker is one step of the abstract
  specification or none; the last thread's exit is `GiveUp`, whose bounds on the load
  come from the same counts (`LoadByPlace`).
  `GaugeInv` is for a server with one worker: once nothing is counted and not yet
  received, the worker has read 1, or has stored 0. It is inductive because a handler stores
  its count before its own job can be counted out. Theorem: `OneWorkerGaugeExact`.
- `ProbeProofs`, the open loop. `LoopInv` = types, permits, the counting equations and what
  the dispatcher's position says about the tasks (no task of a slot not reached;
  none unjoined once done). Theorems: `ProbeTypeCorrect`,
  `InFlightAlwaysBounded`, `AlwaysAccounted`, `FinalizeNeverPanics`.
  `MissedInv` adds that only slots already passed, and the one at hand once it is
  seen to be late, are among the missed: so each is new to the set when it is counted.
  Theorem: `MissedSlotsCountedOnce` (`LateOrLostCountedOnce`).
  The closed loop. `StartInv`: until `main` has passed the ready barrier in time no worker
  is past the release barrier, and until the shared start none is past its sleep. Theorem:
  `NoRowBeforeTheStart` (`NothingSentEarly`). `ClaimsInv`: what was claimed is what the
  workers between claim and count have, plus what is counted, in a worker's own tally or
  merged. The sums over the workers are cardinalities of sets of units (`HeldIsUnits`), so
  that a step moves one unit or a whole tally and no induction over the
  workers is needed. Theorem: `EveryClaimAccounted` (`ClaimsAccounted`).
  The rate. Slots and offsets are quotients of products of unknowns; the proofs characterise
  a quotient by its two inequalities and multiply those. Theorems:
  `SlotsAreThePlateau` (`SlotsFillThePlateau`), `OffsetsNeverDrift` (`OffsetsExact`).
- `LedgerRecoveryProofs`, the ledger. The invariant says that every listed ledger exists,
  and that those a planner past its check has listed are whole and disjoint from
  its own reservation, in which its Jobs fit; the arithmetic lemmas show that ranges lie in their block and
  blocks with different indices are disjoint. Theorems: `LedgerTypeCorrect`,
  `ReservationNeverRecycled`, `NoRowSentTwice`. Under the hypothesis that one planner at a
  time is between its listing and its marker, whoever is there has found every ledger that
  exists (`FindsAll`): `LonePlannersReserveApart`.
  The recovery cycle. `CycleInv` is what the place of the script says of its files and of
  the Jobs, and when answers can arrive (none before T0, none after the last one had to
  drain). On it rest four arguments. `HurtInv`: what disturbed the Pod is
  `Evident` in a file or in the state that a later file is taken from; a restart or
  replacement in the snapshot after the load, a flap in the event count, and a request
  of another client in the counter, which the log repeats at a quiet instant
  after the last response. Each case is handed on from state to file until `Valid` has
  looked at all of them. `TimeInv`: without its gate the script gives up by an instant
  `Lead` before T0, and a cleanup that begins before T0 says `aborted` only if
  the deletion was proved before T0, when no driver has an answer. And a lemma about the
  decision (`TimeOfTheFirst`): of the candidates the summarizer tries, the first is the
  first probe that recovered in the order of the requests, although the post phase
  has lost its order. Theorems: `CycleInvariant`, `ValidSummaryExclusive`
  (`ValidIsExclusive`), `RecoveryInOrder` (`RecoveryIsChronological`),
  `UnauthorizedSendsNothing` (`UnauthorizedLoadIsReported`), for every plan the script
  accepts, any number of probes and any number of faults.
  A cycle without a fault is the other half: `CleanInv` says that as long as there
  is none the Pod served the drivers' requests only (`Undisturbed`), the drivers were ARMED
  at once and answered as they may (`OnSchedule`), no deadline has passed unmet and no
  sample is missing up to the clock (`OnTime`), and the files say so (`Collected`). Then
  every exit of the script by `die` has a false guard (`ScriptDoesNotDie`), the
  clock passes nothing that is due (`CleanTick`), and the summarizer accepts. Theorem:
  `CleanCycleMeasured` (`CleanCycleIsMeasured`). With `ValidSummaryExclusive` it
  bounds the verdict from both sides: what is accepted was undisturbed, and what was
  undisturbed is accepted.
- `ScaleCampaignProofs`. `LockInv` adds to `HoldersOwnTheLock` that a script that
  has not created the lock has not set its flag; `LoadInv`
  adds, per campaign, that whoever has Jobs or target Pods is under the lock, or
  cleaning up under it, or knows of an error, or was killed and still owns the
  lock. Theorems: `LockExcludes` (`HoldersOwnTheLock`) and `OnlyLeftoversBeside`
  (`OthersAreLeftovers`: the Jobs a campaign finds are leftovers of a failed
  cleanup), for campaigns alone. `RecordInv` has three parts per campaign: what is left
  once the check of the cleanup is over is an error and reported (`Reported`), the
  target was the frozen one when the last cell was reconciled (`Steady`), and all drivers were
  ARMED in time once the script is past the barrier (`Barrier`, which needs that a
  driver that is armed never goes back). Theorems: `LeftoversAreReported`,
  `CompletedOnTheFrozenPods` (`CompletedUndisturbed`), `MeasuredBehindTheBarrier`
  (`BarrierClosedInTime`). `Stuck` says of one campaign that it has no cell recorded
  and is not past an accounting, which is inductive while the two row numbers differ:
  `NoCampaignCompletes`. For `CampaignTypeCorrect` the types are strengthened by one
  fact: a script in the middle of a cell has one left in the plan.
- `SharedLockProofs`. `SweepLockInv` is the sweeps' `LockInv`. The two kinds of
  steps are put together by one fact about each: a step changes the lock only
  while nobody has it or a program of its own kind has it
  (`CampaignsTakeTheirOwn`, `SweepsTakeTheirOwn`), so that it leaves the other
  kind's invariant alone. `SweepOrderly` says, per sweep, that a Pod or a driver
  runs only while the sweep owns the lock, that its flag is set until the deletion
  is tried, and that `failed` is set once a deletion has left it. Theorems:
  `SharedLockExcludes` (`EveryHolderOwnsTheLock`), `OnlyReportedLoad`
  (`OthersLoadIsReported`), for any number of campaigns and sweeps. `SweepClosing` adds
  that a sweep sets `complete` after all its flags and cells, so that its cleanup takes
  every branch or notes that one failed. Theorem: `FinishedSweepsAreClean`
  (`CompletedSweepsAreClean`). The refinement, `LockIsImplemented` (`ImplementsLock`),
  takes each action of a campaign and of a sweep to one step of `ClusterLock` or to
  none: `LoadInv`, `SweepLockInv` and `SweepOrderly` give the guards of the abstract step,
  which are that load begins under the program's own lock and that what is left when the lock
  goes is known. `LoadAlwaysOwned` is an invariant of `ClusterLock` alone, inductive as
  it stands, carried to the scripts by the refinement. `SharedTypeCorrect` (`AllTypes`) has a strengthening like
  that of the campaigns.
- `EvidenceProofs`, the cell. `CellInv` says where runner and observer are and what their
  files hold by then; that uids, restarts and event counts only move forward from one
  snapshot to the next (`Monotone`); that what disturbed a target is still to be seen in it,
  and in the last sample once that was taken (`HurtIsSeen`); and which gates a file that
  is there has passed (`SamplesChecked`, `GatesPassed`). Theorems: `CellInvariant`,
  `ValidCellUndisturbed` (`ValidIsUndisturbed`), `AttestedCellRecomputes`
  (`AttestedRecomputes`), for any number of targets, samples and disturbances.
  The sweep. Telemetry that is accepted has a sample of the right Pod near the end, and
  whatever replaced or restarted it is shown after its last sample only, so it came no
  earlier than the age of a value before that. Theorem: `AttestedPodServed`
  (`AttestedPodServedThePlateau`), for any plateau, gap and age.
  `WalkInv` says that the rates already passed show no signal and that the last of them is the
  pending one if its latency was elevated. Theorem: `KneeAtFirstSignal`
  (`KneeIsTheFirstSignal`), for any plan.
- `DecisionProofs`, the knee. `SoundMedian` shows that a block that is clean, stressed and
  of the right directions passes the four conditions on medians by itself, the
  ratio of the latencies among them by a nonlinear step (`RatioSquared`), and
  `SoundBootstrap` that the resamples of an odd number of such blocks pass.
  `StudyInv` adds to the two properties that Stage A's document repeats the
  summary it was made of, which is what ties blocks that may be rewritten to the ones
  that were published: what was pooled has the published document, so the pooled cells
  are the published ones. The coefficients of variation stay opaque. Theorems:
  `OnlyVariabilityIsRescued`, `PublishedBlocksConfirm`, for every odd number of
  blocks and every measurement.
  The aggregation. `DiskInv` (what is attested was measured and found sound), `ReadInv`
  (what was read of a matrix is true of it still, but for attestations not seen; a
  status other than *running* is final; and of attestations that were read after the
  end none is missing, or all are because of a torn line) and `CellsInv` (what the aggregator made of each
  cell) are inductive together; the report is then compared with the disk as it is. That
  comparing neighbours is enough to find two cells that share a row (`SortedApart`)
  needs no induction: among the cells that are not sorted before a given one, the first
  by its rows is its neighbour. Theorems: `ReportedEvidenceIsSound`, `CountedCellsApart`
  (`CountedApart`), `RedRungsDeserveIt` (`RedIsDeserved`), `StrictReportIsComplete`
  (`StrictIsComplete`), for any number of matrices, plans and cells. `NoKneeInv` follows
  from the completeness that a report of no knee demands: `NoKneeComparesWhatItCan`.

Attempts that failed corrected two models. In `CellEvidence` a replaced Pod took its
Warning events with it, and in `SamePodRecovery` too; there the log of a restarted
container also passed for that of the container that had served. The runs have one
fault and could not tell; the proofs allow any number. With two faults TLC finds a valid
summary of a disturbed Pod in the uncorrected `SamePodRecovery`, and none in the
present one.

Only model-checked:

- Liveness, since the prover has no fairness: `EveryWaiterAnswered`, `ProbeEnds`,
  `LoopEnds`, `CampaignEnds`, `CellDecided`, and the liveness part of
  `ImplementsAdmission`.
- `ScheduleNeverBlocks`, which speaks of `ENABLED`.
- The violations of section 7, which are behaviours and not invariants. Their cause or
  reach is proved, in a theorem beside each.

Every other invariant of a passing run is proved.

The other way round, the type invariants are stated for the proofs and appear in no
configuration: `TypeCorrect`, `ProbeTypeCorrect`, `LoopTypeCorrect`, `LedgerTypeCorrect`,
`CampaignTypeCorrect` and `SharedTypeCorrect` hold for every value of the constants,
those of the runs included. So does `OthersLoadIsReported`, which `ImplementsLock`
implies (section 4).

## 7. Findings

1. **Stale in-flight gauge** (`metrics.rs:220`, run `handoff_gauge`). A worker
   stores the count it computed from its own `fetch_sub`; two completions may
   store in the other order and leave the gauge at 1 in an idle server. The HELP
   text and the admission telemetry note say otherwise. It takes two workers: with one
   (`LLM_D_SC_INFERENCE_WORKERS=1`, or one CPU, `handoff.rs:62-72`) and no panic the
   gauge is exact (`OneWorkerGaugeExact`).
2. **No campaign can complete** (`hack/arena-sc-horizontal-scale-summarize.py:435`,
   run `scale_rows`). `validate_armed` requires `last_sequence = base + 9999`
   (`:346`), `validate_report` requires `base + 10_000` of the same number. With
   `--max-rows 10000 --warmup-requests 0` the driver sends the first. While the two
   differ no campaign of any plan records even its first cell (`NoCampaignCompletes`).
3. **Check and reservation are two steps**
   (`hack/arena-sc-horizontal-scale-plan.py:451`, run `sequence_ledger_race`).
   Two planners with one index may both reserve it, while the ledger's rule says
   that its existence consumes the reservation for good. Nothing else is missing: with one
   planner at a time in between, kills included, reservations are disjoint
   (`LonePlannersReserveApart`); `campaign.sh` would have that if it planned under the lock.

4. **No knee without a comparison** (`hack/arena-sc-aggregate-matrix.py:1180`, run
   `matrix_knee`). A complete ladder without a one-replica rung is reported as
   `not_observed`, "no horizontal knee through r<n>", although no efficiency was
   computed; the branch beside it names the missing baseline as a reason not to say so.
   A rung that has a baseline with useful completions is always compared
   (`NoKneeComparesWhatItCan`).

Known limits that contradict no document: after a panic the admitted count is
never lowered again (`handoff.rs:11-13` disclaims isolation of worker failures);
a lock may stay for ever if the script is stopped between the create and
`lock_acquired=1`, or killed; a second signal during a campaign's cleanup leaves workload and
lock without any status (`campaign.sh:112`); `campaign-status.json` carries the
constant text "temporary workload deleted" also when `status` is
`cleanup_failed` (`campaign.sh:185`), so only `status` may be trusted, which is
what `LeftoversReported` speaks of; a sweep stopped between the create of its clone and
`sweep_deployment_created=1` leaves the clone behind and gives the lock back
(`sweep.sh:195`), which is harmless to the next program only because the clone is
created at zero replicas.

## 8. What is not modelled

Left out of the modelled parts, because no property tells the difference:

- Request contents, digests, hashes, canonical JSON, log wording.
- The values of percentiles and the draws of the bootstrap: a decision is
  modelled by the comparison it makes, a percentile by the value it may have.
- The Kubernetes scheduler and the kubelet: a Job or Pod changes state at any
  moment, which is more than they allow.
- Weak memory: every shared cell of the executor is one atomic, and no property
  but the gauge's relates two of them without a lock or a channel between.
- Telemetry capture and the sampler: what they leave is an arbitrary set of
  samples, whose values may be as old as `MaxAge` (`SweepVerdict`), or a free choice
  (`CellEvidence`).
- Of the open-loop summarizer, the flags that waive telemetry and preflight, and the
  last check that the directories on disk are those of the plan
  (`arena-sc-open-loop-summarize.py:771-773`): the first take a gate away, the second
  can only refuse.
- The timeouts of a campaign's scale-out and reconciliation, as waits of their own: a
  command that times out is one that fails, which is `Interrupt`.
- The locks of *matrix.sh*, *cycle.sh* and the open-loop sweep: they create,
  check and delete the same ConfigMap by the commands that `SharedLock` has for
  the campaigns and the Rayon sweep. `MatrixAggregate` assumes the exclusion.
- The rollout of a matrix's targets: it precedes every file of the cell. A matrix is
  not resumed (`matrix.sh:975` refuses a directory that exists); one that was aborted is
  continued by a new matrix whose directory is merged with its own, which is
  `MatrixAggregate` with two sources.

Left out as components:

- *Metrics exporter, OTel, server start-up; evidence export, briefs, capture,
  packaging*: wiring, conversion and I/O without state of their own.
- *Saturation, corpus and connection probes; signal emulator driver*: small
  generators that the modelled campaigns do not call. The probe, which they do,
  has the same loops with more that can go wrong.
- *Topology preflight, profiling tools*: pure functions of one captured document,
  of many fields and no order of events; their unit tests cover them better than
  a model would. The verdict of the preflight is an input of `SweepVerdict`.
- *Statistics of the horizontal summarizer; transport matrix, summarizers and
  audit*: sums and quotients over completed files, read when nothing runs. The
  transport matrix is a sequential loop under a lock of its own.
