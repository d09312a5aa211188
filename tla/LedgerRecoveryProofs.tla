------------------------ MODULE LedgerRecoveryProofs ------------------------
(***************************************************************************)
(* Proofs about what surrounds a measurement.                              *)
(*                                                                         *)
(* The sequence ledger, for every number of planners, every namespace and  *)
(* every size of a rung.                                                   *)
(*                                                                         *)
(* The same-Pod recovery cycle, for every plan that the script accepts,    *)
(* any number of probes, any instants as RecoveryConstants describes them, *)
(* and any number of faults.  What disturbs the Pod is Evident: it is in a *)
(* file, or in the state from which a later file is taken, until the       *)
(* summarizer reads them.  A request of another client is evident because  *)
(* the target logs at a Quiet instant, after the last response and before  *)
(* its counters are read.  A run that is not authorized is given up by the *)
(* instant Lead, before T0.                                                *)
(***************************************************************************)
EXTENDS MCLedgerRecovery, FiniteSetTheorems, SequenceTheorems, WellFoundedInduction, TLAPS

----------------------------------------------------------------------------
(* The sequence ledger.                                                    *)

Passed == {"plan", "open", "fill", "reserved"}

\* A planner past its checks has room for its Jobs, and every ledger it found
\* was read whole and is disjoint from its own reservation.
Inv ==
    /\ TypeOK
    /\ \A p \in Planners : pc[p] \in Passed \cup {"list", "read"} => Fits(index[p], jobs[p])
    /\ \A p, q \in Planners :
        q \in listed[p] =>
            /\ file[q] # "none"
            /\ pc[p] \in Passed => file[q] = "whole" /\ ~Overlap(index[p], index[q])

----------------------------------------------------------------------------

\* Multiplication by a span keeps the order of the allocations.
LEMMA SpanStep ==
    ASSUME NEW a \in Nat, NEW b \in Nat, a < b, NEW s \in Nat
    PROVE  a * s \in Nat /\ b * s \in Nat /\ a * s + s <= b * s
<1> DEFINE d == b - a - 1
<1>1. d \in Nat /\ b = a + 1 + d
  OBVIOUS
<1>2. d * s \in Nat /\ a * s \in Nat
  BY <1>1
<1>3. (a + 1 + d) * s = a * s + s + d * s
  BY <1>1
<1>4. b * s = a * s + s + d * s
  BY <1>1, <1>3
<1> HIDE DEF d
<1> QED BY <1>2, <1>4

\* Two intervals of m + 1 numbers whose starts are that far apart are disjoint.
LEMMA IntervalsApart ==
    ASSUME NEW r \in Int, NEW x \in Nat, NEW y \in Nat, NEW m \in Nat, x + (m + 1) <= y
    PROVE  (r + x .. r + x + m) \cap (r + y .. r + y + m) = {}
  OBVIOUS

\* An interval that starts in a block and whose end fits is inside the block.
LEMMA IntervalInside ==
    ASSUME NEW r \in Int, NEW e \in Int, NEW x \in Nat, NEW m \in Nat, r + x + (m + 1) <= e
    PROVE  (r + x .. r + x + m) \subseteq (r .. e - 1)
  OBVIOUS

\* The parameters of the ranges are numbers.
LEMMA SpanTypes ==
    /\ MaxRows \in Nat /\ JobSpan = MaxRows + 1 /\ JobSpan \in Nat
    /\ \A i \in Int : ReservationStart(i) \in Int /\ ReservationEnd(i) \in Int
  BY LedgerAssumption DEF ReservationStart, ReservationEnd

\* Two Jobs of one plan send different rows.
LEMMA JobsApart ==
    ASSUME NEW i \in Int, NEW a \in Nat, NEW b \in Nat, a < b
    PROVE  RowsOf(i, a) \cap RowsOf(i, b) = {}
<1>1. a * JobSpan \in Nat /\ b * JobSpan \in Nat /\ a * JobSpan + (MaxRows + 1) <= b * JobSpan
  BY SpanStep, SpanTypes
<1>2. (ReservationStart(i) + a * JobSpan .. ReservationStart(i) + a * JobSpan + MaxRows)
      \cap (ReservationStart(i) + b * JobSpan .. ReservationStart(i) + b * JobSpan + MaxRows) = {}
  BY <1>1, SpanTypes, IntervalsApart
<1> QED BY <1>2 DEF RowsOf, JobStart

\* A Job that fits sends rows of its campaign's reservation only.
LEMMA RowsInReservation ==
    ASSUME NEW i \in Int, NEW n \in Nat, Fits(i, n), NEW a \in 0 .. n - 1
    PROVE  RowsOf(i, a) \subseteq ReservationStart(i) .. ReservationEnd(i) - 1
<1>1. a * JobSpan \in Nat
  BY SpanTypes
<1>2. ReservationStart(i) + a * JobSpan + (MaxRows + 1) <= ReservationEnd(i)
  BY SpanTypes DEF Fits, JobEnd, JobStart
<1>3. (ReservationStart(i) + a * JobSpan .. ReservationStart(i) + a * JobSpan + MaxRows)
      \subseteq (ReservationStart(i) .. ReservationEnd(i) - 1)
  BY <1>1, <1>2, SpanTypes, IntervalInside
<1> QED BY <1>3 DEF RowsOf, JobStart

\* The Jobs of two disjoint reservations send different rows.
LEMMA CampaignsApart ==
    ASSUME NEW i \in Int, NEW j \in Int, ~Overlap(i, j),
           NEW m \in Nat, NEW n \in Nat, Fits(i, m), Fits(j, n),
           NEW a \in 0 .. m - 1, NEW b \in 0 .. n - 1
    PROVE  RowsOf(i, a) \cap RowsOf(j, b) = {}
<1>1. RowsOf(i, a) \subseteq ReservationStart(i) .. ReservationEnd(i) - 1
  BY RowsInReservation
<1>2. RowsOf(j, b) \subseteq ReservationStart(j) .. ReservationEnd(j) - 1
  BY RowsInReservation
<1>3. /\ ReservationStart(i) \in Int /\ ReservationEnd(i) \in Int
      /\ ReservationStart(j) \in Int /\ ReservationEnd(j) \in Int
  BY LedgerAssumption DEF ReservationStart, ReservationEnd
<1>4. ReservationEnd(j) <= ReservationStart(i) \/ ReservationEnd(i) <= ReservationStart(j)
  BY <1>3 DEF Overlap
<1> QED BY <1>1, <1>2, <1>3, <1>4

----------------------------------------------------------------------------

\* Nothing is listed and nothing is reserved when the planners start.
LEMMA InvInit == Init => Inv
  BY DEF Init, Inv, TypeOK, PlannerStates, Passed

\* Every step of a planner keeps the invariant; a ledger that is whole stays so.
LEMMA InvStep ==
    ASSUME Inv, NEW r \in Planners, Planner(r)
    PROVE  Inv'
<1> USE DEF Inv, TypeOK, PlannerStates, Passed, Goto
<1>1. CASE BuildPlan(r)
  <2>1. TypeOK'
    BY <1>1 DEF BuildPlan
  <2>2. \A p \in Planners : (pc[p] \in Passed \cup {"list", "read"} => Fits(index[p], jobs[p]))'
    BY <1>1 DEF BuildPlan, Fits, JobEnd, JobStart, ReservationEnd, ReservationStart
  <2> QED BY <1>1, <2>1, <2>2 DEF BuildPlan, Overlap, ReservationEnd, ReservationStart
<1>2. CASE ListLedgers(r)
  <2>1. TypeOK'
    BY <1>2 DEF ListLedgers
  <2> QED BY <1>2, <2>1 DEF ListLedgers, Fits, JobEnd, JobStart, Overlap, ReservationEnd, ReservationStart
<1>3. CASE AssertNoOverlap(r)
  <2>1. TypeOK'
    BY <1>3 DEF AssertNoOverlap
  <2>2. UNCHANGED <<index, jobs, listed, file>>
    BY <1>3 DEF AssertNoOverlap
  <2>3. CASE \E q \in listed[r] : Conflict(r, q)
    BY <1>3, <2>1, <2>2, <2>3 DEF AssertNoOverlap
  <2>4. CASE ~ \E q \in listed[r] : Conflict(r, q)
    <3>1. \A q \in Planners : q \in listed[r] => file[q] = "whole" /\ ~Overlap(index[r], index[q])
      BY <2>4 DEF Conflict
    <3>2. pc' = [pc EXCEPT ![r] = "plan"]
      BY <1>3, <2>4 DEF AssertNoOverlap
    <3> QED BY <1>3, <2>1, <2>2, <3>1, <3>2 DEF AssertNoOverlap
  <2> QED BY <2>3, <2>4
<1>4. CASE WritePlan(r)
  BY <1>4 DEF WritePlan
<1>5. CASE OpenLedger(r)
  BY <1>5 DEF OpenLedger
<1>6. CASE FillLedger(r)
  BY <1>6 DEF FillLedger
<1>7. CASE Kill(r)
  BY <1>7 DEF Kill
<1> QED BY <1>1, <1>2, <1>3, <1>4, <1>5, <1>6, <1>7 DEF Planner

\* The invariant of every behaviour of the planners.
THEOREM LedgerInvariant == Spec => []Inv
<1>1. Inv /\ [Next]_vars => Inv'
  <2> SUFFICES ASSUME Inv, [Next]_vars PROVE Inv'
    OBVIOUS
  <2>1. CASE Next
    BY <2>1, InvStep DEF Next
  <2>2. CASE UNCHANGED vars
    BY <2>2 DEF vars, Inv, TypeOK, Passed, Fits, JobEnd, JobStart, Overlap, ReservationEnd, ReservationStart
  <2> QED BY <2>1, <2>2
<1> QED BY InvInit, <1>1, PTL DEF Spec

----------------------------------------------------------------------------

\* Type correctness: a ledger is whole exactly when its planner succeeded, and
\* torn only while it is written or because the planner was killed there.
THEOREM LedgerTypeCorrect == Spec => []TypeOK
<1>1. Inv => TypeOK
  BY DEF Inv
<1> QED BY <1>1, LedgerInvariant, PTL

\* A reservation that left a ledger behind is never given out again to a
\* planner that found the ledger.
THEOREM ReservationNeverRecycled == Spec => []NeverRecycled
<1>1. Inv => NeverRecycled
  BY DEF Inv, NeverRecycled, Reserved, Passed
<1> QED BY <1>1, LedgerInvariant, PTL

\* The invariant keeps the rows of all Jobs apart.
LEMMA InvKeepsRowsApart == Inv => RowsNeverShared
<1> SUFFICES ASSUME Inv, NEW p \in Planners, NEW q \in Planners,
                    NEW a \in 0 .. jobs[p] - 1, NEW b \in 0 .. jobs[q] - 1,
                    Reserved(p), (p = q /\ a # b) \/ (q \in listed[p] /\ Reserved(q))
             PROVE  RowsOf(index[p], a) \cap RowsOf(index[q], b) = {}
  BY DEF RowsNeverShared
<1>1. /\ index[p] \in Int /\ index[q] \in Int
      /\ jobs[p] \in Nat /\ jobs[q] \in Nat
  BY LedgerAssumption DEF Inv, TypeOK
<1>2. a \in Nat /\ b \in Nat
  BY <1>1
<1>3. CASE p = q /\ a # b
  <2>1. a < b \/ b < a
    BY <1>2, <1>3
  <2> QED BY <1>1, <1>2, <1>3, <2>1, JobsApart
<1>4. CASE q \in listed[p] /\ Reserved(q)
  <2>1. Fits(index[p], jobs[p]) /\ Fits(index[q], jobs[q])
    BY <1>4 DEF Inv, Reserved, Passed
  <2>2. ~Overlap(index[p], index[q])
    BY <1>4 DEF Inv, Reserved, Passed
  <2> QED BY <1>1, <2>1, <2>2, CampaignsApart
<1> QED BY <1>3, <1>4

\* No row is sent by two Jobs, whether of one campaign or of two of which one
\* found the other's ledger.
THEOREM NoRowSentTwice == Spec => []RowsNeverShared
  BY InvKeepsRowsApart, LedgerInvariant, PTL

\* A planner that has listed the ledgers and not yet marked its own reservation.
Reserving == {"read", "plan", "open", "fill"}
OneAtATime == \A p, q \in Planners : pc[p] \in Reserving /\ pc[q] \in Reserving => p = q

\* What a lone planner has not found is not there.
FindsAll(p) == pc[p] \in Reserving => \A q \in Planners \ {p} : q \in listed[p] \/ file[q] = "none"

\* No other planner adds a ledger to those that a lone one has found.
LEMMA LonePlannerFindsAll ==
    ASSUME Inv, OneAtATime, NEW r \in Planners, Planner(r), NEW p \in Planners, FindsAll(p)
    PROVE  FindsAll(p)'
<1> USE DEF Inv, TypeOK, Goto
<1>1. CASE ListLedgers(r)
  BY <1>1 DEF ListLedgers, FindsAll, Reserving
<1>2. CASE OpenLedger(r) \/ FillLedger(r)
  <2>1. pc[r] \in Reserving /\ UNCHANGED listed
    BY <1>2 DEF OpenLedger, FillLedger, Reserving
  <2>2. \A q \in Planners \ {r} : file'[q] = file[q] /\ pc'[q] = pc[q]
    BY <1>2 DEF OpenLedger, FillLedger
  <2>3. p # r => pc[p] \notin Reserving
    BY <2>1 DEF OneAtATime
  <2> QED BY <2>1, <2>2, <2>3 DEF FindsAll
<1>3. CASE BuildPlan(r) \/ AssertNoOverlap(r) \/ WritePlan(r) \/ Kill(r)
  <2>1. UNCHANGED <<listed, file>>
    BY <1>3 DEF BuildPlan, AssertNoOverlap, WritePlan, Kill
  <2>2. pc'[p] \in Reserving => pc[p] \in Reserving
    BY <1>3 DEF BuildPlan, AssertNoOverlap, WritePlan, Kill, Reserving
  <2> QED BY <2>1, <2>2 DEF FindsAll
<1> QED BY <1>1, <1>2, <1>3 DEF Planner

\* So whoever reserves has compared its range with everyone's.
LEMMA LonePlannerIsDisjoint ==
    ASSUME Inv, ReservationsDisjoint, NEW r \in Planners, Planner(r), FindsAll(r)
    PROVE  ReservationsDisjoint'
<1> USE DEF Inv, TypeOK, Goto
<1>1. CASE FillLedger(r)
  <2>1. pc[r] = "fill" /\ UNCHANGED index /\ \A q \in Planners \ {r} : pc'[q] = pc[q]
    BY <1>1 DEF FillLedger
  <2>2. ASSUME NEW q \in Planners \ {r}, Reserved(q) PROVE ~Overlap(index[r], index[q])
    <3>1. file[q] = "whole"
      BY <2>2 DEF Reserved
    <3>2. q \in listed[r]
      BY <2>1, <3>1 DEF FindsAll, Reserving
    <3> QED BY <2>1, <3>2 DEF Passed
  <2>3. \A q \in Planners \ {r} :
           Reserved(q) => ~Overlap(index[r], index[q]) /\ ~Overlap(index[q], index[r])
    BY <2>2 DEF Overlap
  <2> QED BY <2>1, <2>3 DEF ReservationsDisjoint, Reserved, Overlap, ReservationStart, ReservationEnd
<1>2. CASE ~FillLedger(r)
  <2>1. UNCHANGED index /\ \A q \in Planners : Reserved(q)' => Reserved(q)
    BY <1>2 DEF Planner, BuildPlan, ListLedgers, AssertNoOverlap, WritePlan, OpenLedger, Kill, Reserved
  <2> QED BY <2>1 DEF ReservationsDisjoint, Overlap, ReservationStart, ReservationEnd
<1> QED BY <1>1, <1>2

\* Reservations are disjoint if planners do not run beside each other between the listing
\* of the ledgers and the marker, killed or not: that the two are one step is all that
\* assert_no_overlap lacks.
THEOREM LonePlannersReserveApart == Spec /\ []OneAtATime => []ReservationsDisjoint
<1> DEFINE SerialInv == ReservationsDisjoint /\ \A p \in Planners : FindsAll(p)
<1>1. Init => SerialInv
  BY DEF Init, ReservationsDisjoint, Reserved, FindsAll, Reserving
<1>2. Inv /\ OneAtATime /\ SerialInv /\ [Next]_vars => SerialInv'
  <2> SUFFICES ASSUME Inv, OneAtATime, SerialInv, [Next]_vars PROVE SerialInv'
    OBVIOUS
  <2>1. ASSUME NEW r \in Planners, Planner(r) PROVE SerialInv'
    BY <2>1, LonePlannerFindsAll, LonePlannerIsDisjoint
  <2>2. CASE UNCHANGED vars
    BY <2>2 DEF vars, ReservationsDisjoint, Reserved, FindsAll, Overlap, ReservationStart,
                ReservationEnd
  <2> QED BY <2>1, <2>2 DEF Next
<1>3. SerialInv => ReservationsDisjoint
  OBVIOUS
<1> HIDE DEF SerialInv
<1> QED BY <1>1, <1>2, <1>3, LedgerInvariant, PTL DEF Spec

----------------------------------------------------------------------------
(* The recovery cycle.                                                     *)

Jobs == Recovery!Jobs
Post == Recovery!Post
Expected == Recovery!ExpectedServed
AllComplete == Recovery!AllComplete
Measured == {"telemetry", "counters", "events", "summary"}
Kinds == {"good", "slow", "exhausted", "lost"}
JobStates == {"created", "armed", "running", "complete", "deleted"}

\* The cluster and the drivers.
PodInv ==
    /\ clock \in Instants /\ logged \in Nat /\ hurt \in BOOLEAN
    /\ target \in [uid : Nat, restarts : Nat, warnings : Nat, served : Nat]

\* No response before T0, and none after the last one had to drain.
JobsInv ==
    /\ DOMAIN driverJobs = Jobs
    /\ \A j \in Jobs :
          /\ driverJobs[j] \in [state : JobStates, armed : Int, answers : Seq(Kinds)]
          /\ driverJobs[j].state = "created" => driverJobs[j].answers = <<>>
          /\ driverJobs[j].state = "running" \/ driverJobs[j].answers # <<>> => clock >= 0
    /\ driverJobs[Post].state = "running" /\ Recovery!LastAnswer(Post) =>
          clock <= PostEnd + RpcTimeout
    /\ IsFiniteSet(Recovery!Responses)

\* An instant after the last response and an interval of the log before the next.
Quiet ==
    CHOOSE i \in Instants :
        /\ PostEnd + RpcTimeout <= i
        /\ \E k \in Instants :
              /\ i + LogInterval <= k /\ k <= PostEnd + RpcTimeout + MetricSettle
              /\ \A m \in Instants : m <= i \/ k <= m

\* What the place of the script says of its files.
StageInv ==
    /\ runner \in {"arming", "bound", "polling", "cancel", "delete", "done"} \cup Measured
    /\ files \in [after : Seq(Nat), events : Nat, counter : Nat, log : Nat] /\ due \in Int
    /\ runner \in {"arming", "bound", "polling"} => files.after = <<>>
    /\ runner \in {"polling"} \cup Measured => bound = "gate"
    /\ runner \in Measured => AllComplete /\ files.after # <<>>
    /\ runner \in Measured \ {"telemetry"} => clock > Quiet
    /\ DOMAIN status = {"status", "decision"} /\ status.decision.valid \in BOOLEAN
    /\ runner # "done" => status.status = "none" /\ ~status.decision.valid
    /\ status.decision.valid => AllComplete /\ status.status = "completed"

\* The plan that is executed.
PlanInv == Recovery!ValidatePlan

CycleInv == PlanInv /\ PodInv /\ JobsInv /\ StageInv

\* The cycle counts with the operator that the library speaks of.
LEMMA SameCardinality == \A S : Recovery!Cardinality(S) = Cardinality(S)
BY DEF Recovery!Cardinality, Cardinality

\* The log is written between the last response and the reading of the counters.
LEMMA QuietTime ==
    /\ Quiet \in Instants /\ Quiet \in Int /\ PostEnd + RpcTimeout <= Quiet
    /\ PostEnd + RpcTimeout \in Nat /\ MetricSettle \in Nat /\ LogInterval \in Nat \ {0}
    /\ Quiet < PostEnd + RpcTimeout + MetricSettle
    /\ \A m \in Instants : Quiet < m => Quiet + LogInterval <= m
<1>1. /\ Quiet \in Instants /\ PostEnd + RpcTimeout <= Quiet
      /\ \E k \in Instants :
            /\ Quiet + LogInterval <= k /\ k <= PostEnd + RpcTimeout + MetricSettle
            /\ \A m \in Instants : m <= Quiet \/ k <= m
  <2>1. \E i \in Instants :
            /\ PostEnd + RpcTimeout <= i
            /\ \E k \in Instants :
                  /\ i + LogInterval <= k /\ k <= PostEnd + RpcTimeout + MetricSettle
                  /\ \A m \in Instants : m <= i \/ k <= m
    BY RecoveryConstants DEF RecoveryConstants
  <2>. QED
    BY <2>1 DEF Quiet
<1>2. /\ Instants \subseteq Int /\ LogInterval \in Nat \ {0}
      /\ {PostEnd, RpcTimeout, MetricSettle} \subseteq Nat
  BY RecoveryConstants DEF RecoveryConstants
<1>3. PICK k \in Instants :
          /\ Quiet + LogInterval <= k /\ k <= PostEnd + RpcTimeout + MetricSettle
          /\ \A m \in Instants : m <= Quiet \/ k <= m
  BY <1>1
<1> HIDE DEF Quiet
<1>4. Quiet < PostEnd + RpcTimeout + MetricSettle
  BY <1>1, <1>2, <1>3
<1>5. \A m \in Instants : Quiet < m => Quiet + LogInterval <= m
  BY <1>1, <1>2, <1>3
<1>. QED
  BY <1>1, <1>2, <1>4, <1>5

\* The Jobs are numbered, the first is at T0 and the last is the post phase.
LEMMA PlanShape ==
    ASSUME PlanInv
    PROVE  /\ Len(Offsets) \in Nat \ {0} /\ Post \in Nat /\ Post \in Jobs /\ Jobs \subseteq Nat
           /\ \A j \in Jobs : /\ Recovery!Start(j) \in Nat /\ Recovery!Start(j) <= PostEnd
                              /\ Recovery!Slots(j) \in Nat \ {0}
<1>1. Len(Offsets) \in Nat \ {0} /\ \A i \in 1 .. Len(Offsets) : Offsets[i] \in Nat
  <2>1. Offsets \in Seq(Nat) /\ Offsets # <<>>
    BY RecoveryConstants DEF RecoveryConstants
  <2>. QED
    BY <2>1
<1>2. Post = Len(Offsets) + 3 /\ Jobs = 1 .. Len(Offsets) + 3
  BY DEF Post, Jobs, Recovery!Post, Recovery!Jobs
<1>a. {OverloadStart, OverloadEnd, PostStart, PostEnd} \subseteq Nat /\ PostStart <= PostEnd
      /\ PostSlots \in Nat \ {0}
  BY RecoveryConstants DEF RecoveryConstants
<1>3. ASSUME NEW j \in Jobs PROVE Recovery!Start(j) \in Nat
  <2>1. j = 1 \/ j = 2 \/ j \in 3 .. Len(Offsets) + 2 \/ j = Len(Offsets) + 3
    BY <1>1, <1>2
  <2>2. CASE j \in 3 .. Len(Offsets) + 2
    <3>1. j - 2 \in 1 .. Len(Offsets) /\ j # 1 /\ j # 2 /\ j # Len(Offsets) + 3
      BY <1>1, <2>2
    <3>2. Recovery!Start(j) = OverloadEnd + Offsets[j - 2]
      BY <2>2, <3>1 DEF Recovery!Start, Recovery!Probes, Recovery!Post
    <3>. QED
      BY <1>1, <1>a, <3>1, <3>2
  <2>3. CASE j = 1 \/ j = 2 \/ j = Len(Offsets) + 3
    BY <1>1, <1>a, <2>3 DEF Recovery!Start, Recovery!Probes, Recovery!Post
  <2>. QED
    BY <2>1, <2>2, <2>3
<1>4. Recovery!Start(Post) = PostStart
  BY <1>1, <1>2 DEF Recovery!Start, Recovery!Probes, Recovery!Post
<1>5. \A j \in Jobs : j < Post => Recovery!Start(j) < Recovery!Start(Post)
  BY <1>1, <1>2 DEF PlanInv, Recovery!ValidatePlan, Jobs
<1>6. ASSUME NEW j \in Jobs PROVE Recovery!Start(j) <= PostEnd
  <2>1. j < Post \/ j = Post
    BY <1>1, <1>2
  <2>. QED
    BY <1>3, <1>4, <1>5, <2>1, <1>a
<1>7. \A j \in Jobs : Recovery!Slots(j) \in Nat \ {0}
  BY <1>a DEF Recovery!Slots
<1>. QED
  BY <1>1, <1>2, <1>3, <1>6, <1>7

\* The responses are pairs of a Job and a position among its answers.
LEMMA InResponses ==
    ASSUME NEW f, NEW x
    PROVE  x \in UNION {{k} \X Recovery!Ok(f[k].answers) : k \in Jobs}
             <=> \E k \in Jobs : \E i \in Recovery!Ok(f[k].answers) : x = <<k, i>>
OBVIOUS

\* A response that is counted is one more.
LEMMA OneMoreAnswer ==
    ASSUME JobsInv, NEW j \in Jobs, NEW a \in Kinds, NEW state,
           driverJobs' = [driverJobs EXCEPT ![j].answers = Append(@, a), ![j].state = state]
    PROVE  /\ IsFiniteSet(Recovery!Responses')
           /\ Expected' \in Nat /\ Expected \in Nat
           /\ Expected' = Expected + IF a \in {"good", "slow"} THEN 1 ELSE 0
<1> DEFINE s == driverJobs[j].answers
           n == Len(s) + 1
           Ok(t) == Recovery!Ok(t)
           moved == driverJobs'
           R(f) == UNION {{k} \X Ok(f[k].answers) : k \in Jobs}
<1>1. s \in Seq(Kinds) /\ n \in Nat /\ n \notin DOMAIN s
  BY DEF JobsInv
<1>2. driverJobs'[j].answers = Append(s, a) /\ \A k \in Jobs : k # j => driverJobs'[k] = driverJobs[k]
  BY DEF JobsInv
<1>3. Ok(Append(s, a)) = Ok(s) \cup (IF a \in {"good", "slow"} THEN {n} ELSE {})
  <2>1. /\ DOMAIN Append(s, a) = DOMAIN s \cup {n} /\ Append(s, a)[n] = a
        /\ \A i \in DOMAIN s : Append(s, a)[i] = s[i]
    BY <1>1, SMTT(30)
  <2>2. \A i \in DOMAIN s : i # n
    BY <1>1
  <2> HIDE DEF s, n
  <2>. QED
    BY <2>1, <2>2 DEF Recovery!Ok
<1>4. n \notin Ok(s)
  BY <1>1 DEF Recovery!Ok
<1>5. Recovery!Responses = R(driverJobs) /\ Recovery!Responses' = R(moved)
  BY DEF Recovery!Responses, Jobs
<1> HIDE DEF s, n, Ok, moved
<1>6. \A k \in Jobs : k # j => Ok(moved[k].answers) = Ok(driverJobs[k].answers)
  BY <1>2 DEF moved
<1>7. Recovery!Responses' = Recovery!Responses \cup (IF a \in {"good", "slow"} THEN {<<j, n>>} ELSE {})
  <2> SUFFICES ASSUME NEW x
               PROVE  x \in Recovery!Responses' <=>
                        x \in Recovery!Responses \/ (a \in {"good", "slow"} /\ x = <<j, n>>)
    OBVIOUS
  <2>1. x \in Recovery!Responses <=> \E k \in Jobs : \E i \in Ok(driverJobs[k].answers) : x = <<k, i>>
    BY <1>5, InResponses DEF Ok
  <2>2. x \in Recovery!Responses' <=> \E k \in Jobs : \E i \in Ok(moved[k].answers) : x = <<k, i>>
    BY <1>5, InResponses DEF Ok
  <2>3. Ok(moved[j].answers) = Ok(driverJobs[j].answers) \cup (IF a \in {"good", "slow"} THEN {n} ELSE {})
    BY <1>2, <1>3 DEF s, moved
  <2>. QED
    BY <1>6, <2>1, <2>2, <2>3
<1>8. <<j, n>> \notin Recovery!Responses
  BY <1>4, <1>5 DEF s
<1>9. IsFiniteSet(Recovery!Responses)
  BY DEF JobsInv
<1>10. Expected = Cardinality(Recovery!Responses) /\ Expected' = Cardinality(Recovery!Responses')
  BY SameCardinality DEF Expected, Recovery!ExpectedServed
<1> HIDE DEF R
<1>11. Expected \in Nat
  BY <1>9, <1>10, FS_CardinalityType
<1>12. CASE a \in {"good", "slow"}
  <2>1. Recovery!Responses' = Recovery!Responses \cup {<<j, n>>}
    BY <1>7, <1>12
  <2>2. /\ IsFiniteSet(Recovery!Responses \cup {<<j, n>>})
        /\ Cardinality(Recovery!Responses \cup {<<j, n>>}) = Cardinality(Recovery!Responses) + 1
    BY <1>8, <1>9, FS_AddElement
  <2>. QED
    BY <1>10, <1>11, <1>12, <2>1, <2>2
<1>13. CASE a \notin {"good", "slow"}
  BY <1>7, <1>9, <1>10, <1>11, <1>13
<1>. QED
  BY <1>12, <1>13

\* Deleted Jobs keep the answers they had.
LEMMA JobsStay ==
    ASSUME PlanInv, JobsInv, driverJobs' \in {driverJobs, Recovery!Deleted}, clock' = clock
    PROVE  JobsInv' /\ Expected' = Expected
<1>1. /\ DOMAIN driverJobs' = Jobs
      /\ \A j \in Jobs : /\ driverJobs'[j].answers = driverJobs[j].answers
                         /\ driverJobs'[j].armed = driverJobs[j].armed
                         /\ driverJobs'[j].state \in {driverJobs[j].state, "deleted"}
                         /\ driverJobs'[j] \in [state : JobStates, armed : Int, answers : Seq(Kinds)]
  BY DEF JobsInv, Recovery!Deleted, Jobs, JobStates
<1>2. Recovery!Responses' = Recovery!Responses
  BY <1>1 DEF Recovery!Responses, Jobs
<1>3. Recovery!LastAnswer(Post)' <=> Recovery!LastAnswer(Post)
  BY <1>1, PlanShape DEF Recovery!LastAnswer
<1>4. JobsInv'
  BY <1>1, <1>2, <1>3, PlanShape DEF JobsInv
<1>5. Expected' = Expected
  BY <1>2 DEF Expected, Recovery!ExpectedServed
<1>. QED
  BY <1>4, <1>5

Script == Recovery!RunnerNext \/ Recovery!Cancel \/ Recovery!ForegroundDelete
Observers == Recovery!ObserverNext \/ Recovery!Stall
Cluster == Recovery!Restart \/ Recovery!Replace \/ Recovery!Flap \/ Recovery!Stray
Drivers == Recovery!Arm \/ (\E j \in Recovery!Jobs : Recovery!Send(j)) \/ Recovery!Drain

\* The script leaves the Pod alone, and of the Jobs it can but delete all.
LEMMA ScriptEffect ==
    ASSUME Script
    PROVE  /\ UNCHANGED <<clock, target, hurt, logged, bound>>
           /\ driverJobs' \in {driverJobs, Recovery!Deleted}
<1> USE DEF Recovery!Runs, Recovery!pod, Recovery!observers, Recovery!Request
<1>1. CASE Recovery!CloseBarrier
  BY <1>1 DEF Recovery!CloseBarrier
<1>2. CASE Recovery!BarrierLate
  BY <1>2 DEF Recovery!BarrierLate, Recovery!Die
<1>3. CASE Recovery!Authorize
  BY <1>3 DEF Recovery!Authorize
<1>4. CASE Recovery!NotAuthorized
  BY <1>4 DEF Recovery!NotAuthorized, Recovery!Die
<1>5. CASE Recovery!Abort
  BY <1>5 DEF Recovery!Abort, Recovery!Die
<1>6. CASE Recovery!Collect
  BY <1>6 DEF Recovery!Collect
<1>7. CASE Recovery!TelemetrySettled
  BY <1>7 DEF Recovery!TelemetrySettled
<1>8. CASE Recovery!CountersAgree
  BY <1>8 DEF Recovery!CountersAgree
<1>9. CASE Recovery!CountersDiffer
  BY <1>9 DEF Recovery!CountersDiffer, Recovery!Die
<1>10. CASE Recovery!EventsAfter
  BY <1>10 DEF Recovery!EventsAfter
<1>11. CASE Recovery!Summarize
  BY <1>11 DEF Recovery!Summarize
<1>12. CASE Recovery!Reject
  BY <1>12 DEF Recovery!Reject, Recovery!Die
<1>13. CASE Recovery!Cancel
  BY <1>13 DEF Recovery!Cancel
<1>14. CASE Recovery!ForegroundDelete
  BY <1>14 DEF Recovery!ForegroundDelete
<1>. QED
  BY <1>1, <1>2, <1>3, <1>4, <1>5, <1>6, <1>7, <1>8, <1>9, <1>10, <1>11, <1>12, <1>13, <1>14
     DEF Script, Recovery!RunnerNext

\* The observers leave the script and the Pod alone; once the gate is there they do
\* not take it back.
LEMMA ObserverEffect ==
    ASSUME Observers
    PROVE  /\ UNCHANGED <<clock, target, hurt, logged, runner, due, files, status>>
           /\ driverJobs' \in {driverJobs, Recovery!Deleted}
           /\ runner \in {"bound", "polling"} /\ (bound = "gate" => bound' = "gate")
<1> USE DEF Recovery!pod, Recovery!script, Recovery!Request, Recovery!AbortFromObserver,
            Recovery!Observing
<1>1. CASE Recovery!TargetBound
  BY <1>1 DEF Recovery!TargetBound, Recovery!BoundDue
<1>2. CASE Recovery!Kill
  BY <1>2 DEF Recovery!Kill, Recovery!KillDue
<1>3. CASE Recovery!Sample
  BY <1>3 DEF Recovery!Sample, Recovery!SampleDue
<1>4. CASE Recovery!Checkpoint
  BY <1>4 DEF Recovery!Checkpoint, Recovery!CheckpointDue
<1>5. CASE Recovery!Stall
  BY <1>5 DEF Recovery!Stall, Recovery!BoundDue
<1>. QED
  BY <1>1, <1>2, <1>3, <1>4, <1>5 DEF Observers, Recovery!ObserverNext

\* What happens to the Pod, while the script runs.
LEMMA ClusterEffect ==
    ASSUME Cluster
    PROVE  /\ UNCHANGED <<clock, driverJobs, runner, due, files, status, bound>> /\ runner # "done"
           /\ \/ Recovery!Restart \/ Recovery!Replace
              \/ Recovery!Flap /\ logged' = logged
              \/ Recovery!Stray /\ logged' = logged
<1> USE DEF Recovery!Fault, Recovery!script, Recovery!observers
<1>1. CASE Recovery!Restart
  BY <1>1 DEF Recovery!Restart, Recovery!Disturb
<1>2. CASE Recovery!Replace
  BY <1>2 DEF Recovery!Replace, Recovery!Disturb
<1>3. CASE Recovery!Flap
  BY <1>3 DEF Recovery!Flap
<1>4. CASE Recovery!Stray
  BY <1>4 DEF Recovery!Stray
<1>. QED
  BY <1>1, <1>2, <1>3, <1>4 DEF Cluster

\* A driver that answers does it in time; one that is armed has no answer yet.
LEMMA DriverEffect ==
    ASSUME CycleInv, Drivers
    PROVE  /\ UNCHANGED <<clock, hurt, logged, runner, due, files, status, bound>>
           /\ ~AllComplete
           /\ \/ /\ Recovery!Arm /\ UNCHANGED target
              \/ \E j \in Jobs, a \in Kinds :
                    Recovery!Answer(j, a) /\ 0 <= clock /\ clock <= PostEnd + RpcTimeout
<1>0. PlanInv /\ PodInv /\ JobsInv
  BY DEF CycleInv
<1>a. RpcTimeout \in Nat /\ PostEnd \in Nat /\ clock \in Int
  BY <1>0, RecoveryConstants DEF RecoveryConstants, PodInv
<1> USE DEF Recovery!script, Recovery!observers, Recovery!pod
<1>1. CASE Recovery!Arm
  BY <1>1 DEF Recovery!Arm, Recovery!ArmDue, AllComplete, Recovery!AllComplete
<1>2. ASSUME NEW j \in Jobs, Recovery!Send(j)
      PROVE  /\ \E a \in Kinds : Recovery!Answer(j, a)
             /\ 0 <= clock /\ clock <= PostEnd + RpcTimeout /\ ~AllComplete
  <2>1. driverJobs[j].state # "complete" /\ clock = Recovery!Start(j)
        /\ \E a \in Recovery!Answers(j) : Recovery!Answer(j, a)
    BY <1>2 DEF Recovery!Send, Recovery!SendDue
  <2>2. Recovery!Answers(j) \subseteq Kinds
    BY DEF Recovery!Answers, Recovery!Allowed, Kinds, Recovery!Probes, Jobs, Recovery!Jobs,
           Recovery!Post
  <2>3. Recovery!Start(j) \in Nat /\ Recovery!Start(j) <= PostEnd
    BY <1>0, PlanShape
  <2>. QED
    BY <1>a, <2>1, <2>2, <2>3 DEF AllComplete, Recovery!AllComplete, Jobs
<1>3. CASE Recovery!Drain
  <2>1. driverJobs[Post].state = "running" /\ Recovery!LastAnswer(Post)
        /\ \E a \in Recovery!Answers(Post) : Recovery!Answer(Post, a)
    BY <1>3 DEF Recovery!Drain, Post
  <2>2. Recovery!Answers(Post) \subseteq Kinds
    BY DEF Recovery!Answers, Recovery!Allowed, Kinds, Recovery!Probes, Post, Recovery!Post
  <2>3. Post \in Jobs /\ 0 <= clock /\ clock <= PostEnd + RpcTimeout
    BY <1>0, <1>a, <2>1, PlanShape DEF JobsInv
  <2>. QED
    BY <2>1, <2>2, <2>3 DEF Recovery!Answer, AllComplete, Recovery!AllComplete, Jobs
<1>. QED
  BY <1>1, <1>2, <1>3 DEF Drivers, Recovery!Answer, Jobs

\* The clock goes to a later instant and never past what is overdue; the log follows
\* the counter, at the latest after a log interval.
LEMMA TickEffect ==
    ASSUME CycleInv, Recovery!Tick
    PROVE  /\ UNCHANGED <<target, hurt, driverJobs, runner, due, files, status, bound>>
           /\ clock' \in Instants /\ clock < clock'
           /\ \A k \in Instants : clock < k => clock' <= k
           /\ ~Recovery!Prompt
           /\ runner \in {"cancel", "delete"} => clock' <= due
           /\ driverJobs[Post].state = "running" /\ Recovery!LastAnswer(Post)
                => clock' <= PostEnd + RpcTimeout
           /\ logged' \in {logged, target.served}
           /\ clock + LogInterval <= clock' => logged' = target.served
<1>1. LogInterval \in Nat /\ Instants \subseteq Int /\ clock \in Int
  BY RecoveryConstants DEF RecoveryConstants, CycleInv, PodInv
<1>2. UNCHANGED <<target, hurt, driverJobs, runner, due, files, status, bound>>
  BY DEF Recovery!Tick, Recovery!pod, Recovery!script, Recovery!observers
<1>3. PICK i \in Instants :
          /\ i > clock /\ \A k \in Instants : k > clock => i <= k
          /\ runner \in {"cancel", "delete"} => i <= due
          /\ driverJobs[Post].state = "running" =>
                i <= PostEnd + RpcTimeout \/ ~Recovery!LastAnswer(Post)
          /\ clock' = i
          /\ logged' \in IF i >= clock + LogInterval THEN {target.served}
                        ELSE {logged, target.served}
  BY DEF Recovery!Tick, Post
<1>4. ~Recovery!Prompt
  BY DEF Recovery!Tick
<1>. QED
  BY <1>1, <1>2, <1>3, <1>4

----------------------------------------------------------------------------

\* Every step keeps the types of the Pod and its log.
LEMMA PodStep ==
    ASSUME CycleInv, [Recovery!Next]_(Recovery!vars)
    PROVE  PodInv'
<1>0. /\ clock \in Instants /\ logged \in Nat /\ hurt \in BOOLEAN
      /\ target \in [uid : Nat, restarts : Nat, warnings : Nat, served : Nat]
  BY DEF CycleInv, PodInv
<1>1. CASE Script
  BY <1>0, <1>1, ScriptEffect DEF PodInv
<1>2. CASE Observers
  BY <1>0, <1>2, ObserverEffect DEF PodInv
<1>3. CASE Cluster
  <2>1. clock' = clock
    BY <1>3, ClusterEffect
  <2>2. CASE Recovery!Restart
    <3>1. /\ target' = [target EXCEPT !.restarts = @ + 1, !.served = 0]
          /\ logged' = target'.served /\ hurt' \in BOOLEAN
      BY <1>0, <2>2 DEF Recovery!Restart, Recovery!Disturb
    <3>a. target.restarts + 1 \in Nat
      BY <1>0
    <3>2. target' \in [uid : Nat, restarts : Nat, warnings : Nat, served : Nat]
      BY <1>0, <3>1, <3>a
    <3>. QED
      BY <1>0, <2>1, <3>1, <3>2 DEF PodInv
  <2>3. CASE Recovery!Replace
    BY <1>0, <2>1, <2>3 DEF Recovery!Replace, Recovery!Disturb, PodInv
  <2>4. CASE Recovery!Flap
    BY <1>0, <2>1, <2>4 DEF Recovery!Flap, PodInv
  <2>5. CASE Recovery!Stray
    BY <1>0, <2>1, <2>5 DEF Recovery!Stray, PodInv
  <2>. QED
    BY <1>3, <2>2, <2>3, <2>4, <2>5 DEF Cluster
<1>4. CASE Drivers
  <2>1. UNCHANGED <<clock, hurt, logged>>
    BY <1>4, DriverEffect
  <2>2. CASE UNCHANGED target
    BY <1>0, <2>1, <2>2 DEF PodInv
  <2>3. ASSUME NEW j \in Jobs, NEW a \in Kinds, Recovery!Answer(j, a) PROVE PodInv'
    BY <1>0, <2>1, <2>3 DEF Recovery!Answer, PodInv
  <2>. QED
    BY <1>4, <2>2, <2>3, DriverEffect
<1>5. CASE Recovery!Tick
  BY <1>0, <1>5, TickEffect DEF PodInv
<1>6. CASE UNCHANGED Recovery!vars
  BY <1>0, <1>6 DEF Recovery!vars, PodInv
<1>. QED
  BY <1>1, <1>2, <1>3, <1>4, <1>5, <1>6
     DEF Recovery!Next, Script, Observers, Cluster, Drivers

\* A driver that is armed has no answer yet, and one that was armed stays.
LEMMA ArmEffect ==
    ASSUME CycleInv, Recovery!Arm
    PROVE  JobsInv' /\ Expected' = Expected /\ clock' = clock /\ ~AllComplete'
<1>0. PlanInv /\ JobsInv /\ clock \in Int
  BY RecoveryConstants DEF RecoveryConstants, CycleInv, PodInv
<1>1. /\ clock' = clock
      /\ \E late \in SUBSET Jobs :
            driverJobs' = [j \in Jobs |-> IF j \in late \/ driverJobs[j].state # "created"
                                          THEN driverJobs[j]
                                          ELSE [state |-> "armed", armed |-> clock, answers |-> <<>>]]
  BY DEF Recovery!Arm, Jobs
<1>2. /\ DOMAIN driverJobs' = Jobs
      /\ \A j \in Jobs : /\ driverJobs'[j].answers = driverJobs[j].answers
                         /\ driverJobs'[j].state \in {driverJobs[j].state, "armed"}
                         /\ driverJobs'[j] \in [state : JobStates, armed : Int, answers : Seq(Kinds)]
  <2>1. PICK late \in SUBSET Jobs :
          driverJobs' = [j \in Jobs |-> IF j \in late \/ driverJobs[j].state # "created"
                                        THEN driverJobs[j]
                                        ELSE [state |-> "armed", armed |-> clock, answers |-> <<>>]]
    BY <1>1
  <2>2. DOMAIN driverJobs' = Jobs
    BY <2>1
  <2>3. ASSUME NEW j \in Jobs
        PROVE  /\ driverJobs'[j].answers = driverJobs[j].answers
               /\ driverJobs'[j].state \in {driverJobs[j].state, "armed"}
               /\ driverJobs'[j] \in [state : JobStates, armed : Int, answers : Seq(Kinds)]
    <3>1. /\ driverJobs[j] \in [state : JobStates, armed : Int, answers : Seq(Kinds)]
          /\ driverJobs[j].state = "created" => driverJobs[j].answers = <<>>
      BY <1>0 DEF JobsInv
    <3>2. \/ driverJobs'[j] = driverJobs[j]
          \/ /\ driverJobs'[j] = [state |-> "armed", armed |-> clock, answers |-> <<>>]
             /\ driverJobs[j].state = "created"
      BY <2>1
    <3>3. <<>> \in Seq(Kinds)
      OBVIOUS
    <3>. QED
      BY <1>0, <3>1, <3>2, <3>3 DEF JobStates
  <2>. QED
    BY <2>2, <2>3
<1>3. Recovery!Responses' = Recovery!Responses
  BY <1>2 DEF Recovery!Responses, Jobs
<1>4. Recovery!LastAnswer(Post)' <=> Recovery!LastAnswer(Post)
  BY <1>0, <1>2, PlanShape DEF Recovery!LastAnswer
<1>5. JobsInv'
  BY <1>0, <1>1, <1>2, <1>3, <1>4, PlanShape DEF JobsInv
<1>6. ~AllComplete'
  <2>1. \E j \in Jobs : driverJobs[j].state = "created"
    BY DEF Recovery!Arm, Recovery!ArmDue, Jobs
  <2>. QED
    BY <1>2, <2>1 DEF AllComplete, Recovery!AllComplete, Jobs
<1>. QED
  BY <1>1, <1>3, <1>5, <1>6 DEF Expected, Recovery!ExpectedServed

\* Every step keeps what is known of the Jobs and their answers.
LEMMA JobsStep ==
    ASSUME CycleInv, [Recovery!Next]_(Recovery!vars)
    PROVE  JobsInv'
<1>0. PlanInv /\ JobsInv
  BY DEF CycleInv
<1>a. clock \in Int /\ Instants \subseteq Int /\ PostEnd \in Nat /\ RpcTimeout \in Nat
  BY RecoveryConstants DEF RecoveryConstants, CycleInv, PodInv
<1>1. CASE Script
  BY <1>0, <1>1, ScriptEffect, JobsStay
<1>2. CASE Observers
  BY <1>0, <1>2, ObserverEffect, JobsStay
<1>3. CASE Cluster
  BY <1>0, <1>3, ClusterEffect, JobsStay
<1>4. CASE Recovery!Arm
  BY <1>4, ArmEffect
<1>5. ASSUME NEW j \in Jobs, NEW a \in Kinds, Recovery!Answer(j, a),
             0 <= clock, clock <= PostEnd + RpcTimeout, clock' = clock
      PROVE  JobsInv'
  <2> DEFINE state == IF Len(driverJobs[j].answers) + 1 = Recovery!Slots(j)
                      THEN "complete" ELSE "running"
  <2>1. driverJobs' = [driverJobs EXCEPT ![j].answers = Append(@, a), ![j].state = state]
    BY <1>5 DEF Recovery!Answer
  <2>2. state \in JobStates /\ state # "created"
    BY DEF JobStates
  <2> HIDE DEF state
  <2>3. IsFiniteSet(Recovery!Responses')
    BY <1>0, <2>1, OneMoreAnswer
  <2>4. /\ DOMAIN driverJobs' = Jobs
        /\ \A k \in Jobs :
              /\ driverJobs'[k] \in [state : JobStates, armed : Int, answers : Seq(Kinds)]
              /\ driverJobs'[k].state = "created" => driverJobs'[k].answers = <<>>
    <3>1. \A k \in Jobs :
             /\ driverJobs[k] \in [state : JobStates, armed : Int, answers : Seq(Kinds)]
             /\ driverJobs[k].state = "created" => driverJobs[k].answers = <<>>
      BY <1>0 DEF JobsInv
    <3>2. DOMAIN driverJobs' = Jobs
      BY <1>0, <2>1 DEF JobsInv
    <3>3. Append(driverJobs[j].answers, a) \in Seq(Kinds)
      BY <3>1
    <3>4. driverJobs'[j] = [driverJobs[j] EXCEPT !.answers = Append(@, a), !.state = state]
      BY <1>0, <2>1 DEF JobsInv
    <3>5. /\ driverJobs'[j] \in [state : JobStates, armed : Int, answers : Seq(Kinds)]
          /\ driverJobs'[j].state # "created"
      BY <2>2, <3>1, <3>3, <3>4
    <3>6. \A k \in Jobs : k # j => driverJobs'[k] = driverJobs[k]
      BY <1>0, <2>1 DEF JobsInv
    <3>. QED
      BY <3>1, <3>2, <3>5, <3>6
  <2>5. 0 <= clock' /\ clock' <= PostEnd + RpcTimeout
    BY <1>5
  <2>. QED
    BY <2>3, <2>4, <2>5, <1>a DEF JobsInv
<1>6. CASE Recovery!Tick
  <2>1. driverJobs' = driverJobs /\ clock < clock' /\ clock' \in Int
        /\ (driverJobs[Post].state = "running" /\ Recovery!LastAnswer(Post)
               => clock' <= PostEnd + RpcTimeout)
    BY <1>6, <1>a, TickEffect
  <2>2. Recovery!Responses' = Recovery!Responses
    BY <2>1 DEF Recovery!Responses
  <2>3. Recovery!LastAnswer(Post)' <=> Recovery!LastAnswer(Post)
    BY <2>1 DEF Recovery!LastAnswer
  <2>. QED
    BY <1>0, <1>a, <2>1, <2>2, <2>3 DEF JobsInv
<1>7. CASE UNCHANGED Recovery!vars
  BY <1>0, <1>7, JobsStay DEF Recovery!vars
<1>. QED
  BY <1>1, <1>2, <1>3, <1>4, <1>5, <1>6, <1>7, DriverEffect
     DEF Recovery!Next, Script, Observers, Cluster, Drivers

\* Every step of the script keeps what its place says, and nobody else moves it.
LEMMA StageStep ==
    ASSUME CycleInv, [Recovery!Next]_(Recovery!vars)
    PROVE  StageInv'
<1>0. StageInv /\ clock \in Int
  BY RecoveryConstants DEF RecoveryConstants, CycleInv, PodInv
<1>a. /\ target.uid \in Nat /\ target.restarts \in Nat /\ target.warnings \in Nat /\ logged \in Nat
      /\ {RequestTimeout, DeleteTimeout, CounterSettle, RpcTimeout, PostEnd} \subseteq Nat
      /\ Quiet \in Int /\ Quiet < PostEnd + RpcTimeout + MetricSettle /\ MetricSettle \in Nat
  BY QuietTime, RecoveryConstants DEF RecoveryConstants, CycleInv, PodInv
<1>b. AllComplete' <=> \A j \in Jobs : driverJobs'[j].state = "complete"
  BY DEF AllComplete, Recovery!AllComplete, Jobs
<1>c. ASSUME UNCHANGED driverJobs PROVE AllComplete' <=> AllComplete
  BY <1>b, <1>c DEF AllComplete, Recovery!AllComplete, Jobs
<1>d. ASSUME NEW from, Recovery!Die(from), from # "done" PROVE StageInv'
  <2>1. /\ runner = from /\ runner' = "cancel" /\ due' = clock + RequestTimeout
        /\ UNCHANGED <<clock, bound, driverJobs, files, status>>
    BY <1>d DEF Recovery!Die, Recovery!Runs, Recovery!observers
  <2>2. due' \in Int
    BY <1>0, <1>a, <2>1
  <2>. QED
    BY <1>0, <1>c, <1>d, <2>1, <2>2 DEF StageInv, Measured
<1>1. CASE Recovery!RunnerNext
  <2> USE DEF Recovery!Runs, Recovery!observers
  <2>1. CASE Recovery!CloseBarrier
    BY <1>0, <1>c, <2>1 DEF Recovery!CloseBarrier, StageInv, Measured
  <2>2. CASE Recovery!BarrierLate
    BY <1>d, <2>2 DEF Recovery!BarrierLate
  <2>3. CASE Recovery!Authorize
    BY <1>0, <1>c, <2>3 DEF Recovery!Authorize, StageInv, Measured
  <2>4. CASE Recovery!NotAuthorized
    BY <1>d, <2>4 DEF Recovery!NotAuthorized
  <2>5. CASE Recovery!Abort
    BY <1>d, <2>5 DEF Recovery!Abort
  <2>6. CASE Recovery!Collect
    <3>1. <<target.uid, target.restarts>> \in Seq(Nat) /\ <<target.uid, target.restarts>> # <<>>
      BY <1>a
    <3>2. /\ runner = "polling" /\ runner' = "telemetry" /\ AllComplete
          /\ files' = [files EXCEPT !.after = <<target.uid, target.restarts>>]
          /\ UNCHANGED <<clock, bound, driverJobs, due, status>>
      BY <2>6 DEF Recovery!Collect, Recovery!ObserversDone, AllComplete
    <3>. QED
      BY <1>0, <1>c, <3>1, <3>2 DEF StageInv, Measured
  <2>7. CASE Recovery!TelemetrySettled
    <3>1. /\ runner = "telemetry" /\ runner' = "counters" /\ due' = clock + CounterSettle
          /\ clock >= PostEnd + RpcTimeout + MetricSettle
          /\ UNCHANGED <<clock, bound, driverJobs, files, status>>
      BY <2>7 DEF Recovery!TelemetrySettled, Recovery!ReadsCounters
    <3>2. due' \in Int /\ clock > Quiet
      BY <1>0, <1>a, <3>1
    <3>. QED
      BY <1>0, <1>c, <3>1, <3>2 DEF StageInv, Measured
  <2>8. CASE Recovery!CountersAgree
    <3>1. /\ runner = "counters" /\ runner' = "events"
          /\ files' = [files EXCEPT !.counter = logged, !.log = target.restarts]
          /\ UNCHANGED <<clock, bound, driverJobs, due, status>>
      BY <2>8 DEF Recovery!CountersAgree
    <3>2. /\ files' \in [after : Seq(Nat), events : Nat, counter : Nat, log : Nat]
          /\ files'.after = files.after
      BY <1>0, <1>a, <3>1 DEF StageInv
    <3>. QED
      BY <1>0, <1>c, <3>1, <3>2 DEF StageInv, Measured
  <2>9. CASE Recovery!CountersDiffer
    BY <1>d, <2>9 DEF Recovery!CountersDiffer
  <2>10. CASE Recovery!EventsAfter
    <3>1. /\ runner = "events" /\ runner' = "summary"
          /\ files' = [files EXCEPT !.events = target.warnings]
          /\ UNCHANGED <<clock, bound, driverJobs, due, status>>
      BY <2>10 DEF Recovery!EventsAfter
    <3>. QED
      BY <1>0, <1>a, <1>c, <3>1 DEF StageInv, Measured
  <2>11. CASE Recovery!Summarize
    <3>1. /\ runner = "summary" /\ runner' = "done"
          /\ DOMAIN status' = {"status", "decision"} /\ status'.decision.valid = TRUE
          /\ status'.status = "completed"
          /\ UNCHANGED <<clock, bound, driverJobs, due, files>>
      BY <2>11 DEF Recovery!Summarize
    <3>. QED
      BY <1>0, <1>c, <3>1 DEF StageInv, Measured
  <2>12. CASE Recovery!Reject
    BY <1>d, <2>12 DEF Recovery!Reject
  <2>. QED
    BY <1>1, <2>1, <2>2, <2>3, <2>4, <2>5, <2>6, <2>7, <2>8, <2>9, <2>10, <2>11, <2>12
       DEF Recovery!RunnerNext
<1>2. CASE Recovery!Cancel
  <2>1. /\ runner = "cancel" /\ runner' = "delete" /\ due' = clock + DeleteTimeout
        /\ UNCHANGED <<clock, bound, files, status>>
    BY <1>2 DEF Recovery!Cancel, Recovery!Runs, Recovery!observers
  <2>2. due' \in Int
    BY <1>0, <1>a, <2>1
  <2>. QED
    BY <1>0, <2>1, <2>2 DEF StageInv, Measured
<1>3. CASE Recovery!ForegroundDelete
  <2>1. /\ runner = "delete" /\ runner' = "done" /\ UNCHANGED <<clock, bound, due, files>>
        /\ \E s : status' = [status EXCEPT !.status = s]
    BY <1>3 DEF Recovery!ForegroundDelete, Recovery!Runs, Recovery!observers, Recovery!Ends
  <2>2. DOMAIN status' = DOMAIN status /\ status'.decision = status.decision
    BY <1>0, <2>1 DEF StageInv
  <2>. QED
    BY <1>0, <2>1, <2>2 DEF StageInv, Measured
<1>4. CASE Observers
  BY <1>0, <1>4, ObserverEffect DEF StageInv, Measured
<1>5. CASE Cluster
  BY <1>0, <1>5, <1>c, ClusterEffect DEF StageInv
<1>6. CASE Drivers
  <2>1. /\ UNCHANGED <<clock, runner, due, files, status, bound>> /\ ~AllComplete
    BY <1>6, DriverEffect
  <2>. QED
    BY <1>0, <2>1 DEF StageInv
<1>7. CASE Recovery!Tick
  <2>1. /\ UNCHANGED <<driverJobs, runner, due, files, status, bound>>
        /\ clock' \in Int /\ clock < clock'
    BY <1>7, TickEffect, RecoveryConstants DEF RecoveryConstants
  <2>2. clock > Quiet => clock' > Quiet
    BY <1>0, <1>a, <2>1
  <2>. QED
    BY <1>0, <1>c, <2>1, <2>2 DEF StageInv
<1>8. CASE UNCHANGED Recovery!vars
  BY <1>0, <1>8, <1>c DEF Recovery!vars, StageInv
<1>. QED
  BY <1>1, <1>2, <1>3, <1>4, <1>5, <1>6, <1>7, <1>8
     DEF Recovery!Next, Observers, Cluster, Drivers

\* The plan does not change, and neither does what it assumes.
LEMMA CycleStep ==
    ASSUME CycleInv, [Recovery!Next]_(Recovery!vars)
    PROVE  CycleInv'
<1>1. PlanInv'
  BY DEF CycleInv, PlanInv, Recovery!ValidatePlan
<1>. QED
  BY <1>1, PodStep, JobsStep, StageStep DEF CycleInv

\* The clock begins at the first of the instants.
LEMMA FirstInstant ==
    ASSUME RecoveryConstants
    PROVE  Recovery!Min(Instants) \in Instants
           /\ \A i \in Instants : Recovery!Min(Instants) <= i
<1>1. \E first \in Instants : \A i \in Instants : first <= i
  BY RecoveryConstants DEF RecoveryConstants
<1>. QED
  BY <1>1 DEF Recovery!Min

\* The invariant holds when the cycle begins.
LEMMA CycleStart ==
    ASSUME Recovery!Init
    PROVE  CycleInv
<1>1. PlanInv
  BY DEF Recovery!Init, PlanInv
<1>2. PodInv
  BY FirstInstant, RecoveryConstants DEF Recovery!Init, PodInv
<1>3. /\ DOMAIN driverJobs = Jobs
      /\ \A j \in Jobs : driverJobs[j] = [state |-> "created", armed |-> 0, answers |-> <<>>]
  BY DEF Recovery!Init, Jobs
<1>4. Recovery!Responses = {}
  BY <1>3 DEF Recovery!Responses, Recovery!Ok, Jobs
<1>5. IsFiniteSet(Recovery!Responses)
  BY <1>4, FS_EmptySet
<1>6. \A j \in Jobs : driverJobs[j] \in [state : JobStates, armed : Int, answers : Seq(Kinds)]
  <2>1. [state |-> "created", armed |-> 0, answers |-> <<>>]
          \in [state : JobStates, armed : Int, answers : Seq(Kinds)]
    <3>1. <<>> \in Seq(Kinds)
      OBVIOUS
    <3>. QED
      BY <3>1 DEF JobStates
  <2>. QED
    BY <1>3, <2>1
<1>7. JobsInv
  BY <1>1, <1>3, <1>5, <1>6, PlanShape DEF JobsInv
<1>8. StageInv
  <2>1. /\ runner = "arming" /\ due = Barrier /\ Barrier \in Int
        /\ files = [after |-> <<>>, events |-> 0, counter |-> 0, log |-> 0]
        /\ status = [status |-> "none", decision |-> Recovery!NoDecision]
    BY RecoveryConstants DEF Recovery!Init, RecoveryConstants
  <2>2. <<>> \in Seq(Nat)
    OBVIOUS
  <2>. QED
    BY <2>1, <2>2 DEF StageInv, Measured, Recovery!NoDecision
<1>. QED
  BY <1>1, <1>2, <1>7, <1>8 DEF CycleInv

----------------------------------------------------------------------------
(* A valid summary is of an undisturbed Pod.                               *)

\* The Pod is the one that was bound, and its process too.
Healthy == Recovery!Healthy

\* Responses to another client make every later counter of that process too large.
Shared ==
    /\ Healthy => target.served > Expected
    /\ Healthy /\ AllComplete /\ clock > Quiet => logged > Expected
    /\ runner \in {"events", "summary"} => files.log # 0 \/ files.counter > Expected

\* What went wrong is in a file, or in the state that a later file will be read from.
Evident ==
    \/ files.after \notin {<<>>, <<0, 0>>}
    \/ files.after = <<>> /\ ~Healthy
    \/ IF runner = "summary" THEN files.events > 0 ELSE target.warnings > 0
    \/ Shared

HurtInv ==
    /\ Healthy => target.served >= Expected
    /\ hurt /\ runner \notin {"cancel", "delete", "done"} => Evident
    /\ status.decision.valid => ~hurt

\* Nothing has happened to the Pod, or been counted, when the cycle begins.
LEMMA HurtStart ==
    ASSUME Recovery!Init
    PROVE  HurtInv
<1>1. Recovery!Responses = {}
  BY DEF Recovery!Init, Recovery!Responses, Recovery!Ok
<1>2. Expected = 0
  BY <1>1, SameCardinality, FS_EmptySet DEF Expected, Recovery!ExpectedServed
<1>. QED
  BY <1>2 DEF Recovery!Init, HurtInv, Recovery!NoDecision

\* What disturbed the Pod stays evident until the summarizer has looked for it.
LEMMA HurtStep ==
    ASSUME CycleInv, HurtInv, [Recovery!Next]_(Recovery!vars)
    PROVE  HurtInv'
<1>0. PlanInv /\ PodInv /\ JobsInv /\ StageInv /\ CycleInv'
  BY CycleStep DEF CycleInv
<1>a. /\ Expected \in Nat /\ logged \in Nat /\ clock \in Int /\ PostEnd + RpcTimeout \in Int
      /\ Quiet \in Int /\ PostEnd + RpcTimeout <= Quiet
      /\ target.served \in Nat /\ target.warnings \in Nat
      /\ target.uid \in Nat /\ target.restarts \in Nat /\ hurt \in BOOLEAN
      /\ target \in [uid : Nat, restarts : Nat, warnings : Nat, served : Nat]
  <2>1. Expected \in Nat
    BY <1>0, SameCardinality, FS_CardinalityType DEF JobsInv, Expected, Recovery!ExpectedServed
  <2>2. PostEnd \in Nat /\ RpcTimeout \in Nat /\ Instants \subseteq Int
    BY RecoveryConstants DEF RecoveryConstants
  <2>. QED
    BY <1>0, <2>1, <2>2, QuietTime DEF PodInv
<1> USE DEF Healthy, Recovery!Healthy
<1>b. ASSUME UNCHANGED driverJobs PROVE (AllComplete' <=> AllComplete) /\ Expected' = Expected
  BY <1>b DEF AllComplete, Recovery!AllComplete, Expected, Recovery!ExpectedServed, Recovery!Responses
<1>c. ASSUME NEW from, Recovery!Die(from), from # "done" PROVE HurtInv'
  <2>1. /\ runner = from /\ runner' = "cancel"
        /\ UNCHANGED <<target, hurt, driverJobs, status>>
    BY <1>c DEF Recovery!Die, Recovery!Runs, Recovery!pod
  <2>. QED
    BY <1>b, <2>1 DEF HurtInv
<1>1. CASE Recovery!RunnerNext
  <2> USE DEF Recovery!Runs, Recovery!pod
  <2>1. CASE Recovery!CloseBarrier
    <3>1. /\ runner = "arming" /\ runner' = "bound"
          /\ UNCHANGED <<clock, target, hurt, logged, driverJobs, files, status>>
      BY <2>1 DEF Recovery!CloseBarrier
    <3>. QED
      BY <1>b, <3>1 DEF HurtInv, Evident, Shared
  <2>2. CASE Recovery!BarrierLate
    BY <1>c, <2>2 DEF Recovery!BarrierLate
  <2>3. CASE Recovery!Authorize
    <3>1. /\ runner = "bound" /\ runner' = "polling"
          /\ UNCHANGED <<clock, target, hurt, logged, driverJobs, files, status>>
      BY <2>3 DEF Recovery!Authorize
    <3>. QED
      BY <1>b, <3>1 DEF HurtInv, Evident, Shared
  <2>4. CASE Recovery!NotAuthorized
    BY <1>c, <2>4 DEF Recovery!NotAuthorized
  <2>5. CASE Recovery!Abort
    BY <1>c, <2>5 DEF Recovery!Abort
  <2>6. CASE Recovery!Collect
    <3>1. /\ runner = "polling" /\ runner' = "telemetry"
          /\ files' = [files EXCEPT !.after = <<target.uid, target.restarts>>]
          /\ UNCHANGED <<clock, target, hurt, logged, driverJobs, status>>
      BY <2>6 DEF Recovery!Collect
    <3>2. files'.after = <<target.uid, target.restarts>> /\ files.after = <<>>
      BY <1>0, <3>1 DEF StageInv
    <3>3. ~Healthy => files'.after \notin {<<>>, <<0, 0>>}
      BY <1>a, <3>2
    <3>. QED
      BY <1>b, <3>1, <3>2, <3>3 DEF HurtInv, Evident, Shared
  <2>7. CASE Recovery!TelemetrySettled
    <3>1. /\ runner = "telemetry" /\ runner' = "counters"
          /\ UNCHANGED <<clock, target, hurt, logged, driverJobs, files, status>>
      BY <2>7 DEF Recovery!TelemetrySettled
    <3>. QED
      BY <1>b, <3>1 DEF HurtInv, Evident, Shared
  <2>8. CASE Recovery!CountersAgree
    <3>1. /\ runner = "counters" /\ runner' = "events" /\ target.uid = 0 /\ logged = Expected
          /\ files' = [files EXCEPT !.counter = logged, !.log = target.restarts]
          /\ UNCHANGED <<clock, target, hurt, logged, driverJobs, status>>
      BY <2>8 DEF Recovery!CountersAgree, Expected
    <3>2. /\ files'.after = files.after /\ files'.events = files.events
          /\ files'.log = target.restarts
      BY <1>0, <3>1 DEF StageInv
    <3>3. AllComplete /\ clock > Quiet
      BY <1>0, <3>1 DEF StageInv, Measured
    <3>4. Shared => target.restarts # 0
      BY <1>a, <3>1, <3>3 DEF Shared
    <3>5. Shared => Shared'
      BY <1>b, <3>1, <3>2, <3>4 DEF Shared
    <3>. QED
      BY <1>b, <3>1, <3>2, <3>5 DEF HurtInv, Evident
  <2>9. CASE Recovery!CountersDiffer
    BY <1>c, <2>9 DEF Recovery!CountersDiffer
  <2>10. CASE Recovery!EventsAfter
    <3>1. /\ runner = "events" /\ runner' = "summary"
          /\ files' = [files EXCEPT !.events = target.warnings]
          /\ UNCHANGED <<clock, target, hurt, logged, driverJobs, status>>
      BY <2>10 DEF Recovery!EventsAfter
    <3>2. /\ files'.after = files.after /\ files'.events = target.warnings
          /\ files'.log = files.log /\ files'.counter = files.counter
      BY <1>0, <3>1 DEF StageInv
    <3>. QED
      BY <1>b, <3>1, <3>2 DEF HurtInv, Evident, Shared
  <2>11. CASE Recovery!Summarize
    <3>1. /\ runner = "summary" /\ runner' = "done" /\ Recovery!Valid
          /\ UNCHANGED <<clock, target, hurt, logged, driverJobs, files>>
      BY <2>11 DEF Recovery!Summarize
    <3>2. files.after = <<0, 0>> /\ files.events = 0 /\ files.log = 0 /\ files.counter = Expected
      BY <3>1 DEF Recovery!Valid, Recovery!IdentitySound, Recovery!EventsQuiet, Recovery!LogSound,
                  Recovery!Reconciles, Expected
    <3>3. <<0, 0>> # <<>>
      OBVIOUS
    <3>4. ~Evident
      BY <1>a, <3>1, <3>2, <3>3 DEF Evident, Shared
    <3>5. ~hurt
      BY <3>1, <3>4 DEF HurtInv
    <3>. QED
      BY <1>b, <3>1, <3>5 DEF HurtInv
  <2>12. CASE Recovery!Reject
    BY <1>c, <2>12 DEF Recovery!Reject
  <2>. QED
    BY <1>1, <2>1, <2>2, <2>3, <2>4, <2>5, <2>6, <2>7, <2>8, <2>9, <2>10, <2>11, <2>12
       DEF Recovery!RunnerNext
<1>2. CASE Recovery!Cancel \/ Recovery!ForegroundDelete
  <2>1. UNCHANGED <<clock, target, hurt, logged, bound>> /\ driverJobs' \in {driverJobs, Recovery!Deleted}
    BY <1>2, ScriptEffect DEF Script
  <2>2. Expected' = Expected
    BY <1>0, <2>1, JobsStay
  <2>3. runner' \in {"delete", "done"} /\ runner \in {"cancel", "delete"}
    BY <1>2 DEF Recovery!Cancel, Recovery!ForegroundDelete, Recovery!Runs
  <2>4. ~status'.decision.valid
    <3>1. ~status.decision.valid /\ DOMAIN status = {"status", "decision"}
      BY <1>0, <2>3 DEF StageInv
    <3>2. status' = status \/ \E s : status' = [status EXCEPT !.status = s]
      BY <1>2 DEF Recovery!Cancel, Recovery!ForegroundDelete, Recovery!Ends
    <3>. QED
      BY <3>1, <3>2
  <2>. QED
    BY <2>1, <2>2, <2>3, <2>4 DEF HurtInv
<1>3. CASE Observers
  <2>1. /\ UNCHANGED <<clock, target, hurt, logged, runner, due, files, status>>
        /\ driverJobs' \in {driverJobs, Recovery!Deleted} /\ runner \in {"bound", "polling"}
    BY <1>3, ObserverEffect
  <2>2. Expected' = Expected
    BY <1>0, <2>1, JobsStay
  <2>3. AllComplete' => AllComplete
    <3>1. \A j \in Jobs : driverJobs'[j].state \in {driverJobs[j].state, "deleted"}
      BY <1>0, <2>1 DEF Recovery!Deleted, JobsInv, Jobs
    <3>. QED
      BY <3>1 DEF AllComplete, Recovery!AllComplete, Jobs
  <2>. QED
    BY <2>1, <2>2, <2>3 DEF HurtInv, Evident, Shared
<1>4. CASE Cluster
  <2>1. /\ UNCHANGED <<clock, driverJobs, runner, due, files, status, bound>> /\ runner # "done"
        /\ Expected' = Expected /\ (AllComplete' <=> AllComplete) /\ ~status.decision.valid
    BY <1>0, <1>4, <1>b, ClusterEffect DEF StageInv
  <2>2. ASSUME target'.uid # 0 \/ target'.restarts # 0, target'.warnings = target.warnings,
               ~Healthy => ~Healthy', hurt' = (hurt \/ files.after = <<>>)
        PROVE  HurtInv'
    <3>1. ~Healthy'
      BY <2>2
    <3>2. Shared => Shared'
      BY <2>1, <3>1 DEF Shared
    <3>. QED
      BY <2>1, <2>2, <3>1, <3>2 DEF HurtInv, Evident
  <2>3. CASE Recovery!Restart
    <3>1. /\ target' = [target EXCEPT !.restarts = @ + 1, !.served = 0]
          /\ hurt' = (hurt \/ ~(files.after # <<>>))
      BY <2>3 DEF Recovery!Restart, Recovery!Disturb
    <3>2. target'.restarts = target.restarts + 1 /\ target'.uid = target.uid
          /\ target'.warnings = target.warnings
      BY <1>a, <3>1
    <3>. QED
      BY <1>a, <2>2, <3>1, <3>2
  <2>4. CASE Recovery!Replace
    <3>1. /\ target' = [target EXCEPT !.uid = 1, !.restarts = 0, !.served = 0]
          /\ hurt' = (hurt \/ ~(files.after # <<>>))
      BY <2>4 DEF Recovery!Replace, Recovery!Disturb
    <3>2. target'.uid = 1 /\ target'.warnings = target.warnings
      BY <1>a, <3>1
    <3>. QED
      BY <1>a, <2>2, <3>1, <3>2
  <2>5. CASE Recovery!Flap /\ logged' = logged
    <3>1. /\ target' = [target EXCEPT !.warnings = @ + 1]
          /\ hurt' = (hurt \/ runner \notin {"summary", "done"})
      BY <2>5 DEF Recovery!Flap
    <3>2. /\ target'.warnings = target.warnings + 1 /\ target'.uid = target.uid
          /\ target'.restarts = target.restarts /\ target'.served = target.served
      BY <1>a, <3>1
    <3>3. Shared => Shared'
      BY <2>1, <2>5, <3>2 DEF Shared
    <3>4. target'.warnings > 0
      BY <1>a, <3>2
    <3>. QED
      BY <2>1, <3>1, <3>2, <3>3, <3>4 DEF HurtInv, Evident
  <2>6. CASE Recovery!Stray /\ logged' = logged
    <3>1. /\ target' = [target EXCEPT !.served = @ + 1] /\ hurt' = (hurt \/ ~AllComplete)
      BY <2>6 DEF Recovery!Stray, AllComplete
    <3>2. /\ target'.served = target.served + 1 /\ target'.uid = target.uid
          /\ target'.restarts = target.restarts /\ target'.warnings = target.warnings
      BY <1>a, <3>1
    <3>3. Healthy' => target'.served > Expected
      BY <1>a, <3>2 DEF HurtInv
    <3>4. Shared => Shared'
      BY <2>1, <2>6, <3>2, <3>3 DEF Shared
    <3>5. ~AllComplete => Shared'
      BY <1>0, <2>1, <3>3 DEF Shared, StageInv, Measured
    <3>. QED
      BY <1>a, <2>1, <3>1, <3>2, <3>3, <3>4, <3>5 DEF HurtInv, Evident
  <2>. QED
    BY <1>4, <2>3, <2>4, <2>5, <2>6, ClusterEffect
<1>5. CASE Drivers
  <2>1. /\ UNCHANGED <<clock, hurt, logged, runner, due, files, status, bound>> /\ ~AllComplete
        /\ \/ Recovery!Arm /\ UNCHANGED target
           \/ \E j \in Jobs, a \in Kinds :
                 Recovery!Answer(j, a) /\ 0 <= clock /\ clock <= PostEnd + RpcTimeout
    BY <1>5, DriverEffect
  <2>2. ~status.decision.valid /\ runner \notin Measured
    BY <1>0, <2>1 DEF StageInv
  <2>3. CASE Recovery!Arm /\ UNCHANGED target
    <3>1. Expected' = Expected /\ ~AllComplete'
      BY <2>3, ArmEffect
    <3>2. Shared => Shared'
      BY <2>1, <2>3, <3>1 DEF Shared
    <3>. QED
      BY <2>1, <2>2, <2>3, <3>1, <3>2 DEF HurtInv, Evident
  <2>4. ASSUME NEW j \in Jobs, NEW a \in Kinds, Recovery!Answer(j, a), clock <= PostEnd + RpcTimeout
        PROVE  HurtInv'
    <3> DEFINE state == IF Len(driverJobs[j].answers) + 1 = Recovery!Slots(j)
                        THEN "complete" ELSE "running"
               more == IF a \in {"good", "slow"} THEN 1 ELSE 0
    <3>1. /\ driverJobs' = [driverJobs EXCEPT ![j].answers = Append(@, a), ![j].state = state]
          /\ target' = [target EXCEPT !.served = @ + more]
      BY <2>4 DEF Recovery!Answer
    <3>2. more \in Nat
      OBVIOUS
    <3> HIDE DEF state
    <3>3. Expected' = Expected + more
      BY <1>0, <3>1, OneMoreAnswer
    <3> HIDE DEF more
    <3>4. /\ target'.served = target.served + more /\ target'.uid = target.uid
          /\ target'.restarts = target.restarts /\ target'.warnings = target.warnings
      BY <1>a, <3>1
    <3>5. (target.served >= Expected => target'.served >= Expected')
          /\ (target.served > Expected => target'.served > Expected')
      BY <1>a, <3>2, <3>3, <3>4
    <3>6. Shared => Shared'
      BY <1>a, <2>1, <2>2, <2>4, <3>4, <3>5 DEF Shared, Measured
    <3>. QED
      BY <2>1, <2>2, <3>4, <3>5, <3>6 DEF HurtInv, Evident
  <2>. QED
    BY <2>1, <2>3, <2>4
<1>6. CASE Recovery!Tick
  <2>1. /\ UNCHANGED <<target, hurt, driverJobs, runner, due, files, status, bound>>
        /\ clock \in Instants /\ clock' \in Instants /\ clock < clock'
        /\ logged' \in {logged, target.served}
        /\ (clock + LogInterval <= clock' => logged' = target.served)
    BY <1>0, <1>6, TickEffect DEF PodInv
  <2>2. clock <= Quiet /\ clock' > Quiet => logged' = target.served
    <3>1. clock < Quiet => clock' <= Quiet
      BY <1>6, TickEffect, QuietTime
    <3>2. clock' > Quiet => Quiet + LogInterval <= clock'
      BY <2>1, QuietTime
    <3>3. clock' \in Int
      BY <2>1, RecoveryConstants DEF RecoveryConstants
    <3>. QED
      BY <1>a, <2>1, <3>1, <3>2, <3>3
  <2>3. Shared => Shared'
    BY <1>a, <1>b, <2>1, <2>2 DEF Shared
  <2>. QED
    BY <1>b, <2>1, <2>3 DEF HurtInv, Evident
<1>7. CASE UNCHANGED Recovery!vars
  BY <1>b, <1>7 DEF Recovery!vars, HurtInv, Evident, Shared
<1>. QED
  BY <1>1, <1>2, <1>3, <1>4, <1>5, <1>6, <1>7 DEF Recovery!Next, Observers, Cluster, Drivers

----------------------------------------------------------------------------
(* A run that was not authorized is given up, and cleaned up, before T0.   *)

\* An instant between the deadline of the checkpoint and T0.
Lead == CHOOSE i \in Instants : BoundDeadline < i /\ i + RequestTimeout < 0

TimeInv ==
    /\ runner \in {"arming", "bound"} /\ bound # "gate" => clock <= Lead
    /\ runner = "cancel" /\ bound # "gate" => due < 0 /\ clock <= due
    /\ runner = "delete" /\ bound # "gate" => due - DeleteTimeout < 0
    /\ status.status = "aborted" => runner = "done"
    /\ status.status = "aborted" /\ bound # "gate" =>
          \A j \in Jobs : driverJobs[j].state = "deleted" /\ driverJobs[j].answers = <<>>

\* That instant is there, and leaves time for a request before T0.
LEMMA LeadTime ==
    ASSUME PlanInv
    PROVE  /\ Lead \in Instants /\ Lead \in Int /\ Lead + RequestTimeout < 0
           /\ Barrier < Lead /\ BoundDeadline < Lead /\ CancelDeadline < 0 /\ Barrier < 0
<1>1. \E i \in Instants : BoundDeadline < i /\ i + RequestTimeout < 0
  BY RecoveryConstants DEF RecoveryConstants
<1>2. Lead \in Instants /\ BoundDeadline < Lead /\ Lead + RequestTimeout < 0
  BY <1>1 DEF Lead
<1>3. {Barrier, Bound, BoundDeadline, CancelDeadline} \subseteq Int /\ Instants \subseteq Int
  BY RecoveryConstants DEF RecoveryConstants
<1>4. Barrier < Bound /\ Bound < BoundDeadline /\ CancelDeadline < 0
  BY DEF PlanInv, Recovery!ValidatePlan
<1>5. RequestTimeout \in Nat
  BY RecoveryConstants DEF RecoveryConstants
<1>6. Lead \in Int /\ Lead < 0
  BY <1>2, <1>3, <1>5
<1>. QED
  BY <1>2, <1>3, <1>4, <1>6

\* The cycle begins before its deadlines.
LEMMA TimeStart ==
    ASSUME Recovery!Init
    PROVE  TimeInv
<1>1. PlanInv
  BY DEF Recovery!Init, PlanInv
<1>2. clock <= Lead /\ runner = "arming" /\ status.status = "none"
  BY <1>1, LeadTime, FirstInstant, RecoveryConstants DEF Recovery!Init
<1>. QED
  BY <1>2 DEF TimeInv

\* Every step keeps a run without its gate before T0, until its Jobs are deleted.
LEMMA TimeStep ==
    ASSUME CycleInv, TimeInv, [Recovery!Next]_(Recovery!vars)
    PROVE  TimeInv'
<1>0. PlanInv /\ PodInv /\ JobsInv /\ StageInv
  BY DEF CycleInv
<1>a. /\ clock \in Int /\ Instants \subseteq Int /\ due \in Int
      /\ RequestTimeout \in Nat /\ DeleteTimeout \in Nat
      /\ Barrier \in Int /\ BoundDeadline \in Int /\ CancelDeadline \in Int
      /\ Lead \in Instants /\ Lead \in Int /\ Lead + RequestTimeout < 0
      /\ Barrier < Lead /\ BoundDeadline < Lead /\ CancelDeadline < 0
  BY <1>0, LeadTime, RecoveryConstants DEF RecoveryConstants, PodInv, StageInv
<1>b. runner # "done" => status.status = "none"
  BY <1>0 DEF StageInv
<1>c. Lead' = Lead
  BY DEF Lead
<1>d. ASSUME NEW from, Recovery!Die(from), from # "done",
             bound # "gate" => clock <= Lead
      PROVE  TimeInv'
  <2>1. /\ runner = from /\ runner' = "cancel" /\ due' = clock + RequestTimeout
        /\ UNCHANGED <<clock, bound, status>>
    BY <1>d DEF Recovery!Die, Recovery!Runs, Recovery!observers
  <2>2. clock <= Lead => due' < 0 /\ clock' <= due'
    BY <1>a, <2>1
  <2>. QED
    BY <1>b, <1>d, <2>1, <2>2 DEF TimeInv
<1>1. CASE Recovery!RunnerNext
  <2> USE DEF Recovery!Runs, Recovery!observers
  <2>1. CASE Recovery!CloseBarrier
    BY <1>b, <1>c, <2>1 DEF Recovery!CloseBarrier, TimeInv
  <2>2. CASE Recovery!BarrierLate
    <3>1. Recovery!Die("arming") /\ runner = "arming"
      BY <2>2 DEF Recovery!BarrierLate, Recovery!Die
    <3>. QED
      BY <1>d, <3>1 DEF TimeInv
  <2>3. CASE Recovery!Authorize
    BY <1>b, <2>3 DEF Recovery!Authorize, TimeInv
  <2>4. CASE Recovery!NotAuthorized
    <3>1. Recovery!Die("bound") /\ runner = "bound"
      BY <2>4 DEF Recovery!NotAuthorized, Recovery!Die
    <3>. QED
      BY <1>d, <3>1 DEF TimeInv
  <2>5. CASE Recovery!Abort
    <3>1. Recovery!Die("polling") /\ bound = "gate"
      BY <1>0, <2>5 DEF Recovery!Abort, Recovery!Die, StageInv
    <3>. QED
      BY <1>d, <3>1
  <2>6. CASE Recovery!Collect
    BY <1>b, <2>6 DEF Recovery!Collect, TimeInv
  <2>7. CASE Recovery!TelemetrySettled
    BY <1>b, <2>7 DEF Recovery!TelemetrySettled, TimeInv
  <2>8. CASE Recovery!CountersAgree
    BY <1>b, <2>8 DEF Recovery!CountersAgree, TimeInv
  <2>9. CASE Recovery!CountersDiffer
    <3>1. Recovery!Die("counters") /\ bound = "gate"
      BY <1>0, <2>9 DEF Recovery!CountersDiffer, Recovery!Die, StageInv, Measured
    <3>. QED
      BY <1>d, <3>1
  <2>10. CASE Recovery!EventsAfter
    BY <1>b, <2>10 DEF Recovery!EventsAfter, TimeInv
  <2>11. CASE Recovery!Summarize
    <3>1. runner' = "done" /\ status'.status = "completed"
      BY <2>11 DEF Recovery!Summarize
    <3>. QED
      BY <3>1 DEF TimeInv
  <2>12. CASE Recovery!Reject
    <3>1. Recovery!Die("summary") /\ bound = "gate"
      BY <1>0, <2>12 DEF Recovery!Reject, Recovery!Die, StageInv, Measured
    <3>. QED
      BY <1>d, <3>1
  <2>. QED
    BY <1>1, <2>1, <2>2, <2>3, <2>4, <2>5, <2>6, <2>7, <2>8, <2>9, <2>10, <2>11, <2>12
       DEF Recovery!RunnerNext
<1>2. CASE Recovery!Cancel
  <2>1. /\ runner = "cancel" /\ runner' = "delete" /\ due' = clock + DeleteTimeout
        /\ UNCHANGED <<clock, bound, status>>
    BY <1>2 DEF Recovery!Cancel, Recovery!Runs, Recovery!observers
  <2>2. due' - DeleteTimeout = clock
    BY <1>a, <2>1
  <2>3. bound # "gate" => clock < 0
    BY <1>a, <2>1 DEF TimeInv
  <2>. QED
    BY <1>b, <2>1, <2>2, <2>3 DEF TimeInv
<1>3. CASE Recovery!ForegroundDelete
  <2>1. /\ runner = "delete" /\ runner' = "done" /\ UNCHANGED <<clock, bound>>
        /\ DOMAIN status = {"status", "decision"}
    BY <1>0, <1>3 DEF Recovery!ForegroundDelete, Recovery!Runs, Recovery!observers, StageInv
  <2>2. PICK ok \in BOOLEAN :
            /\ Recovery!Request(ok)
            /\ IF Recovery!Cancelled(ok, due - DeleteTimeout)
               THEN Recovery!Ends(IF files.counter > 0 THEN "invalid" ELSE "aborted")
               ELSE Recovery!Ends("cleanup_failed")
    BY <1>3 DEF Recovery!ForegroundDelete
  <2>3. ASSUME status'.status = "aborted", bound # "gate"
        PROVE  \A j \in Jobs : driverJobs'[j].state = "deleted" /\ driverJobs'[j].answers = <<>>
    <3>1. Recovery!Cancelled(ok, due - DeleteTimeout)
      BY <2>1, <2>2, <2>3 DEF Recovery!Ends
    <3>2. due - DeleteTimeout < 0
      BY <2>1, <2>3 DEF TimeInv
    <3>3. ok /\ clock <= CancelDeadline
      BY <3>1, <3>2 DEF Recovery!Cancelled
    <3>4. driverJobs' = Recovery!Deleted
      BY <2>2, <3>3 DEF Recovery!Request
    <3>5. \A j \in Jobs : driverJobs[j].answers = <<>>
      BY <1>0, <1>a, <3>3 DEF JobsInv
    <3>6. \A j \in Jobs : driverJobs[j] \in [state : JobStates, armed : Int, answers : Seq(Kinds)]
      BY <1>0 DEF JobsInv
    <3>. QED
      BY <3>4, <3>5, <3>6 DEF Recovery!Deleted, Jobs
  <2>. QED
    BY <2>1, <2>3 DEF TimeInv
<1>4. CASE Observers
  <2>1. /\ UNCHANGED <<clock, runner, due, status>> /\ runner \in {"bound", "polling"}
        /\ (bound = "gate" => bound' = "gate")
    BY <1>4, ObserverEffect
  <2>. QED
    BY <1>b, <1>c, <2>1 DEF TimeInv
<1>5. CASE Cluster
  <2>1. UNCHANGED <<clock, driverJobs, runner, due, status, bound>>
    BY <1>5, ClusterEffect
  <2>. QED
    BY <1>c, <2>1 DEF TimeInv
<1>6. CASE Drivers
  <2>1. UNCHANGED <<clock, runner, due, status, bound>>
    BY <1>6, DriverEffect
  <2>2. ASSUME status.status = "aborted", bound # "gate" PROVE FALSE
    <3>1. runner = "done" /\ \A j \in Jobs : driverJobs[j].state = "deleted"
      BY <2>2 DEF TimeInv
    <3>2. Post \in Jobs
      BY <1>0, PlanShape
    <3>. QED
      BY <1>6, <3>1, <3>2 DEF Drivers, Recovery!Arm, Recovery!ArmDue, Recovery!Send, Recovery!SendDue, Recovery!Drain, Jobs, Post
  <2>. QED
    BY <1>c, <2>1, <2>2 DEF TimeInv
<1>7. CASE Recovery!Tick
  <2>1. /\ UNCHANGED <<driverJobs, runner, due, status, bound>>
        /\ clock' \in Int /\ ~Recovery!Prompt
        /\ \A k \in Instants : clock < k => clock' <= k
        /\ (runner \in {"cancel", "delete"} => clock' <= due)
    BY <1>7, <1>a, TickEffect
  <2>2. ASSUME runner \in {"arming", "bound"}, bound # "gate" PROVE clock' <= Lead
    <3>1. clock <= Barrier \/ clock <= BoundDeadline
      BY <1>a, <2>1, <2>2 DEF Recovery!Prompt, Recovery!ScriptDue
    <3>. QED
      BY <1>a, <2>1, <3>1
  <2>. QED
    BY <1>c, <2>1, <2>2 DEF TimeInv
<1>8. CASE UNCHANGED Recovery!vars
  BY <1>c, <1>8 DEF Recovery!vars, TimeInv
<1>. QED
  BY <1>1, <1>2, <1>3, <1>4, <1>5, <1>6, <1>7, <1>8
     DEF Recovery!Next, Observers, Cluster, Drivers

----------------------------------------------------------------------------
(* A cycle that nothing disturbs is measured.                              *)

\* The Pod and its log are what the drivers made of them.
Undisturbed ==
    /\ target.uid = 0 /\ target.restarts = 0 /\ target.warnings = 0
    /\ target.served = Expected
    /\ clock > Quiet => logged = target.served

\* The drivers are ARMED at once and before the barrier, and answered as they may be.
OnSchedule ==
    /\ runner = "arming" =>
          \/ \A j \in Jobs : driverJobs[j].state = "created" /\ driverJobs[j].armed = 0
          \/ \A j \in Jobs : driverJobs[j].state = "armed"
    /\ \A j \in Jobs :
          /\ driverJobs[j].state # "deleted"
          /\ runner # "arming" => driverJobs[j].state # "created"
          /\ driverJobs[j].state # "created" => driverJobs[j].armed <= Barrier
          /\ \A i \in DOMAIN driverJobs[j].answers : driverJobs[j].answers[i] \in Recovery!Allowed(j)
          /\ driverJobs[j].state = "complete" => Len(driverJobs[j].answers) = Recovery!Slots(j)

SamplesBefore(end) == \A i \in Instants : 0 <= i /\ i < end => <<"sample", i>> \in seen
SamplesTo(last) == \A i \in Instants : 0 <= i /\ i <= last => <<"sample", i>> \in seen

\* No deadline passes unmet, and the observers have seen what there was to see.
OnTime ==
    /\ bound \in {"waiting", "gate"} /\ monitor \in {"idle", "running", "done"}
    /\ runner = "arming" => clock <= Barrier /\ monitor = "idle" /\ bound = "waiting"
    /\ runner = "bound" /\ bound = "waiting" => clock <= BoundDeadline
    /\ runner \in {"bound", "polling"} => monitor # "idle"
    /\ runner \in Measured \cup {"done"} => monitor = "done" /\ Recovery!Passed = Checkpoints
    /\ monitor = "running" => SamplesBefore(clock)
    /\ monitor = "done" => SamplesTo(PostEnd)

\* The script has not died, and its files say what is so.
Collected ==
    /\ runner \notin {"cancel", "delete"}
    /\ runner \in Measured => files.after = <<0, 0>>
    /\ runner \in {"events", "summary"} => files.counter = Expected /\ files.log = 0
    /\ runner = "summary" => files.events = 0
    /\ runner = "done" => status.status = "completed"

Clean == Undisturbed /\ OnSchedule /\ OnTime /\ Collected
CleanInv == faults \in Nat /\ (faults = 0 => Clean)

\* A step takes a fault or takes none.
LEMMA FaultStep ==
    ASSUME [Recovery!Next]_(Recovery!vars)
    PROVE  faults' \in {faults, faults + 1}
<1> USE DEF Recovery!Fault
<1>1. CASE Recovery!RunnerNext
  BY <1>1 DEF Recovery!RunnerNext, Recovery!CloseBarrier, Recovery!BarrierLate,
     Recovery!Authorize, Recovery!NotAuthorized, Recovery!Abort, Recovery!Collect,
     Recovery!TelemetrySettled, Recovery!CountersAgree, Recovery!CountersDiffer,
     Recovery!EventsAfter, Recovery!Summarize, Recovery!Reject, Recovery!Die
<1>2. CASE Recovery!Cancel \/ Recovery!ForegroundDelete
  BY <1>2 DEF Recovery!Cancel, Recovery!ForegroundDelete, Recovery!Request
<1>3. CASE Observers
  BY <1>3 DEF Observers, Recovery!ObserverNext, Recovery!TargetBound, Recovery!Stall,
     Recovery!Kill, Recovery!Sample, Recovery!Checkpoint, Recovery!AbortFromObserver,
     Recovery!Request
<1>4. CASE Recovery!Arm
  BY <1>4 DEF Recovery!Arm
<1>5. CASE (\E j \in Recovery!Jobs : Recovery!Send(j)) \/ Recovery!Drain
  BY <1>5 DEF Recovery!Send, Recovery!Drain, Recovery!Answer
<1>6. CASE Cluster
  BY <1>6 DEF Cluster, Recovery!Restart, Recovery!Replace, Recovery!Flap, Recovery!Stray,
     Recovery!Disturb
<1>7. CASE Recovery!Tick
  BY <1>7 DEF Recovery!Tick
<1>8. CASE UNCHANGED Recovery!vars
  BY <1>8 DEF Recovery!vars
<1>. QED
  BY <1>1, <1>2, <1>3, <1>4, <1>5, <1>6, <1>7, <1>8 DEF Recovery!Next, Observers, Cluster

\* The cycle begins on time.
LEMMA CleanStart ==
    ASSUME Recovery!Init
    PROVE  CleanInv
<1>1. PlanInv /\ CycleInv
  BY CycleStart DEF Recovery!Init, PlanInv
<1>2. /\ clock <= Barrier /\ clock < 0 /\ clock \in Int
  <2>1. \E i \in Instants : i <= Barrier
    BY RecoveryConstants DEF RecoveryConstants
  <2>2. Instants \subseteq Int /\ Barrier \in Int /\ RequestTimeout \in Nat
    BY RecoveryConstants DEF RecoveryConstants
  <2>3. clock \in Instants /\ \A i \in Instants : clock <= i
    BY FirstInstant, RecoveryConstants DEF Recovery!Init
  <2>. QED
    BY <1>1, <2>1, <2>2, <2>3, LeadTime
<1>3. \A j \in Jobs : driverJobs[j] = [state |-> "created", armed |-> 0, answers |-> <<>>]
  BY DEF Recovery!Init, Jobs
<1>4. Recovery!Responses = {}
  BY <1>3 DEF Recovery!Responses, Recovery!Ok, Jobs
<1>5. Expected = 0
  BY <1>4, SameCardinality, FS_EmptySet DEF Expected, Recovery!ExpectedServed
<1>6. Undisturbed
  BY <1>5 DEF Recovery!Init, Undisturbed
<1>7. OnSchedule
  BY <1>3 DEF Recovery!Init, OnSchedule
<1>8. OnTime
  BY <1>2 DEF Recovery!Init, OnTime, Measured
<1>9. Collected
  BY DEF Recovery!Init, Collected, Measured
<1>. QED
  BY <1>6, <1>7, <1>8, <1>9 DEF Recovery!Init, CleanInv, Clean

\* Without a fault nothing makes the script give up.
LEMMA ScriptDoesNotDie ==
    ASSUME CycleInv, Clean, Script
    PROVE  /\ ~Recovery!BarrierLate /\ ~Recovery!NotAuthorized /\ ~Recovery!Abort
           /\ ~Recovery!CountersDiffer /\ ~Recovery!Reject
           /\ ~Recovery!Cancel /\ ~Recovery!ForegroundDelete
<1>0. StageInv /\ PodInv /\ JobsInv /\ PlanInv
  BY DEF CycleInv
<1>a. /\ clock \in Int /\ Barrier \in Int /\ BoundDeadline \in Int
      /\ logged \in Nat /\ target.served \in Nat
  BY <1>0, RecoveryConstants DEF RecoveryConstants, PodInv
<1>b. Undisturbed /\ OnSchedule /\ OnTime /\ Collected
  BY DEF Clean
<1>c. ~Recovery!ObserverFailed
  BY <1>b DEF OnTime, Recovery!ObserverFailed
<1>d. ASSUME NEW j \in Jobs, driverJobs[j].state = "complete" PROVE Recovery!ReportOK(j)
  BY <1>b, <1>d DEF OnSchedule, Recovery!ReportOK
<1>1. ~Recovery!BarrierLate
  BY <1>a, <1>b DEF OnTime, Recovery!BarrierLate, Recovery!Die, Recovery!Runs
<1>2. ~Recovery!NotAuthorized
  BY <1>a, <1>b, <1>c DEF OnTime, Recovery!NotAuthorized, Recovery!Die, Recovery!Runs
<1>3. ~Recovery!Abort
  BY <1>b, <1>c, <1>d DEF OnSchedule, Recovery!Abort, Recovery!CycleBroken, Jobs
<1>4. ~Recovery!CountersDiffer
  <2>1. ASSUME runner = "counters" PROVE target.uid = 0 /\ logged = Expected
    BY <1>0, <1>b, <2>1 DEF Undisturbed, StageInv, Measured
  <2>. QED
    BY <1>a, <2>1 DEF Recovery!CountersDiffer, Recovery!Die, Recovery!Runs, Expected
<1>5. ~Recovery!Reject
  <2>1. SUFFICES ASSUME runner = "summary" PROVE Recovery!Valid
    BY DEF Recovery!Reject, Recovery!Die, Recovery!Runs
  <2>2. ASSUME NEW j \in Jobs PROVE Recovery!DriverSound(j)
    <3>1. driverJobs[j].state = "complete"
      BY <1>0, <2>1, <2>2 DEF StageInv, Measured, AllComplete, Recovery!AllComplete, Jobs
    <3>2. Recovery!ReportOK(j)
      BY <1>d, <3>1
    <3>3. driverJobs[j].answers \in Seq(Kinds)
      BY <1>0, <2>2 DEF JobsInv
    <3>4. DOMAIN driverJobs[j].answers = 1 .. Len(driverJobs[j].answers)
      BY <3>3
    <3>. QED
      BY <3>2, <3>4 DEF Recovery!ReportOK, Recovery!DriverSound
  <2>3. Recovery!BarrierSound
    BY <1>b, <2>1 DEF OnSchedule, Recovery!BarrierSound, Jobs
  <2>4. Recovery!IdentitySound
    BY <1>0, <1>b, <2>1 DEF OnTime, Collected, StageInv, Measured, SamplesTo, Recovery!IdentitySound
  <2>5. Recovery!EventsQuiet /\ Recovery!LogSound /\ Recovery!Reconciles
    BY <1>b, <2>1 DEF Collected, Expected, Recovery!EventsQuiet, Recovery!LogSound,
       Recovery!Reconciles
  <2>. QED
    BY <2>2, <2>3, <2>4, <2>5 DEF Recovery!Valid, Jobs
<1>6. ~Recovery!Cancel /\ ~Recovery!ForegroundDelete
  BY <1>b DEF Collected, Recovery!Cancel, Recovery!ForegroundDelete, Recovery!Runs
<1>. QED
  BY <1>1, <1>2, <1>3, <1>4, <1>5, <1>6

\* The script goes on, and collects what is so.
LEMMA CleanScript ==
    ASSUME CycleInv, Clean, Script
    PROVE  Clean'
<1>0. StageInv /\ PodInv /\ JobsInv /\ PlanInv
  BY DEF CycleInv
<1>a. Undisturbed /\ OnSchedule /\ OnTime /\ Collected
  BY DEF Clean
<1>b. clock \in Int /\ Barrier \in Int /\ Barrier < 0 /\ Instants \subseteq Int
  BY <1>0, LeadTime, RecoveryConstants DEF RecoveryConstants, PodInv
<1>c. ASSUME UNCHANGED <<driverJobs, clock, target, logged>>
      PROVE  Undisturbed' /\ Expected' = Expected
  BY <1>a, <1>c DEF Undisturbed, Expected, Recovery!ExpectedServed, Recovery!Responses
<1>d. ASSUME UNCHANGED driverJobs, runner # "arming" \/ \A j \in Jobs : driverJobs[j].state = "armed",
             runner' # "arming"
      PROVE  OnSchedule'
  BY <1>a, <1>d DEF OnSchedule
<1> USE DEF Recovery!Runs, Recovery!pod, Recovery!observers
<1>1. CASE Recovery!CloseBarrier
  <2>1. /\ runner = "arming" /\ runner' = "bound" /\ clock <= Barrier /\ monitor' = "running"
        /\ \A j \in Jobs : driverJobs[j].state = "armed"
        /\ UNCHANGED <<clock, target, logged, driverJobs, bound, seen, due, files, status>>
    BY <1>1 DEF Recovery!CloseBarrier, Recovery!AllArmed, Jobs
  <2>2. clock' <= BoundDeadline
    BY <1>0, <1>b, <2>1, RecoveryConstants
       DEF RecoveryConstants, PlanInv, Recovery!ValidatePlan
  <2>3. OnTime'
    BY <1>a, <1>b, <2>1, <2>2 DEF OnTime, Measured, SamplesBefore
  <2>4. Collected'
    BY <2>1 DEF Collected, Measured
  <2>. QED
    BY <1>c, <1>d, <2>1, <2>3, <2>4 DEF Clean
<1>2. CASE Recovery!Authorize
  <2>1. /\ runner = "bound" /\ runner' = "polling" /\ bound = "gate"
        /\ UNCHANGED <<clock, target, logged, driverJobs, bound, monitor, seen, due, files, status>>
    BY <1>2 DEF Recovery!Authorize
  <2>2. OnTime'
    BY <1>a, <2>1 DEF OnTime, Measured, SamplesBefore, SamplesTo
  <2>3. Collected'
    BY <2>1 DEF Collected, Measured
  <2>. QED
    BY <1>c, <1>d, <2>1, <2>2, <2>3 DEF Clean
<1>3. CASE Recovery!Collect
  <2>1. /\ runner = "polling" /\ runner' = "telemetry" /\ monitor = "done"
        /\ Recovery!Passed = Checkpoints
        /\ files' = [files EXCEPT !.after = <<target.uid, target.restarts>>]
        /\ UNCHANGED <<clock, target, logged, driverJobs, bound, monitor, seen, due, status>>
    BY <1>3 DEF Recovery!Collect, Recovery!ObserversDone
  <2>2. OnTime'
    BY <1>a, <2>1 DEF OnTime, Measured, SamplesBefore, SamplesTo, Recovery!Passed
  <2>3. Collected'
    <3>1. files'.after = <<0, 0>>
      BY <1>0, <1>a, <2>1 DEF StageInv, Undisturbed
    <3>. QED
      BY <2>1, <3>1 DEF Collected
  <2>. QED
    BY <1>c, <1>d, <2>1, <2>2, <2>3 DEF Clean
<1>e. ASSUME runner \in Measured, runner' \in Measured \cup {"done"},
             UNCHANGED <<clock, bound, monitor, seen>>
      PROVE  OnTime'
  BY <1>a, <1>e DEF OnTime, Measured, SamplesBefore, SamplesTo, Recovery!Passed
<1>4. CASE Recovery!TelemetrySettled
  <2>1. /\ runner = "telemetry" /\ runner' = "counters"
        /\ UNCHANGED <<clock, target, logged, driverJobs, bound, monitor, seen, files, status>>
    BY <1>4 DEF Recovery!TelemetrySettled
  <2>2. Collected'
    BY <1>a, <2>1 DEF Collected, Measured
  <2>. QED
    BY <1>c, <1>d, <1>e, <2>1, <2>2 DEF Clean, Measured
<1>5. CASE Recovery!CountersAgree
  <2>1. /\ runner = "counters" /\ runner' = "events" /\ logged = Expected
        /\ files' = [files EXCEPT !.counter = logged, !.log = target.restarts]
        /\ UNCHANGED <<clock, target, logged, driverJobs, bound, monitor, seen, due, status>>
    BY <1>5 DEF Recovery!CountersAgree, Expected
  <2>2. files'.counter = Expected /\ files'.log = 0 /\ files'.after = files.after
    BY <1>0, <1>a, <2>1 DEF StageInv, Undisturbed
  <2>3. Collected'
    BY <1>a, <1>c, <2>1, <2>2 DEF Collected, Measured
  <2>. QED
    BY <1>c, <1>d, <1>e, <2>1, <2>3 DEF Clean, Measured
<1>6. CASE Recovery!EventsAfter
  <2>1. /\ runner = "events" /\ runner' = "summary"
        /\ files' = [files EXCEPT !.events = target.warnings]
        /\ UNCHANGED <<clock, target, logged, driverJobs, bound, monitor, seen, due, status>>
    BY <1>6 DEF Recovery!EventsAfter
  <2>2. /\ files'.events = 0 /\ files'.counter = files.counter /\ files'.log = files.log
        /\ files'.after = files.after
    BY <1>0, <1>a, <2>1 DEF StageInv, Undisturbed
  <2>3. Collected'
    BY <1>a, <1>c, <2>1, <2>2 DEF Collected, Measured
  <2>. QED
    BY <1>c, <1>d, <1>e, <2>1, <2>3 DEF Clean, Measured
<1>7. CASE Recovery!Summarize
  <2>1. /\ runner = "summary" /\ runner' = "done" /\ status'.status = "completed"
        /\ UNCHANGED <<clock, target, logged, driverJobs, bound, monitor, seen, due, files>>
    BY <1>7 DEF Recovery!Summarize
  <2>2. Collected'
    BY <2>1 DEF Collected, Measured
  <2>. QED
    BY <1>c, <1>d, <1>e, <2>1, <2>2 DEF Clean, Measured
<1>. QED
  BY <1>1, <1>2, <1>3, <1>4, <1>5, <1>6, <1>7, ScriptDoesNotDie DEF Script, Recovery!RunnerNext

\* The observers find what they look for.
LEMMA CleanObservers ==
    ASSUME CycleInv, Clean, Observers, faults = 0, faults' = 0
    PROVE  Clean'
<1>0. StageInv /\ PodInv /\ JobsInv /\ PlanInv
  BY DEF CycleInv
<1>a. Undisturbed /\ OnSchedule /\ OnTime /\ Collected
  BY DEF Clean
<1>b. clock \in Int /\ PostEnd \in Nat /\ Instants \subseteq Int
  BY <1>0, RecoveryConstants DEF RecoveryConstants, PodInv
<1>c. Recovery!Healthy
  BY <1>a DEF Undisturbed, Recovery!Healthy
<1>d. /\ UNCHANGED <<clock, target, hurt, logged, runner, due, files, status>>
      /\ runner \in {"bound", "polling"}
  BY ObserverEffect
<1>e. ASSUME UNCHANGED driverJobs PROVE Undisturbed' /\ OnSchedule' /\ Collected'
  <2>1. Undisturbed'
    BY <1>a, <1>d, <1>e DEF Undisturbed, Expected, Recovery!ExpectedServed, Recovery!Responses
  <2>2. OnSchedule'
    BY <1>a, <1>d, <1>e DEF OnSchedule
  <2>3. Collected'
    BY <1>a, <1>d DEF Collected, Measured
  <2>. QED
    BY <2>1, <2>2, <2>3
<1>f. ~Recovery!Stall
  BY DEF Recovery!Stall, Recovery!Fault
<1>g. ~Recovery!Kill
  BY <1>a DEF OnTime, Recovery!Kill, Recovery!KillDue
<1>1. CASE Recovery!TargetBound
  <2>1. bound = "waiting"
    BY <1>1 DEF Recovery!TargetBound, Recovery!BoundDue
  <2>2. clock <= BoundDeadline
    BY <1>0, <1>a, <1>d, <2>1 DEF OnTime, StageInv
  <2>3. bound' = "gate" /\ UNCHANGED <<driverJobs, monitor, seen>>
    BY <1>1, <1>c, <2>2 DEF Recovery!TargetBound
  <2>4. OnTime'
    BY <1>a, <1>d, <2>3 DEF OnTime, Measured, SamplesBefore, SamplesTo
  <2>. QED
    BY <1>e, <2>3, <2>4 DEF Clean
<1>2. CASE Recovery!Sample
  <2>1. /\ monitor = "running" /\ seen' = seen \cup {<<"sample", clock>>}
        /\ monitor' = IF clock >= PostEnd THEN "done" ELSE "running"
        /\ UNCHANGED <<driverJobs, bound>>
    BY <1>2, <1>c DEF Recovery!Sample, Recovery!SampleDue, Recovery!Seen
  <2>2. SamplesBefore(clock)
    BY <1>a, <2>1 DEF OnTime
  <2>3. SamplesBefore(clock)' /\ (clock >= PostEnd => SamplesTo(PostEnd)')
    BY <1>b, <1>d, <2>1, <2>2 DEF SamplesBefore, SamplesTo
  <2>4. OnTime'
    BY <1>a, <1>b, <1>d, <2>1, <2>3 DEF OnTime, Measured
  <2>. QED
    BY <1>e, <2>1, <2>4 DEF Clean
<1>3. CASE Recovery!Checkpoint
  <2>1. seen' = seen \cup {<<"checkpoint", clock>>} /\ UNCHANGED <<driverJobs, monitor, bound>>
    BY <1>3, <1>c DEF Recovery!Checkpoint, Recovery!Seen
  <2>2. SamplesBefore(clock) => SamplesBefore(clock)'
    BY <1>d, <2>1 DEF SamplesBefore
  <2>3. SamplesTo(PostEnd) => SamplesTo(PostEnd)'
    BY <2>1 DEF SamplesTo
  <2>4. OnTime'
    BY <1>a, <1>d, <2>1, <2>2, <2>3 DEF OnTime, Measured
  <2>. QED
    BY <1>e, <2>1, <2>4 DEF Clean
<1>. QED
  BY <1>f, <1>g, <1>1, <1>2, <1>3 DEF Observers, Recovery!ObserverNext

\* The drivers are ARMED together, before the barrier.
LEMMA CleanArm ==
    ASSUME CycleInv, Clean, Recovery!Arm, faults = 0, faults' = 0
    PROVE  Clean'
<1>0. StageInv /\ PodInv /\ JobsInv /\ PlanInv
  BY DEF CycleInv
<1>a. Undisturbed /\ OnSchedule /\ OnTime /\ Collected
  BY DEF Clean
<1>1. PICK late \in SUBSET Jobs :
          /\ IF late = {} THEN faults' = faults ELSE Recovery!Fault
          /\ driverJobs' = [j \in Jobs |-> IF j \in late \/ driverJobs[j].state # "created"
                                           THEN driverJobs[j]
                                           ELSE [state |-> "armed", armed |-> clock, answers |-> <<>>]]
  BY DEF Recovery!Arm, Jobs
<1>2. late = {}
  BY <1>1 DEF Recovery!Fault
<1>3. /\ runner = "arming" /\ \E j \in Jobs : driverJobs[j].state = "created"
      /\ UNCHANGED <<clock, target, logged, runner, due, files, status, bound, monitor, seen>>
  BY DEF Recovery!Arm, Recovery!ArmDue, Recovery!pod, Recovery!script, Recovery!observers, Jobs
<1>4. \A j \in Jobs : driverJobs[j].state = "created"
  BY <1>a, <1>3 DEF OnSchedule
<1>5. \A j \in Jobs : driverJobs'[j] = [state |-> "armed", armed |-> clock, answers |-> <<>>]
  BY <1>1, <1>2, <1>4
<1>6. clock <= Barrier
  BY <1>a, <1>3 DEF OnTime
<1>7. OnSchedule'
  BY <1>3, <1>5, <1>6 DEF OnSchedule
<1>8. Undisturbed'
  BY <1>a, <1>3, ArmEffect DEF Undisturbed
<1>9. OnTime'
  BY <1>a, <1>3 DEF OnTime, Measured, SamplesBefore, SamplesTo, Recovery!Passed
<1>10. Collected'
  BY <1>a, <1>3 DEF Collected, Measured
<1>. QED
  BY <1>7, <1>8, <1>9, <1>10 DEF Clean

\* A request is answered, and the target counts the answers that are responses.
LEMMA CleanAnswer ==
    ASSUME CycleInv, Clean, faults = 0, faults' = 0,
           NEW j \in Jobs, NEW a \in Recovery!Answers(j), Recovery!Answer(j, a),
           driverJobs[j].state \in {"armed", "running"},
           clock >= 0, clock <= PostEnd + RpcTimeout, clock' = clock
    PROVE  Clean'
<1>0. StageInv /\ PodInv /\ JobsInv /\ PlanInv
  BY DEF CycleInv
<1>a. Undisturbed /\ OnSchedule /\ OnTime /\ Collected
  BY DEF Clean
<1>b. /\ clock \in Int /\ Barrier \in Int /\ Barrier < 0 /\ PostEnd + RpcTimeout <= Quiet
      /\ target.served \in Nat
      /\ target \in [uid : Nat, restarts : Nat, warnings : Nat, served : Nat]
      /\ Quiet \in Int /\ PostEnd + RpcTimeout \in Int
  BY <1>0, LeadTime, QuietTime, RecoveryConstants DEF RecoveryConstants, PodInv
<1>c. a # "lost"
  BY <1>a DEF Recovery!Answer, Recovery!Fault, Undisturbed
<1>d. a \in Recovery!Allowed(j) /\ a \in Kinds
  <2>1. a \in Recovery!Allowed(j)
    BY <1>c DEF Recovery!Answers
  <2>2. Recovery!Allowed(j) \subseteq Kinds
    BY DEF Recovery!Allowed, Kinds, Recovery!Probes, Jobs, Recovery!Jobs, Recovery!Post
  <2>. QED
    BY <2>1, <2>2
<1> DEFINE s == driverJobs[j].answers
           state == IF Len(s) + 1 = Recovery!Slots(j) THEN "complete" ELSE "running"
           more == IF a \in {"good", "slow"} THEN 1 ELSE 0
<1>1. /\ driverJobs' = [driverJobs EXCEPT ![j].answers = Append(@, a), ![j].state = state]
      /\ target' = [target EXCEPT !.served = @ + more]
      /\ UNCHANGED <<logged, runner, due, files, status, bound, monitor, seen>>
  BY DEF Recovery!Answer, Recovery!script, Recovery!observers
<1>2. /\ driverJobs'[j].answers = Append(s, a) /\ driverJobs'[j].state = state
      /\ driverJobs'[j].armed = driverJobs[j].armed
      /\ \A k \in Jobs : k # j => driverJobs'[k] = driverJobs[k]
  BY <1>0, <1>1 DEF JobsInv
<1>3. runner # "arming" /\ ~(runner \in Measured)
  <2>1. runner # "arming"
    BY <1>a, <1>b DEF OnTime
  <2>2. ~AllComplete
    BY DEF AllComplete, Recovery!AllComplete, Jobs
  <2>. QED
    BY <1>0, <2>1, <2>2 DEF StageInv
<1>4. OnSchedule'
  <2>1. s \in Seq(Kinds)
    BY <1>0 DEF JobsInv
  <2>2. Len(Append(s, a)) = Len(s) + 1
        /\ \A i \in DOMAIN Append(s, a) : Append(s, a)[i] \in Recovery!Allowed(j)
    <3>1. \A i \in DOMAIN s : s[i] \in Recovery!Allowed(j)
      BY <1>a DEF OnSchedule
    <3>. QED
      BY <1>d, <2>1, <3>1
  <2>3. driverJobs[j].armed <= Barrier
    BY <1>a DEF OnSchedule
  <2>4. /\ driverJobs'[j].state \notin {"created", "deleted"}
        /\ driverJobs'[j].armed <= Barrier
        /\ \A i \in DOMAIN driverJobs'[j].answers : driverJobs'[j].answers[i] \in Recovery!Allowed(j)
        /\ driverJobs'[j].state = "complete" => Len(driverJobs'[j].answers) = Recovery!Slots(j)
    BY <1>2, <2>2, <2>3
  <2>5. ASSUME NEW k \in Jobs, k # j
        PROVE  /\ driverJobs'[k].state \notin {"created", "deleted"}
               /\ driverJobs'[k].armed <= Barrier
               /\ \A i \in DOMAIN driverJobs'[k].answers : driverJobs'[k].answers[i] \in Recovery!Allowed(k)
               /\ driverJobs'[k].state = "complete" => Len(driverJobs'[k].answers) = Recovery!Slots(k)
    BY <1>2, <1>3, <1>a, <2>5 DEF OnSchedule
  <2>. QED
    BY <1>1, <1>3, <2>4, <2>5 DEF OnSchedule
<1>5. Undisturbed'
  <2> HIDE DEF state
  <2>1. Expected' = Expected + more
    BY <1>0, <1>1, <1>d, OneMoreAnswer
  <2>2. /\ target'.served = target.served + more /\ target'.uid = target.uid
        /\ target'.restarts = target.restarts /\ target'.warnings = target.warnings
    BY <1>1, <1>b
  <2> HIDE DEF more
  <2>3. ~(clock' > Quiet)
    BY <1>b
  <2>. QED
    BY <1>a, <2>1, <2>2, <2>3 DEF Undisturbed
<1>6. OnTime'
  BY <1>a, <1>1 DEF OnTime, Measured, SamplesBefore, SamplesTo, Recovery!Passed
<1>7. Collected'
  BY <1>a, <1>1, <1>3 DEF Collected, Measured
<1>. QED
  BY <1>4, <1>5, <1>6, <1>7 DEF Clean

\* The clock does not pass what is due.
LEMMA CleanTick ==
    ASSUME CycleInv, Clean, Recovery!Tick
    PROVE  Clean'
<1>0. StageInv /\ PodInv /\ JobsInv /\ PlanInv
  BY DEF CycleInv
<1>a. Undisturbed /\ OnSchedule /\ OnTime /\ Collected
  BY DEF Clean
<1>b. /\ clock \in Int /\ Instants \subseteq Int /\ Barrier \in Int /\ Bound \in Int
      /\ BoundDeadline \in Int /\ Barrier < 0 /\ logged \in Nat /\ target.served \in Nat
  BY <1>0, LeadTime, RecoveryConstants DEF RecoveryConstants, PodInv
<1>1. /\ UNCHANGED <<target, hurt, driverJobs, runner, due, files, status, bound, monitor, seen>>
      /\ clock \in Instants /\ clock' \in Instants /\ clock < clock' /\ clock' \in Int
      /\ \A k \in Instants : clock < k => clock' <= k
      /\ ~Recovery!Prompt
      /\ logged' \in {logged, target.served}
      /\ (clock + LogInterval <= clock' => logged' = target.served)
  BY <1>0, <1>b, TickEffect DEF PodInv, Recovery!Tick, Recovery!observers
<1>2. Undisturbed'
  <2>1. clock <= Quiet /\ clock' > Quiet => logged' = target.served
    <3>1. clock < Quiet => clock' <= Quiet
      BY <1>1, QuietTime
    <3>2. clock' > Quiet => Quiet + LogInterval <= clock'
      BY <1>1, QuietTime
    <3>. QED
      BY <1>b, <1>1, <3>1, <3>2, QuietTime
  <2>2. Quiet \in Int
    BY QuietTime
  <2>. QED
    BY <1>a, <1>b, <1>1, <2>1, <2>2
       DEF Undisturbed, Expected, Recovery!ExpectedServed, Recovery!Responses
<1>3. OnSchedule'
  BY <1>a, <1>1 DEF OnSchedule
<1>4. runner # "arming"
  <2>1. SUFFICES ASSUME runner = "arming" PROVE FALSE
    OBVIOUS
  <2>2. ~Recovery!AllArmed /\ ~Recovery!ArmDue
    BY <1>1, <2>1 DEF Recovery!Prompt, Recovery!ScriptDue
  <2>3. \A j \in Jobs : driverJobs[j].state = "created" /\ driverJobs[j].armed = 0
    BY <1>a, <2>1, <2>2 DEF OnSchedule, Recovery!AllArmed, Jobs
  <2>4. clock < 0
    BY <1>a, <1>b, <2>1 DEF OnTime
  <2>5. Post \in Jobs
    BY <1>0, PlanShape
  <2>. QED
    BY <1>b, <2>1, <2>2, <2>3, <2>4, <2>5 DEF Recovery!ArmDue, Jobs
<1>5. runner = "bound" /\ bound = "waiting" => clock' <= BoundDeadline
  <2>1. SUFFICES ASSUME runner = "bound", bound = "waiting" PROVE clock' <= BoundDeadline
    OBVIOUS
  <2>2. clock < Bound
    BY <1>b, <1>1, <2>1 DEF Recovery!Prompt, Recovery!BoundDue, Recovery!Observing
  <2>3. \E i \in Instants : Bound <= i /\ i <= BoundDeadline
    BY RecoveryConstants DEF RecoveryConstants
  <2>. QED
    BY <1>b, <1>1, <2>2, <2>3
<1>6. monitor = "running" => SamplesBefore(clock)'
  <2>1. SUFFICES ASSUME monitor = "running" PROVE SamplesBefore(clock)'
    OBVIOUS
  <2>2. runner \in {"bound", "polling"}
    BY <1>0, <1>a, <1>4, <2>1 DEF OnTime, Collected, StageInv, Measured
  <2>3. <<"sample", clock>> \in seen
    BY <1>1, <2>1, <2>2 DEF Recovery!Prompt, Recovery!SampleDue, Recovery!Observing
  <2>4. SamplesBefore(clock)
    BY <1>a, <2>1 DEF OnTime
  <2>5. ASSUME NEW i \in Instants, i < clock' PROVE i <= clock
    BY <1>b, <1>1, <2>5
  <2>. QED
    BY <1>b, <1>1, <2>3, <2>4, <2>5 DEF SamplesBefore
<1>7. OnTime'
  BY <1>a, <1>1, <1>4, <1>5, <1>6 DEF OnTime, Measured, SamplesTo, Recovery!Passed
<1>8. Collected'
  BY <1>a, <1>1 DEF Collected, Measured, Expected, Recovery!ExpectedServed, Recovery!Responses
<1>. QED
  BY <1>2, <1>3, <1>7, <1>8 DEF Clean

\* Every step without a fault keeps the cycle on time.
LEMMA CleanStep ==
    ASSUME CycleInv, CleanInv, [Recovery!Next]_(Recovery!vars)
    PROVE  CleanInv'
<1>0. faults \in Nat /\ faults' \in {faults, faults + 1}
  BY FaultStep DEF CleanInv
<1>1. SUFFICES ASSUME faults' = 0 PROVE Clean'
  BY <1>0 DEF CleanInv
<1>2. faults = 0 /\ Clean
  BY <1>0, <1>1 DEF CleanInv
<1>3. CASE Script
  BY <1>2, <1>3, CleanScript
<1>4. CASE Observers
  BY <1>1, <1>2, <1>4, CleanObservers
<1>5. CASE Cluster
  BY <1>1, <1>2, <1>5 DEF Cluster, Recovery!Restart, Recovery!Replace, Recovery!Flap,
     Recovery!Stray, Recovery!Disturb, Recovery!Fault
<1>6. CASE Recovery!Arm
  BY <1>1, <1>2, <1>6, CleanArm
<1>7. ASSUME NEW j \in Jobs, Recovery!Send(j) PROVE Clean'
  <2>0. clock' = clock /\ clock <= PostEnd + RpcTimeout /\ clock >= 0
    <3>1. Drivers
      BY <1>7 DEF Drivers, Jobs
    <3>2. ~Recovery!Arm \/ clock' = clock
      BY DEF Recovery!Arm
    <3>3. Recovery!Start(j) \in Nat /\ Recovery!Start(j) <= PostEnd /\ clock = Recovery!Start(j)
      BY <1>7, PlanShape DEF CycleInv, Recovery!Send, Recovery!SendDue
    <3>4. RpcTimeout \in Nat /\ PostEnd \in Nat
      BY RecoveryConstants DEF RecoveryConstants
    <3>. QED
      BY <3>1, <3>3, <3>4, DriverEffect
  <2>1. PICK a \in Recovery!Answers(j) : Recovery!Answer(j, a)
    BY <1>7 DEF Recovery!Send
  <2>2. driverJobs[j].state \in {"armed", "running"}
    BY <1>7 DEF Recovery!Send, Recovery!SendDue
  <2>. QED
    BY <1>1, <1>2, <2>0, <2>1, <2>2, CleanAnswer
<1>8. CASE Recovery!Drain
  <2>0. Post \in Jobs
    BY PlanShape DEF CycleInv
  <2>1. PICK a \in Recovery!Answers(Post) : Recovery!Answer(Post, a)
    BY <1>8 DEF Recovery!Drain, Post
  <2>2. driverJobs[Post].state = "running" /\ Recovery!LastAnswer(Post) /\ clock >= PostEnd
    BY <1>8 DEF Recovery!Drain, Post
  <2>3. clock \in Int /\ PostEnd \in Nat
    BY RecoveryConstants DEF RecoveryConstants, CycleInv, PodInv
  <2>4. clock >= 0 /\ clock <= PostEnd + RpcTimeout /\ clock' = clock
    BY <1>8, <2>2, <2>3, DriverEffect DEF Drivers, CycleInv, JobsInv
  <2>. QED
    BY <1>1, <1>2, <2>0, <2>1, <2>2, <2>4, CleanAnswer
<1>9. CASE Recovery!Tick
  BY <1>2, <1>9, CleanTick
<1>10. CASE UNCHANGED Recovery!vars
  <2>1. Undisturbed' /\ OnSchedule'
    BY <1>2, <1>10 DEF Recovery!vars, Clean, Undisturbed, OnSchedule, Expected,
       Recovery!ExpectedServed, Recovery!Responses
  <2>2. OnTime' /\ Collected'
    BY <1>2, <1>10 DEF Recovery!vars, Clean, OnTime, Collected, Measured, Expected, SamplesBefore,
       SamplesTo, Recovery!Passed, Recovery!ExpectedServed, Recovery!Responses
  <2>. QED
    BY <2>1, <2>2 DEF Clean
<1>. QED
  BY <1>3, <1>4, <1>5, <1>6, <1>7, <1>8, <1>9, <1>10
     DEF Recovery!Next, Script, Observers, Cluster, Drivers, Jobs

----------------------------------------------------------------------------
(* The recovery time follows the order of the requests.                    *)

Probes == Recovery!Probes
RecoveredProbes == {p \in Probes : Recovery!Recovered(p)}
StableProbes == {p \in Probes : Recovery!Stable(p)}

\* A set of numbers has a least one.
LEMMA LeastNumber ==
    ASSUME NEW S \in SUBSET Nat, S # {}
    PROVE  \E n \in S : \A k \in S : n <= k
<1>1. \E n \in S : \A m \in S : ~(<<m, n>> \in OpToRel(<, Nat))
  BY NatLessThanWellFounded, WFMin, ZenonT(30)
<1>2. PICK n \in S : \A m \in S : ~(m < n)
  BY <1>1 DEF OpToRel
<1>. QED
  BY <1>2

\* The operator of the summarizer finds it.
LEMMA FirstProbe ==
    ASSUME NEW S \in SUBSET Nat, S # {}
    PROVE  Recovery!Min(S) \in S /\ \A k \in S : Recovery!Min(S) <= k
BY LeastNumber DEF Recovery!Min

\* The probes are numbered from 3.
LEMMA ProbeNumbers ==
    /\ Len(Offsets) \in Nat \ {0} /\ PostSlots \in Nat /\ PostSlots >= 2
    /\ \A i \in 1 .. Len(Offsets) : Offsets[i] \in Nat
    /\ Probes = 3 .. Len(Offsets) + 2 /\ Probes \in SUBSET Nat
    /\ Recovery!Max(Probes) = Len(Offsets) + 2
    /\ Post = Len(Offsets) + 3 /\ Post \in Jobs
<1>0. Offsets \in Seq(Nat) /\ Offsets # <<>> /\ PostSlots \in Nat /\ PostSlots >= 2
  BY RecoveryConstants DEF RecoveryConstants
<1>1. Len(Offsets) \in Nat \ {0} /\ \A i \in 1 .. Len(Offsets) : Offsets[i] \in Nat
  BY <1>0
<1>2. Probes = 3 .. Len(Offsets) + 2
  BY DEF Probes, Recovery!Probes
<1>3. Len(Offsets) + 2 \in Probes /\ \A p \in Probes : Len(Offsets) + 2 >= p /\ p \in Nat
  BY <1>1, <1>2
<1>4. Recovery!Max(Probes) \in Probes /\ \A p \in Probes : Recovery!Max(Probes) >= p
  BY <1>3 DEF Recovery!Max
<1>5. Recovery!Max(Probes) = Len(Offsets) + 2
  BY <1>3, <1>4
<1>. QED
  BY <1>0, <1>1, <1>2, <1>3, <1>5 DEF Post, Jobs, Recovery!Post, Recovery!Jobs

\* What was observed at each request, the probes first.
LEMMA ObservedAt ==
    \A i \in 1 .. Len(Offsets) + PostSlots :
       Recovery!Observed[i] <=> IF i <= Len(Offsets) THEN Recovery!Good(i + 2)
                                ELSE driverJobs[Post].answers[i - Len(Offsets)] = "good"
<1> DEFINE n == Len(Offsets)
           s == [i \in 1 .. n |-> Recovery!Good(i + 2)]
           t == [i \in 1 .. PostSlots |-> driverJobs[Post].answers[i] = "good"]
<1>0. n \in Nat /\ PostSlots \in Nat
  BY ProbeNumbers
<1>1. Recovery!Observed = s \o t
  BY DEF Recovery!Observed, Post
<1>2. s \in Seq(BOOLEAN) /\ Len(s) = n
  <2>1. s \in [1 .. n -> BOOLEAN]
    BY DEF Recovery!Good
  <2> HIDE DEF s
  <2>2. s \in Seq(BOOLEAN)
    BY <1>0, <2>1
  <2>3. DOMAIN s = 1 .. n
    BY <2>1
  <2> HIDE DEF n
  <2>. QED
    BY <1>0, <2>2, <2>3
<1>3. t \in Seq(BOOLEAN) /\ Len(t) = PostSlots
  <2>1. t \in [1 .. PostSlots -> BOOLEAN]
    OBVIOUS
  <2> HIDE DEF t
  <2>2. t \in Seq(BOOLEAN)
    BY <1>0, <2>1
  <2>3. DOMAIN t = 1 .. PostSlots
    BY <2>1
  <2>. QED
    BY <1>0, <2>2, <2>3
<1>4. ASSUME NEW i \in 1 .. n + PostSlots
      PROVE  Recovery!Observed[i] = IF i <= n THEN s[i] ELSE t[i - n]
  <2> HIDE DEF s, t, n
  <2>. QED
    BY <1>1, <1>2, <1>3, ConcatProperties
<1>5. ASSUME NEW i \in 1 .. n + PostSlots
      PROVE  Recovery!Observed[i] <=> IF i <= n THEN Recovery!Good(i + 2)
                                      ELSE driverJobs[Post].answers[i - n] = "good"
  <2>1. CASE i <= n
    <3>1. i \in 1 .. n
      BY <1>0, <2>1
    <3>2. Recovery!Observed[i] = s[i]
      BY <1>4, <2>1
    <3>. QED
      BY <2>1, <3>1, <3>2
  <2>2. CASE ~(i <= n)
    <3>1. i - n \in 1 .. PostSlots
      BY <1>0, <2>2
    <3>2. Recovery!Observed[i] = t[i - n]
      BY <1>4, <2>2
    <3>. QED
      BY <2>2, <3>1, <3>2
  <2>. QED
    BY <2>1, <2>2
<1>. QED
  BY <1>5

\* A stable probe is followed by two more good observations in the order of the
\* requests: the post phase has only good answers when it is asked to confirm.
LEMMA StableIsRecovered ==
    ASSUME JobsInv, Recovery!Valid, NEW p \in StableProbes
    PROVE  p \in RecoveredProbes
<1>0. /\ p \in Probes /\ \A q \in Probes : q >= p => Recovery!Good(q)
      /\ (Recovery!Max(Probes) - p < 2 => Recovery!PostConfirms)
  BY DEF StableProbes, Recovery!Stable, Probes
<1>1. p \in 3 .. Len(Offsets) + 2 /\ Len(Offsets) \in Nat /\ PostSlots \in Nat /\ PostSlots >= 2
  BY <1>0, ProbeNumbers
<1>2. \A i \in 1 .. PostSlots : driverJobs[Post].answers[i] \in {"good", "slow"}
  <2>1. Recovery!DriverSound(Post)
    BY ProbeNumbers DEF Recovery!Valid, Jobs
  <2>2. Recovery!Slots(Post) = PostSlots
    BY DEF Recovery!Slots, Post
  <2>3. Recovery!Allowed(Post) = {"good", "slow"}
    BY ProbeNumbers DEF Recovery!Allowed, Post, Probes, Recovery!Post
  <2>. QED
    BY <2>1, <2>2, <2>3 DEF Recovery!DriverSound
<1>3. ASSUME Recovery!PostConfirms
      PROVE  \A i \in 1 .. PostSlots : driverJobs[Post].answers[i] = "good"
  <2>1. Recovery!PostSlow = {}
    BY <1>3 DEF Recovery!PostConfirms
  <2>2. DOMAIN driverJobs[Post].answers = 1 .. PostSlots
    <3>1. driverJobs[Post].answers \in Seq(Kinds)
      BY ProbeNumbers DEF JobsInv
    <3>2. Len(driverJobs[Post].answers) = Recovery!Slots(Post)
      BY ProbeNumbers DEF Recovery!Valid, Recovery!DriverSound, Jobs
    <3>. QED
      BY <3>1, <3>2 DEF Recovery!Slots, Post
  <2>. QED
    BY <1>2, <2>1, <2>2 DEF Recovery!PostSlow, Post
<1>4. ASSUME NEW i \in p - 2 .. p PROVE Recovery!Observed[i]
  <2>1. i \in 1 .. Len(Offsets) + PostSlots
    BY <1>1
  <2>2. CASE i <= Len(Offsets)
    <3>1. i + 2 \in Probes /\ i + 2 >= p
      BY <1>1, <2>1, <2>2, ProbeNumbers
    <3>. QED
      BY <1>0, <2>1, <2>2, <3>1, ObservedAt
  <2>3. CASE ~(i <= Len(Offsets))
    <3>1. i - Len(Offsets) \in 1 .. PostSlots /\ Recovery!Max(Probes) - p < 2
      BY <1>1, <2>1, <2>3, ProbeNumbers
    <3>. QED
      BY <1>0, <1>3, <2>1, <2>3, <3>1, ObservedAt
  <2>. QED
    BY <2>2, <2>3
<1>. QED
  BY <1>0, <1>4 DEF RecoveredProbes, Recovery!Recovered, Probes

\* What the summarizer takes for the recovery is the first probe that recovered.
LEMMA TimeOfTheFirst ==
    ASSUME JobsInv, Recovery!Valid
    PROVE  IF Recovery!RecoveryTime = -1
           THEN \A p \in RecoveredProbes : Recovery!Max(Probes) - p < 2
           ELSE /\ RecoveredProbes # {}
                /\ Recovery!RecoveryTime = Offsets[Recovery!Min(RecoveredProbes) - 2]
<1>1. ASSUME NEW p \in RecoveredProbes, ~(Recovery!Max(Probes) - p < 2)
      PROVE  p \in StableProbes
  BY <1>1 DEF RecoveredProbes, StableProbes, Recovery!Recovered, Recovery!Stable, Probes
<1>2. Recovery!RecoveryTime = IF StableProbes = {} THEN -1
                              ELSE Offsets[Recovery!Min(StableProbes) - 2]
  BY DEF Recovery!RecoveryTime, StableProbes, Probes
<1>3. CASE StableProbes = {}
  BY <1>1, <1>2, <1>3
<1>4. CASE StableProbes # {}
  <2> DEFINE first == Recovery!Min(StableProbes)
             least == Recovery!Min(RecoveredProbes)
  <2>1. StableProbes \in SUBSET Nat /\ RecoveredProbes \in SUBSET Nat
    BY ProbeNumbers DEF StableProbes, RecoveredProbes
  <2>2. first \in StableProbes /\ \A p \in StableProbes : first <= p
    BY <1>4, <2>1, FirstProbe
  <2>3. first \in RecoveredProbes
    BY <2>2, StableIsRecovered
  <2>4. least \in RecoveredProbes /\ \A p \in RecoveredProbes : least <= p
    BY <2>1, <2>3, FirstProbe
  <2>5. first \in Probes /\ least \in Probes /\ first \in Nat /\ least \in Nat
    BY <2>1, <2>2, <2>4 DEF StableProbes, RecoveredProbes
  <2> HIDE DEF first, least
  <2>6. least <= first
    BY <2>3, <2>4
  <2>7. least \in StableProbes
    <3>1. CASE ~(Recovery!Max(Probes) - least < 2)
      BY <1>1, <2>4, <3>1
    <3>2. CASE Recovery!Max(Probes) - least < 2
      <4>1. Recovery!Max(Probes) - first < 2
        BY <2>5, <2>6, <3>2, ProbeNumbers
      <4>2. Recovery!PostConfirms
        BY <2>2, <4>1 DEF StableProbes, Recovery!Stable, Probes
      <4>. QED
        BY <2>4, <4>2 DEF RecoveredProbes, StableProbes, Recovery!Recovered, Recovery!Stable, Probes
    <3>. QED
      BY <3>1, <3>2
  <2>8. least = first
    BY <2>2, <2>5, <2>6, <2>7
  <2>9. Recovery!RecoveryTime = Offsets[least - 2]
    BY <1>2, <1>4, <2>8 DEF first
  <2>10. Offsets[least - 2] # -1
    <3>1. least - 2 \in 1 .. Len(Offsets)
      BY <2>5, ProbeNumbers
    <3>. QED
      BY <3>1, ProbeNumbers
  <2>. QED
    BY <2>3, <2>9, <2>10 DEF least
<1>. QED
  BY <1>3, <1>4

\* When the decision is made the Jobs are over.
LEMMA ChronologyStep ==
    ASSUME CycleInv, Recovery!RecoveryIsChronological, [Recovery!Next]_(Recovery!vars)
    PROVE  Recovery!RecoveryIsChronological'
<1>0. JobsInv /\ StageInv /\ StageInv'
  BY CycleStep DEF CycleInv
<1>a. Recovery!RecoveryIsChronological <=>
        (status.decision.valid =>
            IF status.decision.time = -1
            THEN \A p \in RecoveredProbes : Recovery!Max(Probes) - p < 2
            ELSE /\ RecoveredProbes # {}
                 /\ status.decision.time = Offsets[Recovery!Min(RecoveredProbes) - 2])
  BY DEF Recovery!RecoveryIsChronological, RecoveredProbes, Probes
<1>b. Recovery!RecoveryIsChronological' <=>
        (status'.decision.valid =>
            IF status'.decision.time = -1
            THEN \A p \in RecoveredProbes' : Recovery!Max(Probes) - p < 2
            ELSE /\ RecoveredProbes' # {}
                 /\ status'.decision.time = Offsets[Recovery!Min(RecoveredProbes') - 2])
  BY DEF Recovery!RecoveryIsChronological, RecoveredProbes, Probes
<1>c. driverJobs' = driverJobs => RecoveredProbes' = RecoveredProbes
  BY DEF RecoveredProbes, Recovery!Recovered, Recovery!Observed, Recovery!Good
<1>1. CASE Recovery!Summarize
  <2>1. /\ Recovery!Valid /\ driverJobs' = driverJobs
        /\ status'.decision.time = Recovery!RecoveryTime
    BY <1>1 DEF Recovery!Summarize
  <2>. QED
    BY <1>0, <1>b, <1>c, <2>1, TimeOfTheFirst
<1>2. ASSUME UNCHANGED <<driverJobs, status>> PROVE Recovery!RecoveryIsChronological'
  BY <1>2, <1>a, <1>b, <1>c
<1>3. ASSUME ~status'.decision.valid PROVE Recovery!RecoveryIsChronological'
  BY <1>3, <1>b
<1>4. CASE Script /\ ~Recovery!Summarize
  <2>1. status' = status \/ \E s : status' = [status EXCEPT !.status = s]
    BY <1>4 DEF Script, Recovery!RunnerNext,
       Recovery!CloseBarrier, Recovery!BarrierLate, Recovery!Authorize, Recovery!NotAuthorized,
       Recovery!Abort, Recovery!Collect, Recovery!TelemetrySettled, Recovery!CountersAgree,
       Recovery!CountersDiffer, Recovery!EventsAfter, Recovery!Reject, Recovery!Die,
       Recovery!Cancel, Recovery!ForegroundDelete, Recovery!Ends
  <2>2. runner # "done"
    BY <1>4 DEF Script, Recovery!RunnerNext, Recovery!Runs,
       Recovery!CloseBarrier, Recovery!BarrierLate, Recovery!Authorize, Recovery!NotAuthorized,
       Recovery!Abort, Recovery!Collect, Recovery!TelemetrySettled, Recovery!CountersAgree,
       Recovery!CountersDiffer, Recovery!EventsAfter, Recovery!Reject, Recovery!Die,
       Recovery!Cancel, Recovery!ForegroundDelete
  <2>3. ~status.decision.valid /\ DOMAIN status = {"status", "decision"}
    BY <1>0, <2>2 DEF StageInv
  <2>4. ~status'.decision.valid
    BY <2>1, <2>3
  <2>. QED
    BY <1>3, <2>4
<1>5. CASE Observers
  <2>1. runner \in {"bound", "polling"} /\ status' = status
    BY <1>5, ObserverEffect
  <2>2. ~status'.decision.valid
    BY <1>0, <2>1 DEF StageInv
  <2>. QED
    BY <1>3, <2>2
<1>6. CASE Cluster
  BY <1>2, <1>6, ClusterEffect
<1>7. CASE Drivers
  <2>1. ~AllComplete /\ status' = status
    BY <1>7, DriverEffect
  <2>2. ~status'.decision.valid
    BY <1>0, <2>1 DEF StageInv
  <2>. QED
    BY <1>3, <2>2
<1>8. CASE Recovery!Tick
  BY <1>2, <1>8, TickEffect
<1>9. CASE UNCHANGED Recovery!vars
  BY <1>2, <1>9 DEF Recovery!vars
<1>. QED
  BY <1>1, <1>4, <1>5, <1>6, <1>7, <1>8, <1>9
     DEF Recovery!Next, Script, Observers, Cluster, Drivers

----------------------------------------------------------------------------
(* The behaviours of the cycle.                                            *)

\* A step of the planners leaves the cycle alone.
LEMMA StepOfTheCycle ==
    ASSUME [MCNext]_allVars
    PROVE  [Recovery!Next]_(Recovery!vars)
BY DEF MCNext, allVars, cycleVars, Recovery!vars

\* The invariant of the cycle: where the script is and what its files hold by then,
\* the answers of the drivers and when they can arrive, for every plan and any
\* number of faults.
THEOREM CycleInvariant == MCSpec => []CycleInv
<1>1. MCInit => CycleInv
  BY CycleStart DEF MCInit
<1>2. CycleInv /\ [MCNext]_allVars => CycleInv'
  BY StepOfTheCycle, CycleStep
<1>. QED
  BY <1>1, <1>2, PTL DEF MCSpec

\* A valid summary measured one undisturbed Pod and the drivers alone: whatever
\* restarts, replacements, events and requests of others there are, and whenever
\* they come, one of the files shows it.
THEOREM ValidSummaryExclusive == MCSpec => []ValidIsExclusive
<1>1. MCInit => HurtInv
  BY HurtStart DEF MCInit
<1>2. CycleInv /\ HurtInv /\ [MCNext]_allVars => HurtInv'
  BY StepOfTheCycle, HurtStep
<1>3. HurtInv => ValidIsExclusive
  BY DEF HurtInv, ValidIsExclusive, Recovery!ValidIsExclusive
<1>. QED
  BY <1>1, <1>2, <1>3, CycleInvariant, PTL DEF MCSpec

\* The recovery time of a valid summary is that of the first probe that two good
\* observations follow, in the order of the requests, and no bad probe.
THEOREM RecoveryInOrder == MCSpec => []RecoveryIsChronological
<1>1. MCInit => RecoveryIsChronological
  BY DEF MCInit, Recovery!Init, Recovery!NoDecision, RecoveryIsChronological,
         Recovery!RecoveryIsChronological
<1>2. CycleInv /\ RecoveryIsChronological /\ [MCNext]_allVars => RecoveryIsChronological'
  BY StepOfTheCycle, ChronologyStep DEF RecoveryIsChronological
<1>. QED
  BY <1>1, <1>2, CycleInvariant, PTL DEF MCSpec

\* A run that was never authorized and says that it was aborted has sent nothing,
\* whichever requests failed and however late the script saw its deadlines.
THEOREM UnauthorizedSendsNothing == MCSpec => []UnauthorizedLoadIsReported
<1>1. MCInit => TimeInv
  BY TimeStart DEF MCInit
<1>2. CycleInv /\ TimeInv /\ [MCNext]_allVars => TimeInv'
  BY StepOfTheCycle, TimeStep
<1>3. TimeInv => UnauthorizedLoadIsReported
  BY DEF TimeInv, UnauthorizedLoadIsReported, Recovery!UnauthorizedLoadIsReported, Jobs
<1>. QED
  BY <1>1, <1>2, <1>3, CycleInvariant, PTL DEF MCSpec

\* A cycle that ends without a fault is measured: no deadline of the script, no order
\* of its observers and drivers and no delay of the target's log rejects it, for every
\* schedule that leaves the margins RecoveryConstants names.
THEOREM CleanCycleMeasured == MCSpec => []CleanCycleIsMeasured
<1>1. MCInit => CleanInv
  BY CleanStart DEF MCInit
<1>2. CycleInv /\ CleanInv /\ [MCNext]_allVars => CleanInv'
  BY StepOfTheCycle, CleanStep
<1>3. CleanInv => CleanCycleIsMeasured
  BY DEF CleanInv, Clean, Collected, CleanCycleIsMeasured, Recovery!CleanCycleIsMeasured
<1>. QED
  BY <1>1, <1>2, <1>3, CycleInvariant, PTL DEF MCSpec
=============================================================================
