--------------------------- MODULE EvidenceProofs ---------------------------
(***************************************************************************)
(* Proofs about the evidence of a cell (CellEvidence, as MCEvidence runs   *)
(* it).                                                                    *)
(***************************************************************************)
EXTENDS MCEvidence, FiniteSetTheorems, WellFoundedInduction, TLAPS

K == Len(Checkpoints)
Targets == 1 .. Replicas

LEMMA ConstantFacts ==
    /\ Replicas \in Nat \ {0} /\ Targets = 1 .. Replicas /\ MatrixCell!Targets = Targets
    /\ 1 \in Targets
    /\ K \in Nat \ {0} /\ K = Len(Checkpoints)
BY CellConstants DEF K, Targets, MatrixCell!Targets



Pods ==
    {p \in [uid : Nat \ {0}, restarts : Nat, ready : BOOLEAN, warnings : Seq(Nat)] :
        Len(p.warnings) = p.uid}
Snapshots == [Targets -> Pods]
Lines == [started : Nat, pods : Snapshots, available : BOOLEAN, nodes : BOOLEAN,
          events : {<<>>} \cup Snapshots, observed : Nat]

RunnerSteps ==
    {"targets", "baseline", "publish", "load", "after", "events", "summarize", "summarized",
     "captured", "attested", "exited", "failed"}
ObserverSteps ==
    {"anchor", "wait", "pods", "deployment", "node", "nodes", "events", "gone", "failed"}

Fields == {"before", "baseline", "drivers", "after", "events", "summary", "telemetry", "timeline"}
CellTypeOK ==
    /\ now \in Nat /\ start \in Nat /\ nodeReady \in BOOLEAN
    /\ pods \in Snapshots
    /\ hurt \subseteq {"restart", "replace", "warning"}
    /\ runner \in RunnerSteps
    /\ observer \in ObserverSteps \X (0 .. K)
    /\ DOMAIN files = Fields
    /\ files.before \in {<<>>} \cup Snapshots
    /\ files.baseline \in {<<>>} \cup Snapshots
    /\ files.timeline \in Seq(Lines)

Position ==
    /\ runner = "targets" => files.before = <<>>
    /\ runner \notin {"targets", "exited", "failed"} => files.before # <<>>
    /\ runner \in {"targets", "baseline"} => files.baseline = <<>>
    /\ runner \notin {"targets", "baseline", "exited", "failed"} => files.baseline # <<>>
    /\ files.baseline # <<>> => files.before # <<>>
    /\ runner \in {"targets", "baseline", "publish"} => start = 0
    /\ start # 0 => files.baseline # <<>>
    /\ observer[1] \notin {"anchor", "failed"} => start # 0
    /\ observer[1] = "anchor" => observer[2] = 0 /\ files.timeline = <<>>
    /\ observer[1] \in {"wait", "pods"} =>
          observer[2] > 0 /\ Len(files.timeline) = observer[2] - 1
    /\ observer[1] \in {"deployment", "node", "nodes", "events", "gone"} =>
          observer[2] > 0 /\ Len(files.timeline) = observer[2]
    /\ observer[1] = "gone" => observer[2] = K
    /\ runner \in {"captured", "attested"} => observer[1] = "gone"

Later(p, q) ==
    /\ p.uid <= q.uid
    /\ p.uid = q.uid => p.restarts <= q.restarts
    /\ \A u \in 1 .. p.uid : p.warnings[u] <= q.warnings[u]

Monotone ==
    /\ files.before # <<>> =>
          /\ MatrixCell!Healthy(files.before)
          /\ \A t \in Targets : Later(files.before[t], pods[t])
    /\ files.baseline # <<>> =>
          \A t \in Targets : Later(files.before[t], files.baseline[t])
                             /\ Later(files.baseline[t], pods[t])

Uids == MatrixCell!Uids(files.before)
Disturbed(snapshot) ==
    \E t \in Targets : snapshot[t].uid # files.before[t].uid \/ snapshot[t].restarts > 0
HurtIsSeen ==
    /\ "restart" \in hurt \/ "replace" \in hurt =>
          /\ files.before # <<>> /\ Disturbed(pods)
          /\ observer[1] # "failed" /\ Len(files.timeline) = K =>
                Disturbed(files.timeline[K].pods)
    /\ "warning" \in hurt =>
          /\ files.baseline # <<>> /\ MatrixCell!Warned(files.baseline, pods, Uids)
          /\ observer[1] = "gone" =>
                MatrixCell!Warned(files.baseline, files.timeline[K].events, Uids)

Past(i, steps) == i < Len(files.timeline) \/ observer[1] \in steps
SamplesChecked ==
    observer[1] # "failed" => \A i \in 1 .. Len(files.timeline) :
        /\ Past(i, {"wait", "pods", "node", "nodes", "events", "gone"}) =>
              MatrixCell!SnapshotValid(files.timeline[i].pods, Uids)
        /\ Past(i, {"wait", "pods", "gone"}) =>
              ~MatrixCell!Warned(files.baseline, files.timeline[i].events, Uids)

GatesPassed ==
    /\ runner \in {"summarized", "captured", "attested"} =>
          /\ files.summary = MatrixCell!Summary(files.drivers)
          /\ ~MatrixCell!Warned(files.baseline, files.events, Uids)
    /\ runner = "attested" => MatrixCell!HarnessAccepts

CellInv == CellTypeOK /\ Position /\ Monotone /\ HurtIsSeen /\ SamplesChecked /\ GatesPassed

LEMMA SnapshotFacts ==
    ASSUME NEW b \in Snapshots, NEW s \in Snapshots
    PROVE  /\ DOMAIN MatrixCell!Uids(b) = Targets
           /\ MatrixCell!Uids(s) = MatrixCell!Uids(b) <=> \A t \in Targets : s[t].uid = b[t].uid
           /\ MatrixCell!Healthy(s) <=> \A t \in Targets : s[t].ready /\ s[t].restarts = 0
           /\ s # <<>>
<1>1. DOMAIN s = Targets /\ DOMAIN b = Targets
  BY DEF Snapshots
<1>2. s # <<>>
  BY <1>1, ConstantFacts
<1>3. MatrixCell!Uids(s) = [t \in Targets |-> s[t].uid] /\ MatrixCell!Uids(b) = [t \in Targets |-> b[t].uid]
  BY <1>1 DEF MatrixCell!Uids
<1>. QED
  BY <1>1, <1>2, <1>3 DEF MatrixCell!Healthy

LEMMA WarnedFacts ==
    ASSUME NEW b \in Snapshots, NEW x, NEW s
    PROVE  MatrixCell!Warned(x, s, MatrixCell!Uids(b)) <=>
               \E t \in Targets : s[t].warnings[b[t].uid] > x[t].warnings[b[t].uid]
<1>1. DOMAIN b = Targets
  BY DEF Snapshots
<1>2. DOMAIN MatrixCell!Uids(b) = Targets
  BY <1>1 DEF MatrixCell!Uids
<1>3. \A t \in Targets : MatrixCell!Uids(b)[t] = b[t].uid
  BY <1>1 DEF MatrixCell!Uids
<1>. QED
  BY <1>2, <1>3 DEF MatrixCell!Warned

LEMMA PodFacts ==
    ASSUME NEW p \in Pods
    PROVE  /\ p.uid \in Nat \ {0} /\ p.restarts \in Nat /\ p.ready \in BOOLEAN
           /\ p.warnings \in Seq(Nat) /\ Len(p.warnings) = p.uid
           /\ DOMAIN p = {"uid", "restarts", "ready", "warnings"}
           /\ p = [uid |-> p.uid, restarts |-> p.restarts, ready |-> p.ready,
                   warnings |-> p.warnings]
           /\ \A u \in 1 .. p.uid : p.warnings[u] \in Nat
<1>1. /\ p.uid \in Nat \ {0} /\ p.restarts \in Nat /\ p.ready \in BOOLEAN
      /\ p.warnings \in Seq(Nat) /\ Len(p.warnings) = p.uid
      /\ DOMAIN p = {"uid", "restarts", "ready", "warnings"}
      /\ p = [uid |-> p.uid, restarts |-> p.restarts, ready |-> p.ready, warnings |-> p.warnings]
  BY DEF Pods
<1>2. \A u \in 1 .. p.uid : p.warnings[u] \in Nat
  BY <1>1
<1>. QED
  BY <1>1, <1>2

\* Later is what a Pod may become.
LEMMA LaterFacts ==
    /\ \A p \in Pods : Later(p, p)
    /\ \A p, q, r \in Pods : Later(p, q) /\ Later(q, r) => Later(p, r)
<1>1. ASSUME NEW p \in Pods PROVE Later(p, p)
  BY PodFacts DEF Later
<1>2. ASSUME NEW p \in Pods, NEW q \in Pods, NEW r \in Pods, Later(p, q), Later(q, r)
      PROVE  Later(p, r)
  <2>1. p.uid \in Nat /\ q.uid \in Nat /\ r.uid \in Nat /\ p.restarts \in Nat
        /\ q.restarts \in Nat /\ r.restarts \in Nat
    BY PodFacts
  <2>2. p.uid <= r.uid /\ (p.uid = r.uid => p.restarts <= r.restarts)
    BY <1>2, <2>1 DEF Later
  <2>3. ASSUME NEW u \in 1 .. p.uid PROVE p.warnings[u] <= r.warnings[u]
    <3>1. u \in 1 .. q.uid /\ u \in 1 .. r.uid
      BY <1>2, <2>1 DEF Later
    <3>2. p.warnings[u] \in Nat /\ q.warnings[u] \in Nat /\ r.warnings[u] \in Nat
      BY <3>1, PodFacts
    <3>. QED
      BY <1>2, <3>1, <3>2 DEF Later
  <2>. QED
    BY <2>2, <2>3 DEF Later
<1>. QED
  BY <1>1, <1>2

\* A Warning on record stays on record.
LEMMA WarnedStays ==
    ASSUME NEW b \in Snapshots, NEW x \in Snapshots, NEW s \in Snapshots, NEW r \in Snapshots,
           \A t \in Targets : Later(b[t], x[t]) /\ Later(x[t], s[t]) /\ Later(s[t], r[t]),
           MatrixCell!Warned(x, s, MatrixCell!Uids(b))
    PROVE  MatrixCell!Warned(x, r, MatrixCell!Uids(b))
<1>1. PICK t \in Targets : s[t].warnings[b[t].uid] > x[t].warnings[b[t].uid]
  BY WarnedFacts
<1>2. b[t] \in Pods /\ x[t] \in Pods /\ s[t] \in Pods /\ r[t] \in Pods
  BY DEF Snapshots
<1> DEFINE u == b[t].uid
<1>3. u \in 1 .. x[t].uid /\ u \in 1 .. s[t].uid /\ u \in 1 .. r[t].uid
  <2>1. u \in Nat \ {0} /\ x[t].uid \in Nat /\ s[t].uid \in Nat /\ r[t].uid \in Nat
    BY <1>2, PodFacts
  <2>2. u <= x[t].uid /\ x[t].uid <= s[t].uid /\ s[t].uid <= r[t].uid
    BY DEF Later
  <2>. QED
    BY <2>1, <2>2
<1>4. x[t].warnings[u] \in Nat /\ s[t].warnings[u] \in Nat /\ r[t].warnings[u] \in Nat
  BY <1>2, <1>3, PodFacts
<1>5. s[t].warnings[u] <= r[t].warnings[u]
  BY <1>3 DEF Later
<1>6. r[t].warnings[u] > x[t].warnings[u]
  BY <1>1, <1>4, <1>5
<1>. QED
  BY <1>6, WarnedFacts

LEMMA RestartedPod ==
    ASSUME NEW p \in Pods, NEW q, q = [p EXCEPT !.restarts = @ + 1]
    PROVE  q \in Pods /\ Later(p, q) /\ q.restarts > 0
<1>1. q = [uid |-> p.uid, restarts |-> p.restarts + 1, ready |-> p.ready, warnings |-> p.warnings]
  BY PodFacts
<1>2. q \in Pods
  BY <1>1, PodFacts DEF Pods
<1>. QED
  BY <1>1, <1>2, PodFacts DEF Later

LEMMA ReplacedPod ==
    ASSUME NEW p \in Pods, NEW q,
           q = [uid |-> p.uid + 1, restarts |-> 0, ready |-> FALSE,
                warnings |-> Append(p.warnings, 0)]
    PROVE  q \in Pods /\ Later(p, q) /\ q.uid > p.uid
<1>1. /\ Append(p.warnings, 0) \in Seq(Nat) /\ Len(Append(p.warnings, 0)) = p.uid + 1
      /\ \A u \in 1 .. p.uid : Append(p.warnings, 0)[u] = p.warnings[u]
  BY PodFacts
<1>2. q \in Pods
  BY <1>1, PodFacts DEF Pods
<1>. QED
  BY <1>1, <1>2, PodFacts DEF Later

LEMMA UnreadyPod ==
    ASSUME NEW p \in Pods, NEW q,
           q = [p EXCEPT !.ready = FALSE, !.warnings[p.uid] = @ + 1]
    PROVE  /\ q \in Pods /\ Later(p, q)
           /\ q.uid = p.uid /\ q.warnings[p.uid] > p.warnings[p.uid]
<1> DEFINE w == [p.warnings EXCEPT ![p.uid] = @ + 1]
<1>1. q = [uid |-> p.uid, restarts |-> p.restarts, ready |-> FALSE, warnings |-> w]
  BY PodFacts
<1>2. p.uid \in 1 .. Len(p.warnings) /\ p.warnings[p.uid] + 1 \in Nat
  BY PodFacts
<1>3. /\ w \in Seq(Nat) /\ Len(w) = p.uid
      /\ \A u \in 1 .. p.uid : w[u] = IF u = p.uid THEN p.warnings[u] + 1 ELSE p.warnings[u]
  BY <1>2, PodFacts
<1> HIDE DEF w
<1>4. q \in Pods
  BY <1>1, <1>3, PodFacts DEF Pods
<1>. QED
  BY <1>1, <1>2, <1>3, <1>4, PodFacts DEF Later

LEMMA ReadyPod ==
    ASSUME NEW p \in Pods, NEW q, q = [p EXCEPT !.ready = TRUE]
    PROVE  q \in Pods /\ Later(p, q)
<1>1. q = [uid |-> p.uid, restarts |-> p.restarts, ready |-> TRUE, warnings |-> p.warnings]
  BY PodFacts
<1>2. q \in Pods
  BY <1>1, PodFacts DEF Pods
<1>. QED
  BY <1>1, <1>2, PodFacts DEF Later


\* Steps that change nothing but the cluster: what happened to the targets stays
\* visible in them.
LEMMA PodsAdvance ==
    ASSUME CellInv, UNCHANGED <<runner, observer, start, files>>,
           now' \in Nat, nodeReady' \in BOOLEAN, pods' \in Snapshots,
           \A t \in Targets : Later(pods[t], pods'[t]),
           hurt' \subseteq {"restart", "replace", "warning"},
           \/ "restart" \in hurt' \/ "replace" \in hurt' => "restart" \in hurt \/ "replace" \in hurt
           \/ /\ files.before # <<>>
              /\ \E t \in Targets : pods'[t].uid # files.before[t].uid \/ pods'[t].restarts > 0
              /\ ~(observer[1] # "failed" /\ Len(files.timeline) = K),
           \/ "warning" \in hurt' => "warning" \in hurt
           \/ /\ files.baseline # <<>> /\ observer[1] # "gone"
              /\ MatrixCell!Warned(files.baseline, pods', Uids)
    PROVE  CellInv'
<1>1. CellTypeOK'
  BY DEF CellInv, CellTypeOK
<1>2. Position'
  BY DEF CellInv, Position
<1>3. Monotone'
  <2>1. ASSUME files.before # <<>> PROVE \A t \in Targets : Later(files.before[t], pods'[t])
    <3>1. files.before \in Snapshots
      BY <2>1 DEF CellInv, CellTypeOK
    <3>2. \A t \in Targets : files.before[t] \in Pods /\ pods[t] \in Pods /\ pods'[t] \in Pods
      BY <3>1 DEF CellInv, CellTypeOK, Snapshots
    <3>3. \A t \in Targets : Later(files.before[t], pods[t])
      BY <2>1 DEF CellInv, Monotone
    <3>. QED
      BY <3>2, <3>3, LaterFacts
  <2>2. ASSUME files.baseline # <<>> PROVE \A t \in Targets : Later(files.baseline[t], pods'[t])
    <3>1. files.baseline \in Snapshots
      BY <2>2 DEF CellInv, CellTypeOK
    <3>2. \A t \in Targets : files.baseline[t] \in Pods /\ pods[t] \in Pods /\ pods'[t] \in Pods
      BY <3>1 DEF CellInv, CellTypeOK, Snapshots
    <3>3. \A t \in Targets : Later(files.baseline[t], pods[t])
      BY <2>2 DEF CellInv, Monotone
    <3>. QED
      BY <3>2, <3>3, LaterFacts
  <2>. QED
    BY <2>1, <2>2 DEF CellInv, Monotone
<1>4. HurtIsSeen'
  <2>1. ASSUME "restart" \in hurt' \/ "replace" \in hurt'
        PROVE  /\ files.before # <<>> /\ Disturbed(pods')
               /\ observer[1] # "failed" /\ Len(files.timeline) = K =>
                     Disturbed(files.timeline[K].pods)
    <3>1. CASE "restart" \in hurt \/ "replace" \in hurt
      <4>1. files.before # <<>> /\ Disturbed(pods)
        BY <3>1 DEF CellInv, HurtIsSeen
      <4>2. PICK t \in Targets : pods[t].uid # files.before[t].uid \/ pods[t].restarts > 0
        BY <4>1 DEF Disturbed
      <4>3. files.before \in Snapshots /\ Later(files.before[t], pods[t])
        BY <4>1 DEF CellInv, CellTypeOK, Monotone
      <4>4. files.before[t] \in Pods /\ pods[t] \in Pods /\ pods'[t] \in Pods
        BY <4>3 DEF CellInv, CellTypeOK, Snapshots
      <4>5. /\ files.before[t].uid \in Nat /\ pods[t].uid \in Nat /\ pods'[t].uid \in Nat
            /\ pods[t].restarts \in Nat /\ pods'[t].restarts \in Nat
        BY <4>4, PodFacts
      <4>6. pods'[t].uid # files.before[t].uid \/ pods'[t].restarts > 0
        BY <4>2, <4>3, <4>5 DEF Later
      <4>. QED
        BY <3>1, <4>1, <4>6 DEF CellInv, HurtIsSeen, Disturbed
    <3>2. CASE ~("restart" \in hurt \/ "replace" \in hurt)
      BY <2>1, <3>2 DEF Disturbed
    <3>. QED
      BY <3>1, <3>2
  <2>2. ASSUME "warning" \in hurt'
        PROVE  /\ files.baseline # <<>> /\ MatrixCell!Warned(files.baseline, pods', Uids)
               /\ observer[1] = "gone" =>
                     MatrixCell!Warned(files.baseline, files.timeline[K].events, Uids)
    <3>1. CASE "warning" \in hurt
      <4>1. /\ files.baseline # <<>> /\ files.before # <<>>
            /\ MatrixCell!Warned(files.baseline, pods, Uids)
        BY <3>1 DEF CellInv, HurtIsSeen, Position
      <4>2. files.before \in Snapshots /\ files.baseline \in Snapshots /\ pods \in Snapshots
        BY <4>1 DEF CellInv, CellTypeOK
      <4>3. \A t \in Targets :
                Later(files.before[t], files.baseline[t]) /\ Later(files.baseline[t], pods[t])
        BY <4>1 DEF CellInv, Monotone
      <4>4. MatrixCell!Warned(files.baseline, pods', Uids)
        BY <4>1, <4>2, <4>3, WarnedStays DEF Uids
      <4>. QED
        BY <3>1, <4>1, <4>4 DEF CellInv, HurtIsSeen
    <3>2. CASE "warning" \notin hurt
      BY <2>2, <3>2
    <3>. QED
      BY <3>1, <3>2
  <2>3. Uids' = Uids
    BY DEF Uids
  <2>4. Disturbed(pods)' = Disturbed(pods')
    BY DEF Disturbed
  <2>5. Disturbed(files.timeline[K].pods)' = Disturbed(files.timeline[K].pods)
    BY DEF Disturbed
  <2>6. MatrixCell!Warned(files.baseline, pods, Uids)' = MatrixCell!Warned(files.baseline, pods', Uids)
    BY <2>3 DEF MatrixCell!Warned
  <2>7. MatrixCell!Warned(files.baseline, files.timeline[K].events, Uids)'
            = MatrixCell!Warned(files.baseline, files.timeline[K].events, Uids)
    BY <2>3 DEF MatrixCell!Warned
  <2>. QED
    BY <2>1, <2>2, <2>4, <2>5, <2>6, <2>7 DEF HurtIsSeen
<1>5. SamplesChecked'
  BY DEF CellInv, SamplesChecked, Past, Uids
<1>6. GatesPassed'
  BY DEF CellInv, GatesPassed, Uids, MatrixCell!HarnessAccepts, MatrixCell!OnTime,
         MatrixCell!Target, MatrixCell!PlateauEnd
<1>. QED
  BY <1>1, <1>2, <1>3, <1>4, <1>5, <1>6 DEF CellInv

LEMMA ClusterSteps ==
    ASSUME CellInv, MatrixCell!Tick \/ MatrixCell!Disturbance
    PROVE  CellInv'
<1>1. pods \in Snapshots /\ now \in Nat /\ hurt \subseteq {"restart", "replace", "warning"}
  BY DEF CellInv, CellTypeOK
<1>2. \A t \in Targets : pods[t] \in Pods /\ Later(pods[t], pods[t])
  BY <1>1, LaterFacts DEF Snapshots
<1>3. ASSUME UNCHANGED <<runner, observer, start, files, hurt, pods>>,
             now' \in Nat, nodeReady' \in BOOLEAN
      PROVE  CellInv'
  BY <1>1, <1>2, <1>3, PodsAdvance
<1>4. CASE MatrixCell!Tick
  BY <1>1, <1>3, <1>4 DEF MatrixCell!Tick, CellInv, CellTypeOK
<1>5. CASE MatrixCell!NodeFlaps
  BY <1>1, <1>3, <1>5 DEF MatrixCell!NodeFlaps, CellInv, CellTypeOK
<1>6. ASSUME NEW t \in Targets, NEW pod \in Pods, Later(pods[t], pod),
             pods' = [pods EXCEPT ![t] = pod]
      PROVE  pods' \in Snapshots /\ pods'[t] = pod /\ \A u \in Targets : Later(pods[u], pods'[u])
  BY <1>1, <1>2, <1>6 DEF Snapshots
<1>7. ASSUME NEW t \in Targets, NEW pod \in Pods, Later(pods[t], pod),
             NEW kind \in {"restart", "replace"},
             pod.restarts > 0 \/ pod.uid > pods[t].uid,
             MatrixCell!Disturb(t, pod, kind)
      PROVE  CellInv'
  <2>1. /\ UNCHANGED <<now, nodeReady, runner, observer, start, files>>
        /\ pods' = [pods EXCEPT ![t] = pod]
        /\ hurt' = IF MatrixCell!Watching(t, kind) THEN hurt \cup {kind} ELSE hurt
    BY <1>7 DEF MatrixCell!Disturb
  <2>2. ASSUME MatrixCell!Watching(t, kind)
        PROVE  /\ files.before # <<>>
               /\ \E u \in Targets : pods'[u].uid # files.before[u].uid \/ pods'[u].restarts > 0
               /\ ~(observer[1] # "failed" /\ Len(files.timeline) = K)
    <3>1. /\ files.before # <<>>
          /\ ~(observer[2] = K /\ observer[1] # "wait" /\ observer[1] # "pods")
      BY <2>2, <1>7 DEF MatrixCell!Watching, K
    <3>2. ~(observer[1] # "failed" /\ Len(files.timeline) = K)
      <4>1. observer[1] \in ObserverSteps /\ observer[2] \in 0 .. K
        BY DEF CellInv, CellTypeOK
      <4>2. files.timeline = <<>> => Len(files.timeline) = 0
        OBVIOUS
      <4>. QED
        BY <3>1, <4>1, <4>2, ConstantFacts DEF CellInv, Position, ObserverSteps
    <3>3. files.before \in Snapshots /\ Later(files.before[t], pods[t])
      BY <3>1 DEF CellInv, CellTypeOK, Monotone
    <3>4. files.before[t].uid \in Nat /\ pods[t].uid \in Nat /\ pod.uid \in Nat
      BY <1>2, <3>3, PodFacts DEF Snapshots
    <3>5. pods'[t] = pod
      BY <1>6, <1>7, <2>1
    <3>6. files.before[t].uid <= pods[t].uid
      BY <3>3 DEF Later
    <3>7. pods'[t].uid # files.before[t].uid \/ pods'[t].restarts > 0
      BY <1>7, <3>4, <3>5, <3>6
    <3>. QED
      BY <3>1, <3>2, <3>7
  <2>. QED
    BY <1>1, <1>6, <1>7, <2>1, <2>2, PodsAdvance DEF CellInv, CellTypeOK
<1>8. ASSUME NEW t \in Targets, NEW pod \in Pods, Later(pods[t], pod),
             pod.uid = pods[t].uid, pod.warnings[pods[t].uid] > pods[t].warnings[pods[t].uid],
             MatrixCell!Disturb(t, pod, "warning")
      PROVE  CellInv'
  <2>1. /\ UNCHANGED <<now, nodeReady, runner, observer, start, files>>
        /\ pods' = [pods EXCEPT ![t] = pod]
        /\ hurt' = IF MatrixCell!Watching(t, "warning") THEN hurt \cup {"warning"} ELSE hurt
    BY <1>8 DEF MatrixCell!Disturb
  <2>2. ASSUME MatrixCell!Watching(t, "warning")
        PROVE  /\ files.baseline # <<>> /\ observer[1] # "gone"
               /\ MatrixCell!Warned(files.baseline, pods', Uids)
    <3>1. /\ files.baseline # <<>> /\ observer # <<"gone", K>>
          /\ pods[t].uid = files.before[t].uid
      BY <2>2 DEF MatrixCell!Watching, K
    <3>2. observer[1] # "gone"
      BY <3>1 DEF CellInv, CellTypeOK, Position
    <3>3. /\ files.before \in Snapshots /\ files.baseline \in Snapshots
          /\ Later(files.before[t], files.baseline[t]) /\ Later(files.baseline[t], pods[t])
      BY <3>1 DEF CellInv, CellTypeOK, Monotone, Position
    <3> DEFINE u == files.before[t].uid
    <3>4. files.baseline[t] \in Pods /\ files.before[t] \in Pods
      BY <3>3 DEF Snapshots
    <3>5. u \in Nat \ {0} /\ files.baseline[t].uid \in Nat /\ u <= files.baseline[t].uid
      BY <3>3, <3>4, PodFacts DEF Later
    <3>6. u \in 1 .. files.baseline[t].uid /\ u \in 1 .. pods[t].uid /\ u \in 1 .. pod.uid
      BY <1>2, <1>8, <3>1, <3>5, PodFacts
    <3>7. files.baseline[t].warnings[u] <= pods[t].warnings[u]
      BY <3>3, <3>6 DEF Later
    <3>8. /\ files.baseline[t].warnings[u] \in Nat /\ pods[t].warnings[u] \in Nat
          /\ pod.warnings[u] \in Nat
      BY <1>2, <3>4, <3>6, PodFacts
    <3>9. pods'[t] = pod /\ pod.warnings[u] > pods[t].warnings[u]
      BY <1>6, <1>8, <2>1, <3>1
    <3>10. pods'[t].warnings[u] > files.baseline[t].warnings[u]
      BY <3>7, <3>8, <3>9
    <3>. QED
      BY <3>1, <3>2, <3>3, <3>10, WarnedFacts DEF Uids
  <2>. QED
    BY <1>1, <1>6, <1>8, <2>1, <2>2, PodsAdvance DEF CellInv, CellTypeOK
<1>9. ASSUME NEW t \in Targets, MatrixCell!Restart(t) PROVE CellInv'
  <2> DEFINE q == [pods[t] EXCEPT !.restarts = @ + 1]
  <2>1. q \in Pods /\ Later(pods[t], q) /\ q.restarts > 0
    BY <1>2, RestartedPod
  <2>2. MatrixCell!Disturb(t, q, "restart")
    BY <1>9 DEF MatrixCell!Restart
  <2> HIDE DEF q
  <2>. QED
    BY <1>7, <2>1, <2>2
<1>10. ASSUME NEW t \in Targets, MatrixCell!Replace(t) PROVE CellInv'
  <2> DEFINE q == [uid |-> pods[t].uid + 1, restarts |-> 0, ready |-> FALSE,
                   warnings |-> Append(pods[t].warnings, 0)]
  <2>1. q \in Pods /\ Later(pods[t], q) /\ q.uid > pods[t].uid
    BY <1>2, ReplacedPod
  <2>2. MatrixCell!Disturb(t, q, "replace")
    BY <1>10 DEF MatrixCell!Replace
  <2> HIDE DEF q
  <2>. QED
    BY <1>7, <2>1, <2>2
<1>11. ASSUME NEW t \in Targets, MatrixCell!LoseReady(t) PROVE CellInv'
  <2> DEFINE q == [pods[t] EXCEPT !.ready = FALSE, !.warnings[pods[t].uid] = @ + 1]
  <2>1. /\ q \in Pods /\ Later(pods[t], q) /\ q.uid = pods[t].uid
        /\ q.warnings[pods[t].uid] > pods[t].warnings[pods[t].uid]
    BY <1>2, UnreadyPod
  <2>2. MatrixCell!Disturb(t, q, "warning")
    BY <1>11 DEF MatrixCell!LoseReady
  <2> HIDE DEF q
  <2>. QED
    BY <1>8, <2>1, <2>2
<1>12. ASSUME NEW t \in Targets, MatrixCell!RegainReady(t) PROVE CellInv'
  <2> DEFINE q == [pods[t] EXCEPT !.ready = TRUE]
  <2>1. q \in Pods /\ Later(pods[t], q)
    BY <1>2, ReadyPod
  <2>2. pods' = [pods EXCEPT ![t] = q]
    BY <1>1, <1>12 DEF MatrixCell!RegainReady, Snapshots
  <2> HIDE DEF q
  <2>3. pods' \in Snapshots /\ \A u \in Targets : Later(pods[u], pods'[u])
    BY <1>6, <2>1, <2>2
  <2>. QED
    BY <1>12, <2>3, PodsAdvance DEF MatrixCell!RegainReady, CellInv, CellTypeOK
<1>. QED
  BY <1>4, <1>5, <1>9, <1>10, <1>11, <1>12, ConstantFacts DEF MatrixCell!Disturbance

\* Steps that neither touch the cluster nor what the observer has read.
LEMMA RunnerAdvance ==
    ASSUME CellInv, UNCHANGED <<now, pods, nodeReady, hurt>>,
           DOMAIN files' = Fields, files'.before = files.before,
           files'.baseline = files.baseline, files'.timeline = files.timeline,
           start' \in Nat, runner' \in RunnerSteps,
           observer' \in {observer, <<"failed", observer[2]>>},
           Position', GatesPassed'
    PROVE  CellInv'
<1>1. CellTypeOK'
  BY DEF CellInv, CellTypeOK, ObserverSteps
<1>2. Uids' = Uids
  BY DEF Uids
<1>3. Monotone'
  BY DEF CellInv, Monotone
<1>4. observer'[1] \in {observer[1], "failed"}
  OBVIOUS
<1>5. HurtIsSeen'
  <2>1. /\ Disturbed(pods)' = Disturbed(pods)
        /\ Disturbed(files.timeline[K].pods)' = Disturbed(files.timeline[K].pods)
    BY DEF Disturbed
  <2>2. /\ MatrixCell!Warned(files.baseline, pods, Uids)' = MatrixCell!Warned(files.baseline, pods, Uids)
        /\ MatrixCell!Warned(files.baseline, files.timeline[K].events, Uids)'
              = MatrixCell!Warned(files.baseline, files.timeline[K].events, Uids)
    BY <1>2 DEF MatrixCell!Warned
  <2>. QED
    BY <1>4, <2>1, <2>2 DEF CellInv, HurtIsSeen
<1>6. SamplesChecked'
  <2>1. ASSUME NEW i PROVE
           /\ MatrixCell!SnapshotValid(files.timeline[i].pods, Uids)'
                  = MatrixCell!SnapshotValid(files.timeline[i].pods, Uids)
           /\ MatrixCell!Warned(files.baseline, files.timeline[i].events, Uids)'
                  = MatrixCell!Warned(files.baseline, files.timeline[i].events, Uids)
    BY <1>2 DEF MatrixCell!Warned, MatrixCell!SnapshotValid, MatrixCell!Uids, MatrixCell!Healthy
  <2>2. \A i \in 1 .. Len(files.timeline) :
           /\ MatrixCell!SnapshotValid(files.timeline[i].pods, Uids)'
                  = MatrixCell!SnapshotValid(files.timeline[i].pods, Uids)
           /\ MatrixCell!Warned(files.baseline, files.timeline[i].events, Uids)'
                  = MatrixCell!Warned(files.baseline, files.timeline[i].events, Uids)
    BY <2>1
  <2>. QED
    BY <1>4, <2>2 DEF CellInv, SamplesChecked, Past
<1>. QED
  BY <1>1, <1>3, <1>5, <1>6 DEF CellInv

LEMMA RunnerBefore ==
    ASSUME CellInv, MatrixCell!TargetsBefore \/ MatrixCell!EventsBefore
    PROVE  CellInv'
<1>1. CASE MatrixCell!TargetsBefore
  <2>1. /\ runner = "targets" /\ UNCHANGED <<now, pods, nodeReady, faults, hurt, observer, start>>
        /\ \/ /\ MatrixCell!Healthy(pods) /\ runner' = "baseline"
              /\ files' = [files EXCEPT !.before = pods]
           \/ runner' = "exited" /\ UNCHANGED files
    BY <1>1 DEF MatrixCell!TargetsBefore, MatrixCell!RunnerStep, MatrixCell!cluster
  <2>2. /\ files.before = <<>> /\ files.baseline = <<>> /\ start = 0
        /\ observer[1] \in {"anchor", "failed"} /\ DOMAIN files = Fields
        /\ observer[1] = "anchor" => observer[2] = 0 /\ files.timeline = <<>>
        /\ "restart" \notin hurt /\ "replace" \notin hurt /\ "warning" \notin hurt
    BY <2>1 DEF CellInv, CellTypeOK, Position, HurtIsSeen
  <2>3. CASE runner' = "exited" /\ UNCHANGED files
    <3>1. Position'
      BY <2>1, <2>3 DEF CellInv, Position
    <3>2. GatesPassed'
      BY <2>3 DEF GatesPassed
    <3>. QED
      BY <2>1, <2>2, <2>3, <3>1, <3>2, RunnerAdvance DEF CellInv, CellTypeOK, RunnerSteps
  <2>4. CASE /\ MatrixCell!Healthy(pods) /\ runner' = "baseline"
             /\ files' = [files EXCEPT !.before = pods]
    <3>1. /\ DOMAIN files' = Fields /\ files'.before = pods /\ files'.baseline = <<>>
          /\ files'.timeline = files.timeline
      BY <2>2, <2>4 DEF Fields
    <3>2. pods \in Snapshots /\ pods # <<>> /\ \A t \in Targets : pods[t] \in Pods
      BY SnapshotFacts DEF CellInv, CellTypeOK, Snapshots
    <3>3. CellTypeOK'
      BY <2>1, <2>4, <3>1, <3>2 DEF CellInv, CellTypeOK, RunnerSteps
    <3>4. Position'
      BY <2>1, <2>2, <2>4, <3>1, <3>2 DEF CellInv, Position
    <3>5. Monotone'
      BY <2>1, <2>4, <3>1, <3>2, LaterFacts DEF Monotone
    <3>6. HurtIsSeen'
      BY <2>1, <2>2 DEF HurtIsSeen
    <3>7. SamplesChecked'
      <4>1. observer'[1] # "failed" => Len(files'.timeline) = 0
        BY <2>1, <2>2, <3>1
      <4>. QED
        BY <4>1 DEF SamplesChecked
    <3>8. GatesPassed'
      BY <2>4 DEF GatesPassed
    <3>. QED
      BY <3>3, <3>4, <3>5, <3>6, <3>7, <3>8 DEF CellInv
  <2>. QED
    BY <2>1, <2>3, <2>4
<1>2. CASE MatrixCell!EventsBefore
  <2>1. /\ runner = "baseline" /\ runner' = "publish"
        /\ UNCHANGED <<now, pods, nodeReady, faults, hurt, observer, start>>
        /\ files' = [files EXCEPT !.baseline = pods]
    BY <1>2 DEF MatrixCell!EventsBefore, MatrixCell!RunnerStep, MatrixCell!cluster
  <2>2. /\ files.before # <<>> /\ files.baseline = <<>> /\ start = 0
        /\ observer[1] \in {"anchor", "failed"} /\ DOMAIN files = Fields
        /\ observer[1] = "anchor" => observer[2] = 0 /\ files.timeline = <<>>
        /\ "warning" \notin hurt
    BY <2>1 DEF CellInv, CellTypeOK, Position, HurtIsSeen
  <2>3. /\ DOMAIN files' = Fields /\ files'.baseline = pods /\ files'.before = files.before
        /\ files'.timeline = files.timeline
    BY <2>1, <2>2 DEF Fields
  <2>4. pods \in Snapshots /\ pods # <<>> /\ \A t \in Targets : pods[t] \in Pods
    BY SnapshotFacts DEF CellInv, CellTypeOK, Snapshots
  <2>5. CellTypeOK'
    BY <2>1, <2>3, <2>4 DEF CellInv, CellTypeOK, RunnerSteps
  <2>6. Position'
    BY <2>1, <2>2, <2>3, <2>4 DEF CellInv, Position
  <2>7. Monotone'
    BY <2>1, <2>2, <2>3, <2>4, LaterFacts DEF CellInv, Monotone
  <2>8. HurtIsSeen'
    BY <2>1, <2>2, <2>3, ConstantFacts DEF CellInv, HurtIsSeen, Disturbed
  <2>9. SamplesChecked'
    <3>1. observer'[1] # "failed" => Len(files'.timeline) = 0
      BY <2>1, <2>2, <2>3
    <3>. QED
      BY <3>1 DEF SamplesChecked
  <2>10. GatesPassed'
    BY <2>1 DEF GatesPassed
  <2>. QED
    BY <2>5, <2>6, <2>7, <2>8, <2>9, <2>10 DEF CellInv
<1>. QED
  BY <1>1, <1>2

LEMMA RunnerAfter ==
    ASSUME CellInv,
           \/ MatrixCell!PublishJobs \/ MatrixCell!DriversEnd \/ MatrixCell!TargetsAfter
           \/ MatrixCell!EventsAfter
    PROVE  CellInv'
<1> USE DEF MatrixCell!RunnerStep, MatrixCell!cluster
<1>0. DOMAIN files = Fields /\ now \in Nat /\ start \in Nat
  BY DEF CellInv, CellTypeOK
<1>1. CASE MatrixCell!PublishJobs
  <2>1. /\ runner = "publish" /\ runner' = "load" /\ start' = now + 1 /\ UNCHANGED files
        /\ UNCHANGED <<now, pods, nodeReady, faults, hurt, observer>>
    BY <1>1 DEF MatrixCell!PublishJobs
  <2>2. Position'
    BY <2>1 DEF CellInv, Position
  <2>3. GatesPassed'
    BY <2>1 DEF GatesPassed
  <2>. QED
    BY <1>0, <2>1, <2>2, <2>3, RunnerAdvance DEF RunnerSteps
<1>2. CASE MatrixCell!DriversEnd
  <2>1. PICK drivers : files' = [files EXCEPT !.drivers = drivers]
    BY <1>2 DEF MatrixCell!DriversEnd
  <2>2. /\ runner = "load" /\ runner' \in {"exited", "after"}
        /\ UNCHANGED <<now, pods, nodeReady, faults, hurt, observer, start>>
    BY <1>2 DEF MatrixCell!DriversEnd
  <2>3. /\ DOMAIN files' = Fields /\ files'.before = files.before
        /\ files'.baseline = files.baseline /\ files'.timeline = files.timeline
    BY <1>0, <2>1 DEF Fields
  <2>4. Position'
    BY <2>2, <2>3 DEF CellInv, Position
  <2>5. GatesPassed'
    BY <2>2 DEF GatesPassed
  <2>. QED
    BY <1>0, <2>2, <2>3, <2>4, <2>5, RunnerAdvance DEF RunnerSteps
<1>3. CASE MatrixCell!TargetsAfter
  <2>1. /\ runner = "after" /\ runner' = "events" /\ files' = [files EXCEPT !.after = pods]
        /\ UNCHANGED <<now, pods, nodeReady, faults, hurt, observer, start>>
    BY <1>3 DEF MatrixCell!TargetsAfter
  <2>2. /\ DOMAIN files' = Fields /\ files'.before = files.before
        /\ files'.baseline = files.baseline /\ files'.timeline = files.timeline
    BY <1>0, <2>1 DEF Fields
  <2>3. Position'
    BY <2>1, <2>2 DEF CellInv, Position
  <2>4. GatesPassed'
    BY <2>1 DEF GatesPassed
  <2>. QED
    BY <1>0, <2>1, <2>2, <2>3, <2>4, RunnerAdvance DEF RunnerSteps
<1>4. CASE MatrixCell!EventsAfter
  <2>1. /\ runner = "events" /\ runner' = "summarize" /\ files' = [files EXCEPT !.events = pods]
        /\ UNCHANGED <<now, pods, nodeReady, faults, hurt, observer, start>>
    BY <1>4 DEF MatrixCell!EventsAfter
  <2>2. /\ DOMAIN files' = Fields /\ files'.before = files.before
        /\ files'.baseline = files.baseline /\ files'.timeline = files.timeline
    BY <1>0, <2>1 DEF Fields
  <2>3. Position'
    BY <2>1, <2>2 DEF CellInv, Position
  <2>4. GatesPassed'
    BY <2>1 DEF GatesPassed
  <2>. QED
    BY <1>0, <2>1, <2>2, <2>3, <2>4, RunnerAdvance DEF RunnerSteps
<1>. QED
  BY <1>1, <1>2, <1>3, <1>4

LEMMA SummaryAndVerdict ==
    ASSUME CellInv, MatrixCell!Summarize \/ MatrixCell!Harness
    PROVE  CellInv'
<1>0. /\ DOMAIN files = Fields /\ now \in Nat /\ start \in Nat /\ runner \in RunnerSteps
      /\ observer = <<observer[1], observer[2]>>
  BY DEF CellInv, CellTypeOK
<1>1. CASE MatrixCell!Summarize
  <2>1. /\ runner = "summarize" /\ runner' \in {"summarized", "exited"}
        /\ runner' = "summarized" => MatrixCell!SummaryValid
        /\ files' = [files EXCEPT !.summary = MatrixCell!Summary(files.drivers)]
        /\ UNCHANGED <<now, pods, nodeReady, faults, hurt, observer, start>>
    BY <1>1 DEF MatrixCell!Summarize, MatrixCell!RunnerStep, MatrixCell!cluster
  <2>2. /\ DOMAIN files' = Fields /\ files'.before = files.before
        /\ files'.baseline = files.baseline /\ files'.timeline = files.timeline
        /\ files'.drivers = files.drivers /\ files'.events = files.events
        /\ files'.summary = MatrixCell!Summary(files.drivers)
    BY <1>0, <2>1 DEF Fields
  <2>3. Position'
    BY <2>1, <2>2 DEF CellInv, Position
  <2>4. GatesPassed'
    <3>1. runner' = "summarized" => ~MatrixCell!Warned(files.baseline, files.events, Uids)
      BY <2>1 DEF MatrixCell!SummaryValid, Uids
    <3>2. MatrixCell!Warned(files.baseline, files.events, Uids)'
              = MatrixCell!Warned(files.baseline, files.events, Uids)
      BY <2>2 DEF MatrixCell!Warned, Uids
    <3>3. files'.summary = MatrixCell!Summary(files'.drivers)
      BY <2>2
    <3>. QED
      BY <2>1, <3>1, <3>2, <3>3 DEF GatesPassed
  <2>. QED
    BY <1>0, <2>1, <2>2, <2>3, <2>4, RunnerAdvance DEF RunnerSteps
<1>2. CASE MatrixCell!CellFails
  <2>1. /\ runner \in {"exited", "summarized"} /\ runner' = "failed"
        /\ observer' = <<"failed", observer[2]>>
        /\ UNCHANGED <<now, pods, nodeReady, faults, hurt, start, files>>
    BY <1>2 DEF MatrixCell!CellFails, MatrixCell!cluster
  <2>2. Position'
    BY <2>1 DEF CellInv, Position
  <2>3. GatesPassed'
    BY <2>1 DEF GatesPassed
  <2>. QED
    BY <1>0, <2>1, <2>2, <2>3, RunnerAdvance DEF RunnerSteps
<1>3. CASE MatrixCell!CaptureTelemetry
  <2>1. PICK telemetry \in BOOLEAN : files' = [files EXCEPT !.telemetry = telemetry]
    BY <1>3 DEF MatrixCell!CaptureTelemetry
  <2>2. /\ runner = "summarized" /\ runner' = "captured" /\ observer[1] = "gone"
        /\ UNCHANGED <<now, pods, nodeReady, faults, hurt, observer, start>>
    BY <1>3 DEF MatrixCell!CaptureTelemetry, MatrixCell!cluster, MatrixCell!At
  <2>3. /\ DOMAIN files' = Fields /\ files'.before = files.before
        /\ files'.baseline = files.baseline /\ files'.timeline = files.timeline
        /\ files'.drivers = files.drivers /\ files'.events = files.events
        /\ files'.summary = files.summary
    BY <1>0, <2>1 DEF Fields
  <2>4. Position'
    BY <2>2, <2>3 DEF CellInv, Position
  <2>5. GatesPassed'
    <3>1. MatrixCell!Warned(files.baseline, files.events, Uids)'
              = MatrixCell!Warned(files.baseline, files.events, Uids)
      BY <2>3 DEF MatrixCell!Warned, Uids
    <3>2. MatrixCell!Summary(files'.drivers) = MatrixCell!Summary(files.drivers)
      BY <2>3
    <3>. QED
      BY <2>2, <2>3, <3>1, <3>2 DEF CellInv, GatesPassed
  <2>. QED
    BY <1>0, <2>2, <2>3, <2>4, <2>5, RunnerAdvance DEF RunnerSteps
<1>4. CASE MatrixCell!Validate
  <2>1. /\ runner = "captured" /\ runner' \in {"attested", "failed"}
        /\ runner' = "attested" => MatrixCell!HarnessAccepts
        /\ UNCHANGED <<now, pods, nodeReady, faults, hurt, observer, start, files>>
    BY <1>4 DEF MatrixCell!Validate, MatrixCell!cluster
  <2>2. Position'
    BY <2>1 DEF CellInv, Position
  <2>3. GatesPassed'
    <3>1. MatrixCell!HarnessAccepts' = MatrixCell!HarnessAccepts
      BY <2>1 DEF MatrixCell!HarnessAccepts, MatrixCell!OnTime, MatrixCell!Target,
                  MatrixCell!PlateauEnd
    <3>. QED
      BY <2>1, <3>1 DEF CellInv, GatesPassed, Uids
  <2>. QED
    BY <1>0, <2>1, <2>2, <2>3, RunnerAdvance DEF RunnerSteps
<1>. QED
  BY <1>1, <1>2, <1>3, <1>4 DEF MatrixCell!Harness

\* Steps of the observer: nobody has attested the cell yet.
LEMMA ObserverAdvance ==
    ASSUME CellInv, UNCHANGED <<now, pods, nodeReady, hurt, runner, start>>,
           observer[1] \notin {"gone", "failed"}, observer' \in ObserverSteps \X (0 .. K),
           DOMAIN files' = Fields, files'.before = files.before,
           files'.baseline = files.baseline, files'.drivers = files.drivers,
           files'.events = files.events, files'.summary = files.summary,
           files'.timeline \in Seq(Lines),
           Position', SamplesChecked',
           observer'[1] # "failed" /\ Len(files'.timeline) = K =>
               \/ Len(files.timeline) = K /\ files'.timeline[K].pods = files.timeline[K].pods
               \/ files'.timeline[K].pods = pods,
           observer'[1] = "gone" => files'.timeline[K].events = pods
    PROVE  CellInv'
<1>1. CellTypeOK'
  BY DEF CellInv, CellTypeOK
<1>2. Uids' = Uids
  BY DEF Uids
<1>3. Monotone'
  BY DEF CellInv, Monotone
<1>4. HurtIsSeen'
  <2>1. Disturbed(pods)' = Disturbed(pods)
    BY DEF Disturbed
  <2>2. Disturbed(files.timeline[K].pods)' \in {Disturbed(files.timeline[K].pods), Disturbed(pods)}
        \/ ~(observer'[1] # "failed" /\ Len(files'.timeline) = K)
    BY DEF Disturbed
  <2>3. ASSUME observer'[1] # "failed", Len(files'.timeline) = K, Disturbed(pods),
               Len(files.timeline) = K => Disturbed(files.timeline[K].pods)
        PROVE  Disturbed(files.timeline[K].pods)'
    BY <2>3 DEF Disturbed
  <2>4. MatrixCell!Warned(files.baseline, pods, Uids)' = MatrixCell!Warned(files.baseline, pods, Uids)
    BY <1>2 DEF MatrixCell!Warned
  <2>5. observer'[1] = "gone" =>
            MatrixCell!Warned(files.baseline, files.timeline[K].events, Uids)'
                = MatrixCell!Warned(files.baseline, pods, Uids)
    BY <1>2 DEF MatrixCell!Warned
  <2>. QED
    BY <2>1, <2>3, <2>4, <2>5 DEF CellInv, HurtIsSeen
<1>5. runner \notin {"captured", "attested"}
  BY DEF CellInv, Position
<1>6. GatesPassed'
  <2>1. MatrixCell!Warned(files.baseline, files.events, Uids)'
            = MatrixCell!Warned(files.baseline, files.events, Uids)
    BY <1>2 DEF MatrixCell!Warned
  <2>2. MatrixCell!Summary(files'.drivers) = MatrixCell!Summary(files.drivers)
    OBVIOUS
  <2>. QED
    BY <1>5, <2>1, <2>2 DEF CellInv, GatesPassed
<1>. QED
  BY <1>1, <1>3, <1>4, <1>6 DEF CellInv

LEMMA ObserverGives ==
    ASSUME CellInv, observer[1] \notin {"gone", "failed"}, MatrixCell!Give
    PROVE  CellInv'
<1>1. /\ observer' = <<"failed", observer[2]>>
      /\ UNCHANGED <<now, pods, nodeReady, faults, hurt, runner, start, files>>
  BY DEF MatrixCell!Give, MatrixCell!ObserverStep, MatrixCell!cluster
<1>2. Position' /\ SamplesChecked'
  BY <1>1 DEF CellInv, Position, SamplesChecked
<1>. QED
  BY <1>1, <1>2, ObserverAdvance DEF CellInv, CellTypeOK, ObserverSteps

\* The samples before the last one stay checked.
LEMMA SamplesStay ==
    ASSUME CellInv, observer[1] # "failed", NEW i \in 1 .. Len(files.timeline),
           files'.before = files.before, files'.baseline = files.baseline
    PROVE  /\ files'.timeline[i].pods = files.timeline[i].pods =>
                 MatrixCell!SnapshotValid(files.timeline[i].pods, Uids)'
                     = MatrixCell!SnapshotValid(files.timeline[i].pods, Uids)
           /\ files'.timeline[i].events = files.timeline[i].events =>
                 MatrixCell!Warned(files.baseline, files.timeline[i].events, Uids)'
                     = MatrixCell!Warned(files.baseline, files.timeline[i].events, Uids)
<1>1. Uids' = Uids
  BY DEF Uids
<1>. QED
  BY <1>1 DEF MatrixCell!Warned, MatrixCell!SnapshotValid, MatrixCell!Uids, MatrixCell!Healthy

LEMMA ObserverWaits ==
    ASSUME CellInv,
           MatrixCell!DiscoverPlateau \/ MatrixCell!AwaitCheckpoint \/ MatrixCell!CheckNodes
    PROVE  CellInv'
<1> USE DEF MatrixCell!At
<1>0. /\ observer \in ObserverSteps \X (0 .. K) /\ DOMAIN files = Fields
      /\ files.timeline \in Seq(Lines) /\ K \in Nat \ {0} /\ now \in Nat /\ start \in Nat
  BY ConstantFacts DEF CellInv, CellTypeOK
<1>1. ASSUME MatrixCell!Give, observer[1] \notin {"gone", "failed"} PROVE CellInv'
  BY <1>1, ObserverGives
<1>2. ASSUME NEW to \in (ObserverSteps \ {"gone"}) \X (0 .. K), MatrixCell!ObserverStep(to),
             UNCHANGED files, observer[1] \notin {"gone", "failed"},
             <<observer[1], to[1]>> \in {<<"anchor", "wait">>, <<"wait", "pods">>, <<"node", "nodes">>},
             to[2] = IF observer[1] = "anchor" THEN 1 ELSE observer[2],
             observer[1] = "anchor" => start > 0
      PROVE  CellInv'
  <2>1. /\ observer' = to
        /\ UNCHANGED <<now, pods, nodeReady, faults, hurt, runner, start, files>>
    BY <1>2 DEF MatrixCell!ObserverStep, MatrixCell!cluster
  <2>2. observer'[1] = to[1] /\ observer'[2] = to[2]
    BY <2>1
  <2>3. Position'
    BY <1>0, <1>2, <2>1, <2>2 DEF CellInv, Position
  <2>4. SamplesChecked'
    <3>1. Uids' = Uids
      BY <2>1 DEF Uids
    <3>2. ASSUME NEW i \in 1 .. Len(files.timeline)
          PROVE  /\ Past(i, {"wait", "pods", "node", "nodes", "events", "gone"})' =>
                        MatrixCell!SnapshotValid(files.timeline[i].pods, Uids)
                 /\ Past(i, {"wait", "pods", "gone"})' =>
                        ~MatrixCell!Warned(files.baseline, files.timeline[i].events, Uids)
      BY <1>0, <1>2, <2>1, <2>2 DEF CellInv, SamplesChecked, Past, Position
    <3>3. ASSUME NEW i \in 1 .. Len(files.timeline)
          PROVE  /\ MatrixCell!SnapshotValid(files.timeline[i].pods, Uids)'
                        = MatrixCell!SnapshotValid(files.timeline[i].pods, Uids)
                 /\ MatrixCell!Warned(files.baseline, files.timeline[i].events, Uids)'
                        = MatrixCell!Warned(files.baseline, files.timeline[i].events, Uids)
      BY <1>2, <2>1, SamplesStay
    <3>. QED
      BY <2>1, <3>2, <3>3 DEF SamplesChecked
  <2>5. \/ Len(files'.timeline) # K
        \/ Len(files.timeline) = K /\ files'.timeline[K].pods = files.timeline[K].pods
    BY <2>1
  <2>. QED
    BY <1>0, <1>2, <2>1, <2>2, <2>3, <2>4, <2>5, ObserverAdvance DEF CellInv, CellTypeOK
<1>3. CASE MatrixCell!DiscoverPlateau
  <2>1. CASE MatrixCell!Give
    BY <1>1, <1>3, <2>1 DEF MatrixCell!DiscoverPlateau
  <2>2. CASE start > 0 /\ MatrixCell!ObserverStep(<<"wait", 1>>) /\ UNCHANGED files
    <3>1. <<"wait", 1>> \in (ObserverSteps \ {"gone"}) \X (0 .. K)
      BY <1>0 DEF ObserverSteps
    <3>. QED
      BY <1>2, <1>3, <2>2, <3>1 DEF MatrixCell!DiscoverPlateau
  <2>. QED
    BY <1>3, <2>1, <2>2 DEF MatrixCell!DiscoverPlateau
<1>4. CASE MatrixCell!AwaitCheckpoint
  <2>1. CASE MatrixCell!Give
    BY <1>1, <1>4, <2>1 DEF MatrixCell!AwaitCheckpoint
  <2>2. CASE MatrixCell!ObserverStep(<<"pods", observer[2]>>) /\ UNCHANGED files
    <3>1. <<"pods", observer[2]>> \in (ObserverSteps \ {"gone"}) \X (0 .. K)
      BY <1>0 DEF ObserverSteps
    <3>. QED
      BY <1>2, <1>4, <2>2, <3>1 DEF MatrixCell!AwaitCheckpoint
  <2>. QED
    BY <1>4, <2>1, <2>2 DEF MatrixCell!AwaitCheckpoint
<1>5. CASE MatrixCell!CheckNodes
  <2>1. CASE MatrixCell!Give
    BY <1>1, <1>5, <2>1 DEF MatrixCell!CheckNodes
  <2>2. CASE MatrixCell!ObserverStep(<<"nodes", observer[2]>>) /\ UNCHANGED files
    <3>1. <<"nodes", observer[2]>> \in (ObserverSteps \ {"gone"}) \X (0 .. K)
      BY <1>0 DEF ObserverSteps
    <3>. QED
      BY <1>2, <1>5, <2>2, <3>1 DEF MatrixCell!CheckNodes
  <2>. QED
    BY <1>5, <2>1, <2>2 DEF MatrixCell!CheckNodes
<1>. QED
  BY <1>3, <1>4, <1>5

LEMMA ObserverReadsPods ==
    ASSUME CellInv, MatrixCell!ReadPods
    PROVE  CellInv'
<1> DEFINE line == [started |-> now, pods |-> pods, available |-> FALSE, nodes |-> FALSE,
                    events |-> <<>>, observed |-> 0]
<1>1. /\ observer[1] = "pods" /\ observer' = <<"deployment", observer[2]>>
      /\ UNCHANGED <<now, pods, nodeReady, faults, hurt, runner, start>>
      /\ files' = [files EXCEPT !.timeline = Append(files.timeline, line)]
  BY DEF MatrixCell!ReadPods, MatrixCell!At, MatrixCell!ObserverStep, MatrixCell!cluster
<1>2. /\ DOMAIN files = Fields /\ now \in Nat /\ files.timeline \in Seq(Lines)
      /\ observer \in ObserverSteps \X (0 .. K)
  BY DEF CellInv, CellTypeOK
<1>3. line \in Lines
  BY <1>2 DEF Lines, CellInv, CellTypeOK
<1>4. line.pods = pods
  OBVIOUS
<1> HIDE DEF line
<1>5. /\ DOMAIN files' = Fields /\ files'.before = files.before
      /\ files'.baseline = files.baseline /\ files'.drivers = files.drivers
      /\ files'.events = files.events /\ files'.summary = files.summary
      /\ files'.timeline = Append(files.timeline, line)
  BY <1>1, <1>2 DEF Fields
<1> DEFINE n == Len(files.timeline)
<1>6. /\ n \in Nat /\ files'.timeline \in Seq(Lines) /\ Len(files'.timeline) = n + 1
      /\ \A i \in 1 .. n : files'.timeline[i] = files.timeline[i]
      /\ files'.timeline[n + 1] = line
  BY <1>2, <1>3, <1>5
<1>7. n = observer[2] - 1 /\ observer[2] > 0
  BY <1>1 DEF CellInv, Position
<1>8. Position'
  BY <1>1, <1>2, <1>5, <1>6, <1>7 DEF CellInv, Position
<1>9. SamplesChecked'
  <2>1. ASSUME NEW i \in 1 .. n
        PROVE  /\ MatrixCell!SnapshotValid(files.timeline[i].pods, Uids)'
               /\ ~MatrixCell!Warned(files.baseline, files.timeline[i].events, Uids)'
    <3>1. /\ MatrixCell!SnapshotValid(files.timeline[i].pods, Uids)
          /\ ~MatrixCell!Warned(files.baseline, files.timeline[i].events, Uids)
      BY <1>1 DEF CellInv, SamplesChecked, Past
    <3>. QED
      BY <1>1, <1>5, <1>6, <3>1, SamplesStay
  <2>2. ASSUME NEW i, i = n + 1
        PROVE  /\ ~Past(i, {"wait", "pods", "node", "nodes", "events", "gone"})'
               /\ ~Past(i, {"wait", "pods", "gone"})'
    BY <1>1, <1>6, <2>2 DEF Past
  <2>3. \A i \in 1 .. Len(files'.timeline) : i \in 1 .. n \/ i = n + 1
    BY <1>6
  <2>. QED
    BY <2>1, <2>2, <2>3 DEF SamplesChecked
<1>10. Len(files'.timeline) = K => files'.timeline[K].pods = pods
  BY <1>4, <1>6
<1>11. observer' \in ObserverSteps \X (0 .. K)
  BY <1>1, <1>2 DEF ObserverSteps
<1>. QED
  BY <1>1, <1>5, <1>6, <1>8, <1>9, <1>10, <1>11, ObserverAdvance

\* What is added to the last sample leaves the others, and its Pods, as they were.
LEMMA Amended ==
    ASSUME CellInv, files.timeline # <<>>, NEW line \in Lines,
           files' = [files EXCEPT !.timeline[Len(files.timeline)] = line],
           line.pods = files.timeline[Len(files.timeline)].pods
    PROVE  /\ DOMAIN files' = Fields /\ files'.before = files.before
           /\ files'.baseline = files.baseline /\ files'.drivers = files.drivers
           /\ files'.events = files.events /\ files'.summary = files.summary
           /\ files'.timeline \in Seq(Lines)
           /\ Len(files'.timeline) = Len(files.timeline)
           /\ Len(files.timeline) \in Nat \ {0}
           /\ files'.timeline[Len(files.timeline)] = line
           /\ \A i \in 1 .. Len(files.timeline) :
                 /\ files'.timeline[i].pods = files.timeline[i].pods
                 /\ i < Len(files.timeline) => files'.timeline[i] = files.timeline[i]
<1>1. DOMAIN files = Fields /\ files.timeline \in Seq(Lines)
  BY DEF CellInv, CellTypeOK
<1>2. /\ DOMAIN files' = Fields /\ files'.before = files.before
      /\ files'.baseline = files.baseline /\ files'.drivers = files.drivers
      /\ files'.events = files.events /\ files'.summary = files.summary
      /\ files'.timeline = [files.timeline EXCEPT ![Len(files.timeline)] = line]
  BY <1>1 DEF Fields
<1>3. Len(files.timeline) \in Nat \ {0}
  BY <1>1
<1>. QED
  BY <1>1, <1>2, <1>3

LEMMA ObserverAmends ==
    ASSUME CellInv, NEW line \in Lines, NEW to \in ObserverSteps \X (0 .. K),
           MatrixCell!ObserverStep(to),
           files' = [files EXCEPT !.timeline[Len(files.timeline)] = line],
           line.pods = files.timeline[Len(files.timeline)].pods,
           observer[1] \in {"deployment", "nodes", "events"},
           \/ /\ observer[1] = "deployment" /\ to = <<"node", observer[2]>>
              /\ MatrixCell!SnapshotValid(line.pods, Uids)
           \/ observer[1] = "nodes" /\ to = <<"events", observer[2]>>
           \/ /\ observer[1] = "events" /\ line.events = pods
              /\ \/ observer[2] < K /\ to = <<"wait", observer[2] + 1>>
                 \/ observer[2] = K /\ to = <<"gone", observer[2]>>
              /\ ~MatrixCell!Warned(files.baseline, line.events, Uids)
    PROVE  CellInv'
<1> DEFINE n == Len(files.timeline)
<1>1. /\ observer' = to /\ observer'[1] = to[1] /\ observer'[2] = to[2]
      /\ UNCHANGED <<now, pods, nodeReady, faults, hurt, runner, start>>
      /\ observer[2] \in 0 .. K /\ K \in Nat
  BY ConstantFacts DEF MatrixCell!ObserverStep, MatrixCell!cluster, CellInv, CellTypeOK
<1>2. n = observer[2] /\ observer[2] > 0 /\ files.timeline # <<>>
  <2>1. n = observer[2] /\ observer[2] > 0
    BY DEF CellInv, Position
  <2>2. Len(<<>>) = 0
    OBVIOUS
  <2>. QED
    BY <2>1, <2>2
<1>3. /\ DOMAIN files' = Fields /\ files'.before = files.before
      /\ files'.baseline = files.baseline /\ files'.drivers = files.drivers
      /\ files'.events = files.events /\ files'.summary = files.summary
      /\ files'.timeline \in Seq(Lines) /\ Len(files'.timeline) = n /\ n \in Nat \ {0}
      /\ files'.timeline[n] = line
      /\ \A i \in 1 .. n : /\ files'.timeline[i].pods = files.timeline[i].pods
                           /\ i < n => files'.timeline[i] = files.timeline[i]
  BY <1>2, Amended
<1>4. Position'
  BY <1>1, <1>2, <1>3 DEF CellInv, Position
<1>5. SamplesChecked'
  <2>1. Uids' = Uids
    BY <1>3 DEF Uids
  <2>2. ASSUME NEW i \in 1 .. n, i < n
        PROVE  /\ MatrixCell!SnapshotValid(files.timeline[i].pods, Uids)'
               /\ ~MatrixCell!Warned(files.baseline, files.timeline[i].events, Uids)'
    <3>1. /\ MatrixCell!SnapshotValid(files.timeline[i].pods, Uids)
          /\ ~MatrixCell!Warned(files.baseline, files.timeline[i].events, Uids)
      BY <2>2 DEF CellInv, SamplesChecked, Past
    <3>. QED
      BY <1>1, <1>3, <2>2, <3>1, SamplesStay
  <2>3. ASSUME NEW i, i = n
        PROVE  MatrixCell!SnapshotValid(files.timeline[i].pods, Uids)'
                   = MatrixCell!SnapshotValid(line.pods, Uids)
    <3>1. files'.timeline[i].pods = line.pods
      BY <1>3, <2>3
    <3>. QED
      BY <2>1, <3>1, ZenonT(60) DEF MatrixCell!SnapshotValid, MatrixCell!Uids, MatrixCell!Healthy
  <2>4. MatrixCell!SnapshotValid(line.pods, Uids)
    <3>1. CASE observer[1] \in {"nodes", "events"}
      BY <1>3, <3>1 DEF CellInv, SamplesChecked, Past
    <3>. QED
      BY <3>1
  <2>5. ASSUME NEW i, i = n
        PROVE  MatrixCell!Warned(files.baseline, files.timeline[i].events, Uids)'
                   = MatrixCell!Warned(files.baseline, line.events, Uids)
    BY <1>3, <2>1, <2>5 DEF MatrixCell!Warned
  <2>6. observer'[1] \in {"wait", "pods", "gone"} =>
            ~MatrixCell!Warned(files.baseline, line.events, Uids)
    BY <1>1
  <2>7. \A i \in 1 .. Len(files'.timeline) : (i \in 1 .. n /\ i < n) \/ i = n
    BY <1>3
  <2>8. ASSUME NEW i, i = n
        PROVE  Past(i, {"wait", "pods", "gone"})' => observer'[1] \in {"wait", "pods", "gone"}
    BY <1>3, <2>8 DEF Past
  <2>. QED
    BY <2>2, <2>3, <2>4, <2>5, <2>6, <2>7, <2>8 DEF SamplesChecked
<1>6. Len(files'.timeline) = K =>
          Len(files.timeline) = K /\ files'.timeline[K].pods = files.timeline[K].pods
  BY <1>3
<1>7. observer'[1] = "gone" => files'.timeline[K].events = pods
  BY <1>1, <1>2, <1>3
<1>. QED
  BY <1>1, <1>3, <1>4, <1>5, <1>6, <1>7, ObserverAdvance

LEMMA ObserverReads ==
    ASSUME CellInv,
           MatrixCell!ReadDeployment \/ MatrixCell!ReadNodes \/ MatrixCell!ReadEvents
    PROVE  CellInv'
<1> USE DEF MatrixCell!At
<1> DEFINE n == Len(files.timeline)
           last == files.timeline[n]
<1>0. /\ observer \in ObserverSteps \X (0 .. K) /\ DOMAIN files = Fields
      /\ files.timeline \in Seq(Lines) /\ K \in Nat \ {0} /\ now \in Nat /\ nodeReady \in BOOLEAN
      /\ pods \in Snapshots
  BY ConstantFacts DEF CellInv, CellTypeOK
<1>1. observer[1] \in {"deployment", "nodes", "events"}
  BY DEF MatrixCell!ReadDeployment, MatrixCell!ReadNodes, MatrixCell!ReadEvents
<1>2. n = observer[2] /\ n > 0
  BY <1>1 DEF CellInv, Position
<1>3. last \in Lines
  BY <1>0, <1>2
<1>4. CASE MatrixCell!Give
  BY <1>1, <1>4, ObserverGives
<1>5. CASE MatrixCell!ReadDeployment /\ ~MatrixCell!Give
  <2> DEFINE ready == \A t \in MatrixCell!Targets : pods[t].ready
             line == [last EXCEPT !.available = ready]
  <2>1. /\ MatrixCell!SnapshotValid(last.pods, Uids)
        /\ MatrixCell!ObserverStep(<<"node", observer[2]>>)
        /\ files' = [files EXCEPT !.timeline[n].available = ready]
        /\ observer[1] = "deployment"
    BY <1>5 DEF MatrixCell!ReadDeployment, MatrixCell!Sample, Uids
  <2>2. ready \in BOOLEAN
    OBVIOUS
  <2> HIDE DEF ready
  <2>3. line \in Lines /\ line.pods = last.pods
    BY <1>3, <2>2 DEF Lines
  <2>4. files' = [files EXCEPT !.timeline[n] = line]
    BY <2>1
  <2>5. <<"node", observer[2]>> \in ObserverSteps \X (0 .. K)
    BY <1>0 DEF ObserverSteps
  <2> HIDE DEF line
  <2>. QED
    BY <2>1, <2>3, <2>4, <2>5, ObserverAmends
<1>6. CASE MatrixCell!ReadNodes
  <2> DEFINE line == [last EXCEPT !.nodes = nodeReady]
  <2>1. /\ MatrixCell!ObserverStep(<<"events", observer[2]>>)
        /\ files' = [files EXCEPT !.timeline[n].nodes = nodeReady]
        /\ observer[1] = "nodes"
    BY <1>6 DEF MatrixCell!ReadNodes, MatrixCell!Sample
  <2>2. line \in Lines /\ line.pods = last.pods
    BY <1>0, <1>3 DEF Lines
  <2>3. files' = [files EXCEPT !.timeline[n] = line]
    BY <2>1
  <2>4. <<"events", observer[2]>> \in ObserverSteps \X (0 .. K)
    BY <1>0 DEF ObserverSteps
  <2> HIDE DEF line
  <2>. QED
    BY <2>1, <2>2, <2>3, <2>4, ObserverAmends
<1>7. CASE MatrixCell!ReadEvents /\ ~MatrixCell!Give
  <2> DEFINE line == [last EXCEPT !.events = pods, !.observed = now]
  <2>1. /\ ~MatrixCell!Warned(files.baseline, pods, Uids)
        /\ MatrixCell!ObserverStep(MatrixCell!Next1)
        /\ files' = [files EXCEPT !.timeline[n].events = pods, !.timeline[n].observed = now]
        /\ observer[1] = "events"
    BY <1>7 DEF MatrixCell!ReadEvents, MatrixCell!Sample, Uids
  <2>2. line \in Lines /\ line.pods = last.pods /\ line.events = pods
    BY <1>0, <1>3 DEF Lines
  <2>3. files' = [files EXCEPT !.timeline[n] = line]
    BY <1>0, <1>2, <2>1 DEF Fields
  <2>4. \/ observer[2] < K /\ MatrixCell!Next1 = <<"wait", observer[2] + 1>>
        \/ observer[2] = K /\ MatrixCell!Next1 = <<"gone", observer[2]>>
    BY <1>0 DEF MatrixCell!Next1, K
  <2>5. MatrixCell!Next1 \in ObserverSteps \X (0 .. K)
    BY <1>0, <2>4 DEF ObserverSteps
  <2> HIDE DEF line
  <2>. QED
    BY <2>1, <2>2, <2>3, <2>4, <2>5, ObserverAmends
<1>. QED
  BY <1>4, <1>5, <1>6, <1>7

LEMMA CellInitially == MCInit => CellInv
<1> SUFFICES ASSUME MatrixCell!CellInit PROVE CellInv
  BY DEF MCInit
<1> DEFINE pod == [uid |-> 1, restarts |-> 0, ready |-> TRUE, warnings |-> <<1>>]
<1>1. /\ now = 0 /\ start = 0 /\ nodeReady = TRUE /\ hurt = {}
      /\ pods = [t \in Targets |-> pod]
      /\ runner = "targets" /\ observer = <<"anchor", 0>> /\ files = MatrixCell!NoFiles
  BY ConstantFacts DEF MatrixCell!CellInit
<1>2. pod \in Pods
  <2>1. <<1>> \in Seq(Nat) /\ Len(<<1>>) = 1
    OBVIOUS
  <2>2. ASSUME NEW w \in Seq(Nat), Len(w) = 1
        PROVE  [uid |-> 1, restarts |-> 0, ready |-> TRUE, warnings |-> w] \in Pods
    <3> DEFINE q == [uid |-> 1, restarts |-> 0, ready |-> TRUE, warnings |-> w]
    <3>1. q \in [uid : Nat \ {0}, restarts : Nat, ready : BOOLEAN, warnings : Seq(Nat)]
      OBVIOUS
    <3>2. q.uid = 1 /\ q.warnings = w
      OBVIOUS
    <3> HIDE DEF q
    <3>. QED
      BY <2>2, <3>1, <3>2 DEF Pods
  <2>. QED
    BY <2>1, <2>2
<1> HIDE DEF pod
<1>3. /\ DOMAIN files = Fields /\ files.before = <<>> /\ files.baseline = <<>>
      /\ files.timeline = <<>>
  BY <1>1 DEF MatrixCell!NoFiles, Fields
<1>4. CellTypeOK
  BY <1>1, <1>2, <1>3, ConstantFacts
  DEF CellTypeOK, Snapshots, RunnerSteps, ObserverSteps
<1>5. Position /\ Monotone /\ HurtIsSeen /\ GatesPassed
  BY <1>1, <1>3 DEF Position, Monotone, HurtIsSeen, GatesPassed
<1>6. SamplesChecked
  BY <1>3 DEF SamplesChecked
<1>. QED
  BY <1>4, <1>5, <1>6 DEF CellInv

LEMMA CellStepKeeps == CellInv /\ [MCNext]_allVars => CellInv'
<1>1. ASSUME CellInv, MatrixCell!CellNext PROVE CellInv'
  BY <1>1, ClusterSteps, RunnerBefore, RunnerAfter, SummaryAndVerdict, ObserverWaits,
     ObserverReadsPods, ObserverReads
  DEF MatrixCell!CellNext, MatrixCell!Runner, MatrixCell!Observe
<1>2. ASSUME CellInv, UNCHANGED cellVars PROVE CellInv'
  <2>1. UNCHANGED <<now, pods, nodeReady, faults, hurt, runner, observer, start, files>>
    BY <1>2 DEF cellVars
  <2>2. \A t \in Targets : Later(pods[t], pods'[t])
    BY <1>2, <2>1, LaterFacts DEF CellInv, CellTypeOK, Snapshots
  <2>. QED
    BY <1>2, <2>1, <2>2, PodsAdvance DEF CellInv, CellTypeOK
<1>. QED
  BY <1>1, <1>2 DEF MCNext, allVars, CellStep

\* The invariant of a cell, its runner, its observer and its files.
THEOREM CellInvariant == MCSpec => []CellInv
<1>. QED
  BY CellInitially, CellStepKeeps, PTL DEF MCSpec

\* A cell whose files recompute shows targets that nothing happened to, whatever
\* their number, the recovery delays and the number of disturbances: what disturbs a
\* Pod after the first snapshot stays visible in it, and the last sample reads it.
THEOREM ValidCellUndisturbed == MCSpec => []ValidIsUndisturbed
<1>1. CellInv => ValidIsUndisturbed
  <2> SUFFICES ASSUME CellInv, runner = "attested", MatrixCell!Errors = {}
               PROVE  hurt = {}
    BY DEF ValidIsUndisturbed, MatrixCell!ValidIsUndisturbed
  <2>1. observer[1] = "gone" /\ observer[2] = K /\ Len(files.timeline) = K /\ K \in Nat \ {0}
    BY ConstantFacts DEF CellInv, Position
  <2>2. files.before \in Snapshots /\ files.timeline[K] \in Lines /\ K \in DOMAIN files.timeline
    BY <2>1 DEF CellInv, CellTypeOK, Position
  <2>3. "health" \notin MatrixCell!RecoveryErrors /\ "warnings" \notin MatrixCell!RecoveryErrors
    BY DEF MatrixCell!Errors
  <2>4. MatrixCell!SnapshotValid(files.timeline[K].pods, Uids)
    BY <2>2, <2>3 DEF MatrixCell!RecoveryErrors, Uids
  <2>5. ~MatrixCell!Warned(files.baseline, files.timeline[K].events, Uids)
    BY <2>2, <2>3 DEF MatrixCell!RecoveryErrors, Uids
  <2>6. files.timeline[K].pods \in Snapshots
    BY <2>2 DEF Lines
  <2>7. ~Disturbed(files.timeline[K].pods)
    <3>1. \A t \in Targets : /\ files.timeline[K].pods[t].uid = files.before[t].uid
                             /\ files.timeline[K].pods[t].restarts = 0
      BY <2>2, <2>4, <2>6, SnapshotFacts DEF MatrixCell!SnapshotValid, Uids
    <3>. QED
      BY <3>1 DEF Disturbed
  <2>8. "restart" \notin hurt /\ "replace" \notin hurt /\ "warning" \notin hurt
    BY <2>1, <2>5, <2>7 DEF CellInv, HurtIsSeen
  <2>. QED
    BY <2>8 DEF CellInv, CellTypeOK
<1>. QED
  BY <1>1, CellInvariant, PTL

\* What the harness attests the analysis of the files recomputes, but for what it
\* alone looks at: every other check is the harness's own, or one that the cell
\* runner and the observer made before they went on.
THEOREM AttestedCellRecomputes == MCSpec => []AttestedRecomputes
<1>1. CellInv => AttestedRecomputes
  <2> SUFFICES ASSUME CellInv, runner = "attested"
               PROVE  MatrixCell!Errors \subseteq {"deployment", "nodes"}
    BY DEF AttestedRecomputes, MatrixCell!AttestedRecomputes
  <2>1. MatrixCell!HarnessAccepts
    BY DEF CellInv, GatesPassed
  <2>2. MatrixCell!DriverErrors = {}
    BY <2>1 DEF MatrixCell!HarnessAccepts, MatrixCell!DriverErrors, CellInv, GatesPassed
  <2>3. MatrixCell!TargetErrors = {}
    <3>1. files.before \in Snapshots /\ MatrixCell!Healthy(files.before)
      BY DEF CellInv, CellTypeOK, Position, Monotone
    <3>2. MatrixCell!SnapshotValid(files.before, Uids)
      BY <3>1 DEF MatrixCell!SnapshotValid, Uids
    <3>3. ~MatrixCell!Warned(files.baseline, files.events, Uids)
      BY DEF CellInv, GatesPassed
    <3>. QED
      BY <2>1, <3>2, <3>3 DEF MatrixCell!HarnessAccepts, MatrixCell!TargetErrors, Uids
  <2>4. MatrixCell!RecoveryErrors \subseteq {"deployment", "nodes"}
    <3>1. observer[1] = "gone" /\ DOMAIN files.timeline = 1 .. Len(files.timeline)
      BY DEF CellInv, CellTypeOK, Position
    <3>2. \A i \in DOMAIN files.timeline :
             /\ MatrixCell!SnapshotValid(files.timeline[i].pods, Uids)
             /\ ~MatrixCell!Warned(files.baseline, files.timeline[i].events, Uids)
      BY <3>1 DEF CellInv, SamplesChecked, Past
    <3>3. /\ Len(files.timeline) = Len(Checkpoints)
          /\ \A i \in DOMAIN files.timeline : MatrixCell!OnTime(i)
      BY <2>1 DEF MatrixCell!HarnessAccepts
    <3>. QED
      BY <3>2, <3>3 DEF MatrixCell!RecoveryErrors, Uids
  <2>. QED
    BY <2>2, <2>3, <2>4 DEF MatrixCell!Errors
<1>. QED
  BY <1>1, CellInvariant, PTL

-----------------------------------------------------------------------------
(* The sweep.                                                              *)

\* A non-empty set of instants has a last one.
LEMMA LastInstant ==
    ASSUME NEW D \in Nat, NEW S \in SUBSET (0 .. D), S # {}
    PROVE  Max(S) \in S /\ \A x \in S : x <= Max(S)
<1> DEFINE Above == {n \in Nat : \A x \in S : x <= n}
<1>1. Above \subseteq Nat /\ Above # {}
  <2>1. D \in Above
    OBVIOUS
  <2>. QED
    BY <2>1
<1>2. \E n \in Above : \A m \in Above : ~(<<m, n>> \in OpToRel(<, Nat))
  BY <1>1, NatLessThanWellFounded, WFMin
<1>3. PICK n \in Above : \A m \in Above : ~(m < n)
  BY <1>2 DEF OpToRel
<1>4. n \in S
  <2> SUFFICES ASSUME n \notin S PROVE FALSE
    OBVIOUS
  <2>1. \A x \in S : x \in Nat /\ x <= n - 1
    BY <1>3
  <2>2. PICK x \in S : x \in Nat /\ x <= n - 1
    BY <2>1
  <2>3. n \in Nat /\ n - 1 \in Nat
    BY <1>3, <2>2
  <2>4. n - 1 \in Above
    BY <2>1, <2>3
  <2>. QED
    BY <1>3, <2>3, <2>4
<1>5. \E x \in S : \A y \in S : x >= y
  BY <1>3, <1>4
<1>6. Max(S) \in S /\ \A y \in S : Max(S) >= y
  BY <1>5 DEF Max
<1>. QED
  BY <1>6

\* What is known of a cell: its points show its event within the age of a value.
ShownInTime(c) ==
    /\ c.event \in Events /\ c.samples \in SUBSET Instants
    /\ c.event.kind # "none" => \E age \in 0 .. MaxAge : c.shows = c.event.at + age

\* What the telemetry of a cell shows of its target: up to the last gap and the age of a
\* value it was there, and it was the Pod that the gate had looked at.
LEMMA TelemetryCovers ==
    ASSUME NEW c, ShownInTime(c), Attested(c)
    PROVE  c.event.at > Duration - MaxGap - MaxAge
<1> DEFINE times == SeriesWindow(c)
<1>1. times \in SUBSET (0 .. Duration) /\ times # {} /\ Duration - Max(times) <= MaxGap
  BY DEF Attested, ValidateTelemetry, ValidateCompleteSeries, SeriesWindow, Instants, ShownInTime
<1>2. Max(times) \in times /\ Max(times) \in 0 .. Duration
  BY <1>1, LastInstant, SweepConstants
<1>3. CASE c.event.kind = "none"
  <2>1. c.event.at = Duration + 1
    BY <1>3 DEF Events, ShownInTime
  <2>. QED
    BY <2>1, SweepConstants
<1>4. CASE c.event.kind \in {"restart", "replaced"}
  <2>1. c.event.at \in -2 .. Duration
    BY <1>4 DEF Events, ShownInTime
  <2>2. Max(times) < c.shows
    BY <1>2, <1>4 DEF Attested, ValidateTelemetry, SeriesWindow
  <2>3. PICK age \in 0 .. MaxAge : c.shows = c.event.at + age
    BY <1>4 DEF ShownInTime
  <2>. QED
    BY <1>1, <1>2, <2>1, <2>2, <2>3, SweepConstants
<1>. QED
  BY <1>3, <1>4 DEF Events, ShownInTime

CellShape == ShownInTime(cell)
ServedInv == CellShape /\ AttestedPodServedThePlateau

LEMMA SoundShape ==
    ASSUME NEW r, NEW outcome
    PROVE  /\ ShownInTime(Sound(r, outcome)) /\ Sound(r, outcome).event.kind = "none"
           /\ DOMAIN Sound(r, outcome) = {"outcome", "onSchedule", "event", "shows", "samples",
                                           "preflight", "report", "agrees", "signature", "base"}
<1>1. \E e \in Events : e.kind = "none"
  <2>1. [kind |-> "none", at |-> Duration + 1] \in Events
    BY DEF Events
  <2>. QED
    BY <2>1
<1>. QED
  BY <1>1 DEF Sound, ShownInTime

LEMMA DisturbedShape ==
    ASSUME NEW r, NEW outcome, DisturbedCell(Sound(r, outcome))
    PROVE  ShownInTime(cell')
<1> DEFINE s == Sound(r, outcome)
<1>1. /\ s.event \in Events /\ s.samples \in SUBSET Instants /\ s.event.kind = "none"
      /\ DOMAIN s = {"outcome", "onSchedule", "event", "shows", "samples", "preflight",
                     "report", "agrees", "signature", "base"}
  BY SoundShape DEF ShownInTime
<1>2. DisturbedCell(s)
  OBVIOUS
<1> HIDE DEF s
<1>3. CASE \E e \in Events, times \in SUBSET Instants, age \in 0 .. MaxAge :
              cell' = [s EXCEPT !.event = e, !.shows = e.at + age, !.samples = times]
  BY <1>1, <1>3 DEF ShownInTime
<1>4. CASE cell' \in {[s EXCEPT !.onSchedule = FALSE], [s EXCEPT !.agrees = FALSE],
                      [s EXCEPT !.signature = 2], [s EXCEPT !.base = @ - 1]}
  BY <1>1, <1>4 DEF ShownInTime
<1>5. CASE \E gate \in {"pass", "fail", "missing"}, onDisk \in {"pass", "fail", "other"} :
              cell' = [s EXCEPT !.preflight = gate, !.report = onDisk]
  BY <1>1, <1>5 DEF ShownInTime
<1>. QED
  BY <1>2, <1>3, <1>4, <1>5 DEF DisturbedCell

\* A cell that is attested was served, without a restart, by the Pod that the gate
\* looked at up to the last gap of its telemetry and the age of a value, for every
\* plateau, gap and age.
THEOREM AttestedPodServed == Spec => []AttestedPodServedThePlateau
<1>1. Init => ServedInv
  BY SoundShape DEF Init, ServedInv, CellShape, AttestedPodServedThePlateau
<1>2. ServedInv /\ [Next]_vars => ServedInv'
  <2> SUFFICES ASSUME ServedInv, [Next]_vars PROVE ServedInv'
    OBVIOUS
  <2> USE DEF ServedInv, CellShape, AttestedPodServedThePlateau
  <2>1. CASE RunCell
    <3>1. PICK outcome \in Outcomes :
              cell' = Sound(row, outcome) \/ DisturbedCell(Sound(row, outcome))
      BY <2>1 DEF RunCell
    <3>. QED
      BY <2>1, <3>1, SoundShape, DisturbedShape DEF RunCell
  <2>2. CASE ValidateCell
    BY <2>2, TelemetryCovers DEF ValidateCell
  <2>3. CASE Refuse
    BY <2>3 DEF Refuse
  <2>4. CASE Summarize
    BY <2>4 DEF Summarize
  <2>5. CASE InferKnee
    BY <2>5 DEF InferKnee, Confirmed, CapacityTriggered, NextPoint, NotReached
  <2>6. CASE UNCHANGED vars
    BY <2>6 DEF vars
  <2>. QED
    BY <2>1, <2>2, <2>3, <2>4, <2>5, <2>6 DEF Next
<1>3. ServedInv => AttestedPodServedThePlateau
  BY DEF ServedInv
<1>. QED
  BY <1>1, <1>2, <1>3, PTL DEF Spec

\* The rates of the plan are finitely many.
LEMMA RatesCounted == Len(Rates) \in Nat
<1>1. Offered = {Plan[i] : i \in 1 .. Len(Plan)}
  BY SweepConstants DEF Offered, ToSet
<1>2. IsFiniteSet(1 .. Len(Plan))
  BY FS_Interval, SweepConstants
<1> DEFINE f == [i \in 1 .. Len(Plan) |-> Plan[i]]
<1>3. f \in Surjection(1 .. Len(Plan), Offered)
  BY <1>1 DEF Surjection
<1>4. Cardinality(Offered) \in Nat
  BY <1>2, <1>3, FS_Surjection, FS_CardinalityType
<1>. QED
  BY <1>4 DEF Rates

\* What a rate shows depends on the attested cells only.
LEMMA SignalsStay ==
    ASSUME UNCHANGED records, NEW k
    PROVE  Stressed(k)' = Stressed(k) /\ Elevated(k)' = Elevated(k)
<1>1. ASSUME NEW j PROVE CellsOf(j)' = CellsOf(j)
  BY DEF CellsOf
<1>2. ASSUME NEW j PROVE Aggregate(j)' = Aggregate(j)
  BY <1>1 DEF Aggregate
<1>3. Aggregate(k)' = Aggregate(k) /\ Aggregate(k - 1)' = Aggregate(k - 1)
      /\ Aggregate(1)' = Aggregate(1)
  BY <1>2
<1>. QED
  BY <1>3 DEF Stressed, Elevated

\* The rates that have been passed show no signal; the last of them may be held.
WalkInv ==
    pc = "infer" =>
        /\ point \in 2 .. Len(Rates) + 1
        /\ \A k \in 2 .. point - 1 : ~Stressed(k)
        /\ \A k \in 2 .. point - 2 : ~(Elevated(k) /\ Elevated(k + 1))
        /\ pending # 0 => \A k : k = pending => k = point - 1 /\ k >= 2 /\ Elevated(k)
        /\ \A k : k = point - 1 /\ k >= 2 /\ Elevated(k) => pending = k
KneeInv ==
    /\ pc \in {"run", "validate", "summarize", "error"} => pending = 0
    /\ WalkInv
    /\ KneeIsTheFirstSignal

LEMMA LowestSignal ==
    ASSUME NEW S \in SUBSET Nat, NEW k \in S, \A j \in S : k <= j
    PROVE  Min(S) = k
<1>1. \E x \in S : \A y \in S : x <= y
  OBVIOUS
<1>2. Min(S) \in S /\ \A j \in S : Min(S) <= j
  BY <1>1 DEF Min
<1>3. Min(S) <= k /\ k <= Min(S) /\ Min(S) \in Nat /\ k \in Nat
  BY <1>2
<1>. QED
  BY <1>3

\* The knee is bracketed at the first rate above the lowest one that shows a capacity
\* signal, or whose elevated latency the next rate confirms: for every plan, and
\* whatever its cells have measured.
THEOREM KneeAtFirstSignal == Spec => []KneeIsTheFirstSignal
<1> DEFINE Signals == {k \in 2 .. Len(Rates) :
                          Stressed(k) \/ (k < Len(Rates) /\ Elevated(k) /\ Elevated(k + 1))}
<1>1. Init => KneeInv
  BY DEF Init, KneeInv, WalkInv, KneeIsTheFirstSignal, NoBracket
<1>2. KneeInv /\ [Next]_vars => KneeInv'
  <2> SUFFICES ASSUME KneeInv, [Next]_vars PROVE KneeInv'
    OBVIOUS
  <2>1. CASE RunCell \/ ValidateCell \/ Refuse
    BY <2>1 DEF RunCell, ValidateCell, Refuse, KneeInv, WalkInv, KneeIsTheFirstSignal
  <2>2. CASE Summarize
    <3>1. /\ pc = "summarize" /\ pc' \in {"error", "infer", "done"} /\ point' = 2
          /\ pc' = "infer" => Len(Rates) >= 2
          /\ pc' = "done" => knee'.status = "not_evaluable"
          /\ pending' = 0
      BY <2>2 DEF Summarize, Evaluable, NoBracket, KneeInv
    <3>2. WalkInv'
      <4>1. Rates' = Rates
        OBVIOUS
      <4>2. 2 .. point' - 1 = {} /\ 2 .. point' - 2 = {} /\ ~(point' - 1 >= 2)
        BY <3>1
      <4>. QED
        BY <3>1, <4>1, <4>2, RatesCounted DEF WalkInv
    <3>3. KneeIsTheFirstSignal'
      BY <3>1 DEF KneeIsTheFirstSignal
    <3>. QED
      BY <3>1, <3>2, <3>3 DEF KneeInv
  <2>3. ASSUME pc = "infer", UNCHANGED <<records>>
        PROVE  \A k : Stressed(k)' = Stressed(k) /\ Elevated(k)' = Elevated(k)
    BY <2>3, SignalsStay
  <2>4. ASSUME pc = "infer"
        PROVE  /\ point \in 2 .. Len(Rates) + 1
               /\ \A k \in 2 .. point - 1 : ~Stressed(k)
               /\ \A k \in 2 .. point - 2 : ~(Elevated(k) /\ Elevated(k + 1))
               /\ pending # 0 => pending = point - 1 /\ pending >= 2 /\ Elevated(pending)
               /\ point > 2 /\ Elevated(point - 1) => pending = point - 1
               /\ pending # 0 => \A k : k = pending => k = point - 1 /\ k >= 2 /\ Elevated(k)
               /\ \A k : k = point - 1 /\ k >= 2 /\ Elevated(k) => pending = k
    <3>1. /\ point \in 2 .. Len(Rates) + 1
          /\ \A k \in 2 .. point - 1 : ~Stressed(k)
          /\ \A k \in 2 .. point - 2 : ~(Elevated(k) /\ Elevated(k + 1))
          /\ pending # 0 => \A k : k = pending => k = point - 1 /\ k >= 2 /\ Elevated(k)
          /\ \A k : k = point - 1 /\ k >= 2 /\ Elevated(k) => pending = k
      BY <2>4 DEF KneeInv, WalkInv
    <3>2. point - 1 >= 2 <=> point > 2
      BY <3>1, RatesCounted
    <3>3. pending # 0 => pending = point - 1 /\ pending >= 2 /\ Elevated(pending)
      BY <3>1
    <3>4. ASSUME point > 2, Elevated(point - 1) PROVE pending = point - 1
      <4> DEFINE last == point - 1
      <4>1. last = point - 1 /\ last >= 2 /\ Elevated(last)
        BY <3>2, <3>4
      <4> HIDE DEF last
      <4>. QED
        BY <3>1, <4>1
    <3>. QED
      BY <3>1, <3>3, <3>4
  <2>5. ASSUME pc = "infer", pc' = "done", UNCHANGED records, NEW k \in Signals,
               \A j \in Signals : k <= j, knee'.upper = k, knee'.lower = k - 1
        PROVE  KneeInv'
    <3>1. KneeIsTheFirstSignal'
      <4>1. Signals' = Signals
        BY <2>3, <2>5
      <4>2. Min(Signals) = k
        BY <2>5, RatesCounted, LowestSignal
      <4>. QED
        BY <2>5, <4>1, <4>2 DEF KneeIsTheFirstSignal
    <3>. QED
      BY <2>5, <3>1 DEF KneeInv, WalkInv
  <2>6. CASE Confirmed
    <3>1. /\ pc = "infer" /\ point <= Len(Rates) /\ pending > 0 /\ Elevated(point)
          /\ knee'.upper = pending /\ knee'.lower = pending - 1
          /\ pc' = "done" /\ UNCHANGED records
      BY <2>6 DEF Confirmed, Bracket
    <3>2. pending = point - 1 /\ pending >= 2 /\ Elevated(pending)
      BY <2>4, <3>1
    <3>3. pending + 1 = point /\ pending \in 2 .. Len(Rates) /\ pending < Len(Rates)
      BY <2>4, <3>1, <3>2, RatesCounted
    <3>4. pending \in Signals
      BY <3>1, <3>2, <3>3
    <3>5. ASSUME NEW j \in Signals PROVE pending <= j
      <4> SUFFICES ASSUME j < pending PROVE FALSE
        BY <3>3
      <4>1. j \in 2 .. point - 2 /\ j \in 2 .. point - 1
        BY <2>4, <3>1, <3>2, RatesCounted
      <4>. QED
        BY <2>4, <3>1, <4>1
    <3>. QED
      BY <2>5, <3>1, <3>4, <3>5
  <2>7. CASE CapacityTriggered
    <3>1. /\ pc = "infer" /\ point <= Len(Rates) /\ ~(pending > 0 /\ Elevated(point))
          /\ Stressed(point) /\ knee'.upper = point /\ knee'.lower = point - 1
          /\ pc' = "done" /\ UNCHANGED records
      BY <2>7 DEF CapacityTriggered, Bracket
    <3>2. point \in 2 .. Len(Rates)
      BY <2>4, <3>1, RatesCounted
    <3>3. point \in Signals
      BY <3>1, <3>2
    <3>4. ASSUME NEW j \in Signals PROVE point <= j
      <4> SUFFICES ASSUME j < point PROVE FALSE
        BY <3>2
      <4>1. j \in 2 .. point - 1 /\ (j = point - 1 \/ j \in 2 .. point - 2)
        BY <3>2, RatesCounted
      <4>2. ~Stressed(j) /\ Elevated(j) /\ Elevated(j + 1)
        BY <2>4, <3>1, <4>1
      <4>3. j = point - 1 /\ j + 1 = point
        BY <2>4, <3>1, <3>2, <4>1, <4>2
      <4>4. pending = point - 1 /\ point > 2
        BY <2>4, <3>1, <3>2, <4>1, <4>2, <4>3
      <4>. QED
        BY <3>1, <3>2, <4>2, <4>3, <4>4
    <3>. QED
      BY <2>5, <3>1, <3>3, <3>4
  <2>8. CASE NextPoint
    <3>1. /\ pc = "infer" /\ point <= Len(Rates) /\ ~(pending > 0 /\ Elevated(point))
          /\ ~Stressed(point) /\ pending' = (IF Elevated(point) THEN point ELSE 0)
          /\ point' = point + 1 /\ UNCHANGED <<pc, records, knee>>
      BY <2>8 DEF NextPoint, Held
    <3>2. point \in 2 .. Len(Rates) /\ point \in Nat
      BY <2>4, <3>1, RatesCounted
    <3>3. \A k : Stressed(k)' = Stressed(k) /\ Elevated(k)' = Elevated(k)
      BY <3>1, SignalsStay
    <3>4. point' \in 2 .. Len(Rates) + 1
      BY <3>1, <3>2, RatesCounted
    <3>5. \A k \in 2 .. point' - 1 : ~Stressed(k)
      <4>1. \A k \in 2 .. point' - 1 : k \in 2 .. point - 1 \/ k = point
        BY <3>1, <3>2
      <4>. QED
        BY <2>4, <3>1, <4>1
    <3>6. \A k \in 2 .. point' - 2 : ~(Elevated(k) /\ Elevated(k + 1))
      <4>1. \A k \in 2 .. point' - 2 :
               k \in 2 .. point - 2 \/ (k = point - 1 /\ k + 1 = point /\ point > 2)
        BY <3>1, <3>2
      <4>2. ~(point > 2 /\ Elevated(point - 1) /\ Elevated(point))
        BY <2>4, <3>1, <3>2
      <4>. QED
        BY <2>4, <3>1, <4>1, <4>2
    <3>7. pending' # 0 => \A k : k = pending' => k = point' - 1 /\ k >= 2 /\ Elevated(k)
      BY <3>1, <3>2
    <3>8. \A k : k = point' - 1 /\ k >= 2 /\ Elevated(k) => pending' = k
      BY <3>1, <3>2
    <3>9. WalkInv'
      BY <3>3, <3>4, <3>5, <3>6, <3>7, <3>8 DEF WalkInv
    <3>. QED
      BY <3>1, <3>9 DEF KneeInv, KneeIsTheFirstSignal
  <2>9. CASE NotReached
    <3>1. /\ pc = "infer" /\ point > Len(Rates) /\ knee'.status = "not_reached"
          /\ pc' = "done" /\ UNCHANGED records
      BY <2>9 DEF NotReached, NoBracket
    <3>2. point - 1 = Len(Rates)
      BY <2>4, <3>1, RatesCounted
    <3>3. Signals = {}
      <4> SUFFICES ASSUME NEW k \in Signals PROVE FALSE
        OBVIOUS
      <4>1. point \in 2 .. Len(Rates) + 1
        BY <2>4, <3>1
      <4>2. k \in 2 .. Len(Rates) /\ (Stressed(k) \/ k < Len(Rates))
        OBVIOUS
      <4>3. k \in 2 .. point - 1 /\ (k < Len(Rates) => k \in 2 .. point - 2)
        BY <3>2, <4>1, <4>2, RatesCounted
      <4>. QED
        BY <2>4, <3>1, <4>3
    <3>4. Signals' = Signals
      BY <2>3, <3>1
    <3>5. KneeIsTheFirstSignal'
      BY <3>1, <3>3, <3>4 DEF KneeIsTheFirstSignal
    <3>. QED
      BY <3>1, <3>5 DEF KneeInv, WalkInv
  <2>10. CASE UNCHANGED vars
    <3>1. UNCHANGED <<pc, records, point, pending, knee>>
      BY <2>10 DEF vars
    <3>2. \A k : Stressed(k)' = Stressed(k) /\ Elevated(k)' = Elevated(k)
      BY <3>1, SignalsStay
    <3>3. Signals' = Signals
      BY <3>2
    <3>4. WalkInv'
      BY <3>1, <3>2 DEF KneeInv, WalkInv
    <3>5. KneeIsTheFirstSignal'
      BY <3>1, <3>3 DEF KneeInv, KneeIsTheFirstSignal
    <3>. QED
      BY <3>1, <3>4, <3>5 DEF KneeInv
  <2>. QED
    BY <2>1, <2>2, <2>6, <2>7, <2>8, <2>9, <2>10 DEF Next, InferKnee
<1>3. KneeInv => KneeIsTheFirstSignal
  BY DEF KneeInv
<1>. QED
  BY <1>1, <1>2, <1>3, PTL DEF Spec
=============================================================================
