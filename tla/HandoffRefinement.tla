------------------------- MODULE HandoffRefinement -------------------------
(***************************************************************************)
(* The executor of handoff.rs implements BoundedAdmission, and the one     *)
(* that may fail when a forward may panic.  The refinement mapping: the    *)
(* load is what the semaphore has handed out, and a handler is admitted    *)
(* from the step that takes the permit to the step that delivers its       *)
(* answer, or that hands its job back because no thread is left.           *)
(***************************************************************************)
EXTENDS Handoff

AdmissionStatus(state) ==
    CASE state = "acquire" -> "entering"
      [] state \in {"count", "store", "metric_max", "max", "send", "awaiting"} -> "admitted"
      [] state \in {"uncount", "unstore", "answered"} -> "answered"
      [] OTHER -> "idle"

Admission == INSTANCE BoundedAdmission WITH
    MayFail <- ForwardMayPanic,
    load   <- Bound - permits,
    status <- [h \in Handlers |-> AdmissionStatus(pc[h])]

\* Every behaviour of the executor and its handlers, fairly scheduled, is one
\* that BoundedAdmission allows, its liveness included (handoff.rs module doc:
\* "Queue admission beyond the configured bound is rejected explicitly; the
\* total of in-flight + queued work never exceeds the configured bound").
ImplementsAdmission == Admission!Spec

\* Its safety part, without the fairness.
AdmissionSafety == Admission!Init /\ [][Admission!Next]_(Admission!vars)
=============================================================================
