-------------------------- MODULE BoundedAdmission --------------------------
(***************************************************************************)
(* What the bounded handoff promises its callers: at most Bound units of   *)
(* work are admitted at a time; a request is refused only when all of them *)
(* are; an admitted request is answered unless its client leaves; and a    *)
(* unit is given back only when no one waits for the work it stands for.   *)
(* If the executor may fail, it may give up several units in one step, and *)
(* then answers everybody who waited for them in that step.                *)
(* Threads, channel, semaphore and counters are not mentioned.             *)
(***************************************************************************)
EXTENDS Naturals, FiniteSets

CONSTANTS Handlers, Bound, MayFail

VARIABLES
    load,    \* units of admitted work
    status   \* "idle", "entering", "admitted" or "answered", per handler

vars == <<load, status>>

Waiting == {h \in Handlers : status[h] = "admitted"}

Init == load = 0 /\ status = [h \in Handlers |-> "idle"]

Moves(h, from, to) == status[h] = from /\ status' = [status EXCEPT ![h] = to]

Enter(h)  == Moves(h, "idle", "entering") /\ UNCHANGED load
Admit(h)  == load < Bound /\ Moves(h, "entering", "admitted") /\ load' = load + 1
Refuse(h) == load = Bound /\ Moves(h, "entering", "idle") /\ UNCHANGED load
Answer(h) == Moves(h, "admitted", "answered") /\ UNCHANGED load
Leave(h)  == Moves(h, "answered", "idle") /\ UNCHANGED load
Abandon(h) == Moves(h, "admitted", "idle") /\ UNCHANGED load
Release   == /\ load > Cardinality(Waiting)
             /\ load' = load - 1
             /\ UNCHANGED status

GiveUp(gone) ==
    /\ MayFail
    /\ status' = [h \in Handlers |-> IF h \in gone THEN "answered" ELSE status[h]]
    /\ load' \in Cardinality(Waiting \ gone) .. load - Cardinality(gone)

Decide(h) == Admit(h) \/ Refuse(h)

Next ==
    \/ Release
    \/ \E gone \in SUBSET Waiting : GiveUp(gone)
    \/ \E h \in Handlers :
          Enter(h) \/ Decide(h) \/ Answer(h) \/ Leave(h) \/ Abandon(h)

Spec ==
    /\ Init /\ [][Next]_vars
    /\ WF_vars(Release)
    /\ \A h \in Handlers : WF_vars(Decide(h)) /\ WF_vars(Answer(h)) /\ WF_vars(Leave(h))
=============================================================================
