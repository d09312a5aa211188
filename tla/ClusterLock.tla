----------------------------- MODULE ClusterLock -----------------------------
(***************************************************************************)
(* What sc-benchmark-matrix-lock promises the programs that share the      *)
(* cluster: nobody takes it from its holder, load begins under it only,    *)
(* and it is given back by its holder, without load or by one that knows   *)
(* that its cleanup failed.  The keepers promise more: once anything has   *)
(* failed they do not give it back at all.  Scripts, flags, Jobs and Pods  *)
(* are not mentioned.                                                      *)
(***************************************************************************)
CONSTANTS Programs, Keepers, NoOwner

VARIABLES
    holder,   \* who has the lock, or NoOwner
    loading,  \* the programs that have something on the cluster that loads it
    known     \* the programs that know that their cleanup failed

vars == <<holder, loading, known>>

Init == holder = NoOwner /\ loading = {} /\ known = {}

\* What a program knows it does not forget.
MayLearn(p) == known' \in {known, known \cup {p}}

Take(p) ==
    /\ holder = NoOwner /\ p \notin loading
    /\ holder' = p
    /\ UNCHANGED <<loading, known>>

Begin(p) ==
    /\ holder = p
    /\ loading' = loading \cup {p}
    /\ UNCHANGED <<holder, known>>

End(p) ==
    /\ loading' = loading \ {p}
    /\ MayLearn(p)
    /\ UNCHANGED holder

Give(p) ==
    /\ holder = p
    /\ holder' = NoOwner
    /\ MayLearn(p)
    /\ p \in loading => p \in known'
    /\ p \in Keepers => p \notin loading \cup known
    /\ UNCHANGED loading

Learn(p) ==
    /\ MayLearn(p)
    /\ UNCHANGED <<holder, loading>>

Next == \E p \in Programs : Take(p) \/ Begin(p) \/ End(p) \/ Give(p) \/ Learn(p)

Spec == Init /\ [][Next]_vars

----------------------------------------------------------------------------

\* Load beside the holder's is known to the program that left it, and no keeper's.
LoadIsOwned == \A p \in loading : holder # p => p \in known \ Keepers
=============================================================================
