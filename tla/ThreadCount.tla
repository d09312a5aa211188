---------------------------- MODULE ThreadCount ----------------------------
(***************************************************************************)
(* How many threads are inside a set of states: the counting lemmas the    *)
(* conservation proofs rest on.                                            *)
(***************************************************************************)
EXTENDS Naturals, FiniteSets, FiniteSetTheorems, TLAPS

\* The number of elements of D whose state, under f, is in S.
CountIn(f, D, S) == Cardinality({d \in D : f[d] \in S})

Bit(b) == IF b THEN 1 ELSE 0

\* A count over finitely many threads is a natural number.
LEMMA CountIsNat ==
    ASSUME NEW D, IsFiniteSet(D), NEW f, NEW S
    PROVE  CountIn(f, D, S) \in Nat
<1>1. IsFiniteSet({d \in D : f[d] \in S})
  BY FS_Subset
<1> QED BY <1>1, FS_CardinalityType DEF CountIn

\* One thread that moves changes the number of threads inside S by one at most.
LEMMA MoveCount ==
    ASSUME NEW D, IsFiniteSet(D), NEW f, NEW g, NEW x \in D, NEW S,
           \A d \in D \ {x} : g[d] = f[d]
    PROVE  CountIn(g, D, S) + Bit(f[x] \in S) = CountIn(f, D, S) + Bit(g[x] \in S)
<1> DEFINE F == {d \in D : f[d] \in S}
           G == {d \in D : g[d] \in S}
           R == {d \in D \ {x} : f[d] \in S}
<1>1. IsFiniteSet(R) /\ x \notin R
  BY FS_Subset, FS_RemoveElement
<1>2. F = IF f[x] \in S THEN R \cup {x} ELSE R
  OBVIOUS
<1>3. G = IF g[x] \in S THEN R \cup {x} ELSE R
  OBVIOUS
<1>4. /\ Cardinality(R) \in Nat
      /\ Cardinality(R \cup {x}) = Cardinality(R) + 1
  BY <1>1, FS_AddElement, FS_CardinalityType
<1> HIDE DEF R, F, G
<1>5. Cardinality(F) = Cardinality(R) + Bit(f[x] \in S)
  BY <1>2, <1>4 DEF Bit
<1>6. Cardinality(G) = Cardinality(R) + Bit(g[x] \in S)
  BY <1>3, <1>4 DEF Bit
<1>7. Bit(f[x] \in S) \in Nat /\ Bit(g[x] \in S) \in Nat
  BY DEF Bit
<1>8. Cardinality(G) + Bit(f[x] \in S) = Cardinality(F) + Bit(g[x] \in S)
  BY <1>4, <1>5, <1>6, <1>7
<1> QED BY <1>8 DEF F, G, CountIn

\* Two sets in one-to-one correspondence have as many elements.
LEMMA AsMany ==
    ASSUME NEW S, IsFiniteSet(S), NEW T, NEW f,
           \A s \in S : f[s] \in T,
           \A s, t \in S : f[s] = f[t] => s = t,
           \A t \in T : \E s \in S : f[s] = t
    PROVE  Cardinality(T) = Cardinality(S) /\ IsFiniteSet(T)
<1> DEFINE g == [s \in S |-> f[s]]
<1>1. g \in Bijection(S, T)
  BY DEF Bijection, Injection, Surjection, IsInjective
<1> QED BY <1>1, FS_Bijection DEF ExistsBijection

\* The elements of two finite sets without a common one.
LEMMA Apart ==
    ASSUME NEW S, NEW T, IsFiniteSet(S), IsFiniteSet(T), S \cap T = {}
    PROVE  /\ Cardinality(S \cup T) = Cardinality(S) + Cardinality(T)
           /\ Cardinality(S) \in Nat /\ Cardinality(T) \in Nat
<1>1. /\ Cardinality(S \cup T) = Cardinality(S) + Cardinality(T) - Cardinality(S \cap T)
      /\ Cardinality(S) \in Nat /\ Cardinality(T) \in Nat
  BY FS_Union, FS_CardinalityType
<1>2. Cardinality(S \cap T) = 0
  BY FS_EmptySet
<1> QED BY <1>1, <1>2
=============================================================================
