---------------------------- MODULE OrderLemmas ----------------------------
(* Least and greatest elements of sets of numbers, which the proofs of the   *)
(* other modules cite whenever the code takes a minimum, a maximum or the    *)
(* first row of an ordered query.                                            *)
EXTENDS Naturals, FiniteSets, FiniteSetTheorems, TLAPS

WF == INSTANCE WellFoundedInduction

\* Every nonempty set of numbers has a least element.
LEMMA LeastExists ==
    ASSUME NEW S \in SUBSET Nat, S # {}
    PROVE  \E m \in S : \A u \in S : m <= u
<1>1. PICK m \in S : \A u \in S : <<u, m>> \notin WF!OpToRel(<, Nat)
  BY WF!NatLessThanWellFounded, WF!WFMin
<1>2. \A u \in S : ~(u < m)
  BY <1>1 DEF WF!OpToRel
<1> QED
  BY <1>2

\* A nonempty set of numbers bounded by k has a greatest element.
LEMMA GreatestBelow ==
    ASSUME NEW k \in Nat, NEW S \in SUBSET (0..k), S # {}
    PROVE  \E m \in S : \A u \in S : u <= m
<1> DEFINE T == {i \in Nat : k - i \in S}
<1>1. PICK s \in S : TRUE
  OBVIOUS
<1>2. k - s \in T
  BY <1>1, k - s \in Nat, k - (k - s) = s
<1>3. PICK i \in T : \A j \in T : i <= j
  BY <1>2, LeastExists
<1>4. \A u \in S : u <= k - i
  <2> TAKE u \in S
  <2>1. k - u \in T
    BY k - u \in Nat, k - (k - u) = u
  <2>2. i \in Nat /\ i <= k - u
    BY <2>1, <1>3
  <2> QED
    BY <2>2
<1> QED
  BY <1>3, <1>4

\* Every finite nonempty set of numbers has a greatest element.
LEMMA GreatestOfFinite ==
    ASSUME NEW S \in SUBSET Nat, IsFiniteSet(S), S # {}
    PROVE  \E m \in S : \A u \in S : u <= m
<1> DEFINE HasTop(U) == \E m \in U : \A u \in U : u <= m
           Bad == {U \in SUBSET S : U # {} /\ ~HasTop(U)}
<1>1. SUFFICES ASSUME Bad # {} PROVE FALSE
  OBVIOUS
<1>2. WF!IsWellFoundedOn(StrictSubsetOrdering(S), SUBSET S)
  BY FS_StrictSubsetOrderingWellFounded, FS_FiniteSubsetsOfFinite
     DEF WF!IsWellFoundedOn, IsWellFoundedOn
<1>3. PICK U \in Bad : \A V \in Bad : <<V, U>> \notin StrictSubsetOrdering(S)
  BY <1>1, <1>2, WF!WFMin
<1>4. PICK x \in U : TRUE
  OBVIOUS
<1>5. <<U \ {x}, U>> \in StrictSubsetOrdering(S)
  BY <1>4 DEF StrictSubsetOrdering
<1>6. U \ {x} \notin Bad
  BY <1>5, <1>3
<1>7. CASE U = {x}
  BY <1>7
<1>8. CASE U # {x}
  <2>1. PICK y \in U \ {x} : \A u \in U \ {x} : u <= y
    BY <1>6, <1>8, <1>4
  <2>2. CASE x <= y
    BY <2>1, <2>2
  <2>3. CASE ~(x <= y)
    <3>1. x \in Nat /\ y \in Nat
      BY <2>1, <1>4
    <3>2. \A u \in U : u <= x
      BY <2>1, <2>3, <3>1
    <3> QED
      BY <3>2, <1>4
  <2> QED
    BY <2>2, <2>3
<1> QED
  BY <1>7, <1>8

\* Induction along the indices of a sequence: what is not bad at 0, and turns bad at no
\* index, is not bad at any.
LEMMA NoneTurnsBad ==
    ASSUME NEW n \in Nat, NEW Bad, 0 \notin Bad,
           \A k \in 1..n : k - 1 \notin Bad => k \notin Bad
    PROVE  \A k \in 0..n : k \notin Bad
<1> DEFINE S == {k \in 0..n : k \in Bad}
<1> SUFFICES ASSUME S # {} PROVE FALSE
  OBVIOUS
<1>1. PICK m \in S : \A k \in S : m <= k
  BY LeastExists, S \in SUBSET Nat
<1>2. m \in 1..n /\ m - 1 \in 0..n /\ m - 1 \notin S
  BY <1>1
<1> QED
  BY <1>1, <1>2


\* Recursion over the subsets of a finite set that takes away one element at a time, as the
\* folds of the library do: which element, and what a solution satisfies.
Picks(pick, S) == \A s \in SUBSET S : s # {} => pick[s] \in s
Solves(g, S, base, step, pick) ==
    \A s \in SUBSET S : g[s] = IF s = {} THEN base ELSE step[<<pick[s], g[s \ {pick[s]}]>>]

\* A definition by recursion over the subsets of a finite set, which takes away one element
\* at a time, has a solution: the prover knows the folds of the library by this alone.
LEMMA RecursionExists ==
    ASSUME NEW S, IsFiniteSet(S), NEW D, NEW base \in D, NEW step \in [S \X D -> D], NEW pick,
           Picks(pick, S)
    PROVE  \E g \in [SUBSET S -> D] : Solves(g, S, base, step, pick)
<1> DEFINE Next(g, s) == IF s = {} THEN base ELSE step[<<pick[s], g[s \ {pick[s]}]>>]
           Upto(g, k) == \A s \in SUBSET S : Cardinality(s) <= k => g[s] = Next(g, s)
           Good(k) == \E g \in [SUBSET S -> D] : Upto(g, k)
           Bad == {k \in Nat : ~Good(k)}
<1>1. \A s \in SUBSET S : IsFiniteSet(s) /\ Cardinality(s) \in Nat
  BY FS_Subset, FS_CardinalityType
<1>2. \A s \in SUBSET S : s # {} => /\ s \ {pick[s]} \in SUBSET S
                                    /\ Cardinality(s \ {pick[s]}) = Cardinality(s) - 1
  BY <1>1, FS_RemoveElement DEF Picks
<1>3. \A g \in [SUBSET S -> D], s \in SUBSET S : Next(g, s) \in D
  BY <1>2 DEF Picks
<1>4. Good(0)
  <2> DEFINE g == [s \in SUBSET S |-> base]
  <2>1. g \in [SUBSET S -> D]
    OBVIOUS
  <2>2. \A s \in SUBSET S : Cardinality(s) <= 0 => s = {}
    BY <1>1, FS_EmptySet
  <2>3. Upto(g, 0)
    BY <2>2
  <2> QED
    BY <2>1, <2>3
<1>5. ASSUME NEW k \in Nat, Good(k) PROVE Good(k + 1)
  <2>1. PICK g \in [SUBSET S -> D] : Upto(g, k)
    BY <1>5
  <2> DEFINE h == [s \in SUBSET S |-> Next(g, s)]
  <2>2. h \in [SUBSET S -> D]
    BY <1>3
  <2>3. ASSUME NEW s \in SUBSET S, Cardinality(s) <= k + 1 PROVE h[s] = Next(h, s)
    <3>1. CASE s = {}
      BY <3>1
    <3>2. CASE s # {}
      <4> DEFINE r == s \ {pick[s]}
      <4>1. r \in SUBSET S /\ Cardinality(r) <= k
        BY <1>1, <1>2, <2>3, <3>2
      <4>2. g[r] = Next(g, r)
        BY <2>1, <4>1
      <4>3. h[r] = Next(g, r)
        BY <4>1
      <4> QED
        BY <3>2, <4>2, <4>3
    <3> QED
      BY <3>1, <3>2
  <2> QED
    BY <2>2, <2>3
<1> HIDE DEF Good
<1>6. Bad = {}
  <2> SUFFICES ASSUME Bad # {} PROVE FALSE
    OBVIOUS
  <2>1. PICK m \in Bad : \A j \in Bad : m <= j
    BY LeastExists
  <2>2. m # 0
    BY <1>4, <2>1
  <2>3. m - 1 \in Nat /\ m - 1 \notin Bad
    BY <2>1, <2>2
  <2>4. Good(m)
    BY <1>5, <2>3, m = (m - 1) + 1
  <2> QED
    BY <2>1, <2>4
<1>7. Cardinality(S) \in Nat /\ Good(Cardinality(S))
  BY <1>1, <1>6
<1>8. PICK g \in [SUBSET S -> D] : Upto(g, Cardinality(S))
  BY <1>7 DEF Good
<1>9. \A s \in SUBSET S : Cardinality(s) <= Cardinality(S)
  BY FS_Subset
<1> QED
  BY <1>8, <1>9 DEF Solves

\* And only one.
LEMMA RecursionUnique ==
    ASSUME NEW S, IsFiniteSet(S), NEW base, NEW step, NEW pick,
           Picks(pick, S), NEW g, Solves(g, S, base, step, pick),
           NEW h, Solves(h, S, base, step, pick)
    PROVE  \A s \in SUBSET S : g[s] = h[s]
<1> DEFINE Bad == {k \in Nat : \E s \in SUBSET S : Cardinality(s) = k /\ g[s] # h[s]}
<1>1. \A s \in SUBSET S : IsFiniteSet(s) /\ Cardinality(s) \in Nat
  BY FS_Subset, FS_CardinalityType
<1>2. SUFFICES ASSUME Bad # {} PROVE FALSE
  BY <1>1
<1>3. PICK m \in Bad : \A j \in Bad : m <= j
  BY <1>2, LeastExists
<1>4. PICK s \in SUBSET S : Cardinality(s) = m /\ g[s] # h[s]
  BY <1>3
<1>5. s # {}
  BY <1>4 DEF Solves
<1> DEFINE r == s \ {pick[s]}
<1>6. r \in SUBSET S /\ Cardinality(r) = m - 1 /\ m - 1 \in Nat
  <2>1. pick[s] \in s /\ IsFiniteSet(s) /\ r \in SUBSET S
    BY <1>1, <1>4, <1>5 DEF Picks
  <2>2. Cardinality(r) = Cardinality(s) - 1
    BY <2>1, FS_RemoveElement
  <2> QED
    BY <1>1, <1>4, <2>1, <2>2
<1>7. g[r] = h[r]
  BY <1>3, <1>6
<1> QED
  BY <1>4, <1>5, <1>6, <1>7 DEF Solves
=============================================================================
