----------------------------- MODULE FoldLemmas -----------------------------
(***************************************************************************)
(* What the folds of the models compute.  A fold is the value of a         *)
(* recursive function on the subsets of what is folded; its equation has a *)
(* solution if that set is finite, by induction on the size of subsets.    *)
(* The library's induction theorems take an operator; here, induction is   *)
(* the least element of a set of numbers.                                  *)
(***************************************************************************)
EXTENDS Integers, FiniteSetsExt, FiniteSetTheorems, WellFoundedInduction, TLAPS

\* Induction, for the set of the numbers that something holds of.
LEMMA AllNaturals ==
    ASSUME NEW G, 0 \in G, \A n \in Nat : n \in G => n + 1 \in G
    PROVE  Nat \subseteq G
<1> SUFFICES ASSUME Nat \ G # {} PROVE FALSE
  OBVIOUS
<1>1. PICK m \in Nat \ G : \A k \in Nat \ G : ~(<<k, m>> \in OpToRel(<, Nat))
  BY NatLessThanWellFounded, WFMin
<1>2. m # 0
  OBVIOUS
<1>3. m - 1 \in Nat /\ m - 1 < m
  BY <1>2
<1>4. m - 1 \in G
  BY <1>1, <1>3 DEF OpToRel
<1>5. (m - 1) + 1 \in G
  BY <1>3, <1>4
<1>6. QED
  BY <1>5

\* The largest index.
LEMMA MaxExists ==
    ASSUME NEW n \in Nat, NEW S \in SUBSET (1..n), S # {}
    PROVE  Max(S) \in S /\ \A x \in S : x <= Max(S)
<1> DEFINE T == {n - x : x \in S}
<1>1. T # {} /\ T \subseteq Nat
  <2>1. PICK x \in S : TRUE
    OBVIOUS
  <2>2. n - x \in T
    OBVIOUS
  <2>3. T \subseteq Nat
    OBVIOUS
  <2>4. QED
    BY <2>2, <2>3
<1>2. PICK m \in T : \A k \in T : ~(<<k, m>> \in OpToRel(<, Nat))
  <2> HIDE DEF T
  <2> QED
    BY <1>1, NatLessThanWellFounded, WFMin
<1>3. PICK x \in S : m = n - x
  OBVIOUS
<1>4. ASSUME NEW y \in S PROVE x >= y
  <2>1. ~(n - y < m)
    BY <1>1, <1>2 DEF OpToRel
  <2>2. QED
    BY <1>3, <2>1
<1>5. Max(S) \in S /\ \A y \in S : Max(S) >= y
  BY <1>4 DEF Max
<1>6. QED
  BY <1>5

-----------------------------------------------------------------------------

\* it folds every subset of D: pick[s] comes last in s, and op adds it to what
\* the others are folded to.
Folds(it, D, base, pick, op) ==
    it = [s \in SUBSET D |->
             IF s = {} THEN base ELSE op[<<pick[s], it[s \ {pick[s]}]>>]]

Picks(pick, D) == \A s \in SUBSET D : s # {} => pick[s] \in s

Smaller(D, n) == {s \in SUBSET D : Cardinality(s) <= n}

\* All but one.
LEMMA SmallerWithout ==
    ASSUME NEW D, IsFiniteSet(D), NEW n \in Nat,
           NEW s \in Smaller(D, n + 1), NEW x \in s
    PROVE  s \ {x} \in Smaller(D, n)
<1>1. IsFiniteSet(s) /\ Cardinality(s) \in Nat
  BY FS_Subset, FS_CardinalityType DEF Smaller
<1>2. Cardinality(s \ {x}) = Cardinality(s) - 1
  BY <1>1, FS_RemoveElement
<1>3. Cardinality(s) <= n + 1
  BY DEF Smaller
<1>4. QED
  BY <1>1, <1>2, <1>3 DEF Smaller

LEMMA SmallerAll ==
    ASSUME NEW D, IsFiniteSet(D)
    PROVE  /\ Smaller(D, 0) = {{}}
           /\ Cardinality(D) \in Nat /\ Smaller(D, Cardinality(D)) = SUBSET D
<1>1. \A s \in SUBSET D : /\ IsFiniteSet(s) /\ Cardinality(s) \in Nat
                          /\ Cardinality(s) <= Cardinality(D)
                          /\ Cardinality(s) = 0 <=> s = {}
  BY FS_Subset, FS_CardinalityType, FS_EmptySet
<1>2. Smaller(D, 0) = {{}}
  <2>1. \A s \in SUBSET D : Cardinality(s) <= 0 <=> s = {}
    BY <1>1
  <2>2. QED
    BY <2>1 DEF Smaller
<1>3. QED
  BY <1>1, <1>2 DEF Smaller

\* A fold has a value, ...
LEMMA FoldExists ==
    ASSUME NEW D, IsFiniteSet(D), NEW V, NEW base \in V,
           NEW pick, Picks(pick, D), NEW op \in [D \X V -> V]
    PROVE  \E it \in [SUBSET D -> V] : Folds(it, D, base, pick, op)
<1> DEFINE Round(it, s) ==
               IF s = {} THEN base ELSE op[<<pick[s], it[s \ {pick[s]}]>>]
           G == {n \in Nat : \E it \in [Smaller(D, n) -> V] :
                                 it = [s \in Smaller(D, n) |-> Round(it, s)]}
<1>1. 0 \in G
  <2>1. Smaller(D, 0) = {{}}
    BY SmallerAll
  <2> DEFINE it == [s \in Smaller(D, 0) |-> base]
  <2>2. it \in [Smaller(D, 0) -> V]
    OBVIOUS
  <2>3. it = [s \in Smaller(D, 0) |-> Round(it, s)]
    BY <2>1
  <2>4. QED
    BY <2>2, <2>3
<1>2. ASSUME NEW n \in Nat, n \in G PROVE n + 1 \in G
  <2>1. PICK it \in [Smaller(D, n) -> V] : it = [s \in Smaller(D, n) |-> Round(it, s)]
    BY <1>2
  <2> DEFINE jt == [s \in Smaller(D, n + 1) |-> Round(it, s)]
  <2>2. \A s \in Smaller(D, n + 1) : s # {} => s \ {pick[s]} \in Smaller(D, n)
    BY SmallerWithout DEF Picks, Smaller
  <2>3. \A s \in Smaller(D, n + 1) : s # {} => pick[s] \in D
    BY DEF Picks, Smaller
  <2>4. jt \in [Smaller(D, n + 1) -> V]
    <3>1. \A s \in Smaller(D, n + 1) : Round(it, s) \in V
      BY <2>1, <2>2, <2>3
    <3> HIDE DEF Round
    <3>2. QED
      BY <3>1
  <2>5. \A s \in Smaller(D, n) : s \in Smaller(D, n + 1)
    <3>1. \A s \in Smaller(D, n) : Cardinality(s) \in Nat
      BY FS_Subset, FS_CardinalityType DEF Smaller
    <3>2. QED
      BY <3>1 DEF Smaller
  <2>6. \A s \in Smaller(D, n) : jt[s] = it[s]
    <3>1. \A s \in Smaller(D, n) : it[s] = Round(it, s)
      BY <2>1
    <3> HIDE DEF Round
    <3>2. QED
      BY <2>5, <3>1
  <2>7. \A s \in Smaller(D, n + 1) : Round(it, s) = Round(jt, s)
    <3> HIDE DEF jt
    <3> QED
      BY <2>2, <2>6
  <2>8. jt = [s \in Smaller(D, n + 1) |-> Round(jt, s)]
    <3> HIDE DEF Round
    <3>1. QED
      BY <2>7
  <2> HIDE DEF jt, Round
  <2>9. QED
    BY <2>4, <2>8
<1>3. Nat \subseteq G
  <2> HIDE DEF G
  <2> QED
    BY <1>1, <1>2, AllNaturals
<1>4. Cardinality(D) \in Nat /\ Smaller(D, Cardinality(D)) = SUBSET D
  BY SmallerAll
<1>5. PICK it \in [SUBSET D -> V] : it = [s \in SUBSET D |-> Round(it, s)]
  <2>1. Cardinality(D) \in G
    BY <1>3, <1>4
  <2> HIDE DEF Round
  <2>2. QED
    BY <1>4, <2>1
<1>6. QED
  BY <1>5 DEF Folds
-----------------------------------------------------------------------------
(* Sums over finite sets.                                                  *)

\* it adds up the weights w of every subset of D, each element in the turn that
\* MapThenSumSet gives it.
Adds(it, D, w) ==
    it = [s \in SUBSET D |->
             IF s = {} THEN 0
             ELSE w[CHOOSE x \in s : TRUE] + it[s \ {CHOOSE x \in s : TRUE}]]

\* ... sums exist, ...
LEMMA AddsExists ==
    ASSUME NEW D, IsFiniteSet(D), NEW w \in [D -> Int]
    PROVE  \E it : Adds(it, D, w)
<1> DEFINE pick == [s \in SUBSET D |-> CHOOSE x \in s : TRUE]
           op == [p \in D \X Int |-> w[p[1]] + p[2]]
<1>1. Picks(pick, D) /\ op \in [D \X Int -> Int] /\ 0 \in Int
  BY DEF Picks
<1>2. PICK it \in [SUBSET D -> Int] : Folds(it, D, 0, pick, op)
  <2> HIDE DEF pick, op
  <2> QED
    BY <1>1, FoldExists
<1>3. \A s \in SUBSET D : s # {} =>
          op[<<pick[s], it[s \ {pick[s]}]>>] = w[pick[s]] + it[s \ {pick[s]}]
  BY <1>1 DEF Picks
<1>4. \A s \in SUBSET D : it[s] =
          IF s = {} THEN 0
          ELSE w[CHOOSE x \in s : TRUE] + it[s \ {CHOOSE x \in s : TRUE}]
  BY <1>2, <1>3 DEF Folds
<1>5. Adds(it, D, w)
  BY <1>4 DEF Adds
<1>6. QED
  BY <1>5

\* ... are numbers, from zero on if the weights are, ...
LEMMA AddsType ==
    ASSUME NEW D, IsFiniteSet(D), NEW w \in [D -> Int],
           NEW it, Adds(it, D, w), NEW s \in SUBSET D
    PROVE  it[s] \in Int /\ ((\A x \in s : w[x] >= 0) => it[s] >= 0)
<1> DEFINE Good(t) == it[t] \in Int /\ ((\A x \in t : w[x] >= 0) => it[t] >= 0)
           G == {n \in Nat : \A t \in Smaller(D, n) : Good(t)}
<1>1. 0 \in G
  BY SmallerAll DEF Adds
<1>2. ASSUME NEW n \in Nat, n \in G PROVE n + 1 \in G
  <2> SUFFICES ASSUME NEW t \in Smaller(D, n + 1) PROVE Good(t)
    OBVIOUS
  <2>1. CASE t = {}
    BY <1>1, <2>1, SmallerAll
  <2>2. CASE t # {}
    <3> DEFINE x == CHOOSE y \in t : TRUE
    <3>1. x \in t /\ t \in SUBSET D
      BY <2>2 DEF Smaller
    <3>2. t \ {x} \in Smaller(D, n)
      <4> HIDE DEF x
      <4> QED
        BY <3>1, SmallerWithout
    <3>3. Good(t \ {x})
      BY <1>2, <3>2
    <3>4. it[t] = w[x] + it[t \ {x}] /\ w[x] \in Int
      BY <2>2, <3>1 DEF Adds
    <3> HIDE DEF x
    <3>5. QED
      BY <3>1, <3>3, <3>4
  <2>3. QED
    BY <2>1, <2>2
<1>3. Nat \subseteq G
  <2> HIDE DEF G
  <2> QED
    BY <1>1, <1>2, AllNaturals
<1>4. Cardinality(D) \in G /\ Smaller(D, Cardinality(D)) = SUBSET D
  BY <1>3, SmallerAll
<1>5. QED
  BY <1>4

\* ... do not depend on the order, ...
LEMMA AddsAnyOrder ==
    ASSUME NEW D, IsFiniteSet(D), NEW w \in [D -> Int],
           NEW it, Adds(it, D, w), NEW s \in SUBSET D, NEW x \in s
    PROVE  it[s] = w[x] + it[s \ {x}]
<1> DEFINE G == {n \in Nat : \A t \in Smaller(D, n) :
                                 \A y \in t : it[t] = w[y] + it[t \ {y}]}
<1>1. 0 \in G
  BY SmallerAll
<1>2. ASSUME NEW n \in Nat, n \in G PROVE n + 1 \in G
  <2> SUFFICES ASSUME NEW t \in Smaller(D, n + 1), NEW y \in t
               PROVE  it[t] = w[y] + it[t \ {y}]
    OBVIOUS
  <2> DEFINE z == CHOOSE v \in t : TRUE
  <2>1. z \in t /\ t \in SUBSET D
    BY DEF Smaller
  <2>2. it[t] = w[z] + it[t \ {z}]
    BY <2>1 DEF Adds
  <2> HIDE DEF z
  <2>3. CASE y = z
    BY <2>2, <2>3
  <2>4. CASE y # z
    <3>1. t \ {y} \in Smaller(D, n) /\ t \ {z} \in Smaller(D, n)
      BY <2>1, SmallerWithout
    <3>2. y \in t \ {z} /\ z \in t \ {y}
      BY <2>1, <2>4
    <3>3. /\ it[t \ {z}] = w[y] + it[(t \ {z}) \ {y}]
          /\ it[t \ {y}] = w[z] + it[(t \ {y}) \ {z}]
      BY <1>2, <3>1, <3>2
    <3>4. (t \ {z}) \ {y} = (t \ {y}) \ {z} /\ (t \ {y}) \ {z} \in SUBSET D
      BY <2>1
    <3>5. w[y] \in Int /\ w[z] \in Int /\ it[(t \ {y}) \ {z}] \in Int
      BY <2>1, <3>4, AddsType
    <3>6. w[z] + (w[y] + it[(t \ {y}) \ {z}]) = w[y] + (w[z] + it[(t \ {y}) \ {z}])
      BY <3>5
    <3>7. QED
      BY <2>2, <3>3, <3>4, <3>6
  <2>5. QED
    BY <2>3, <2>4
<1>3. Nat \subseteq G
  <2> HIDE DEF G
  <2> QED
    BY <1>1, <1>2, AllNaturals
<1>4. Cardinality(D) \in G /\ Smaller(D, Cardinality(D)) = SUBSET D
  BY <1>3, SmallerAll
<1>5. QED
  BY <1>4

\* ... and only on the weights of what is added.
LEMMA AddsAgree ==
    ASSUME NEW D, IsFiniteSet(D), NEW w \in [D -> Int], NEW it, Adds(it, D, w),
           NEW E, IsFiniteSet(E), NEW v \in [E -> Int], NEW jt, Adds(jt, E, v),
           D \subseteq E, \A x \in D : w[x] = v[x]
    PROVE  it[D] = jt[D]
<1> DEFINE G == {n \in Nat : \A t \in Smaller(D, n) : it[t] = jt[t]}
<1>1. 0 \in G
  <2>1. it[{}] = 0 /\ jt[{}] = 0
    BY DEF Adds
  <2>2. QED
    BY <2>1, SmallerAll
<1>2. ASSUME NEW n \in Nat, n \in G PROVE n + 1 \in G
  <2> SUFFICES ASSUME NEW t \in Smaller(D, n + 1) PROVE it[t] = jt[t]
    OBVIOUS
  <2>1. CASE t = {}
    BY <2>1 DEF Adds
  <2>2. CASE t # {}
    <3> DEFINE x == CHOOSE y \in t : TRUE
    <3>1. x \in t /\ t \in SUBSET D /\ t \in SUBSET E
      BY <2>2 DEF Smaller
    <3>2. it[t] = w[x] + it[t \ {x}] /\ jt[t] = v[x] + jt[t \ {x}]
      BY <2>2, <3>1 DEF Adds
    <3> HIDE DEF x
    <3>3. t \ {x} \in Smaller(D, n)
      BY <3>1, SmallerWithout
    <3>4. it[t \ {x}] = jt[t \ {x}] /\ w[x] = v[x]
      BY <1>2, <3>1, <3>3
    <3>5. QED
      BY <3>2, <3>4
  <2>3. QED
    BY <2>1, <2>2
<1>3. Nat \subseteq G
  <2> HIDE DEF G
  <2> QED
    BY <1>1, <1>2, AllNaturals
<1>4. Cardinality(D) \in G /\ Smaller(D, Cardinality(D)) = SUBSET D
  BY <1>3, SmallerAll
<1>5. QED
  BY <1>4
=============================================================================
