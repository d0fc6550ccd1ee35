------------------------ MODULE SemanticCacheProofs ------------------------
(***************************************************************************)
(* Proofs about the cache for any number of callers, any size, threshold,  *)
(* TTL and prompts, and any order in which entries arrive: what the memory *)
(* store keeps and what its scan finds, what either store serves, and what *)
(* that means with the hashing embedder.                                   *)
(***************************************************************************)
EXTENDS SemanticCache, HashingEmbedder, FoldLemmas

Lists == Seq(Entry)

-----------------------------------------------------------------------------
(* The stable sort: Place numbers the entries of a list from 1 to its      *)
(* length, newer ones first.                                               *)

LEMMA ListType ==
    ASSUME NEW s \in Lists
    PROVE  /\ DOMAIN s = 1..Len(s) /\ Len(s) \in Nat
           /\ \A i \in DOMAIN s : /\ i \in Int /\ s[i] \in Entry
                                 /\ s[i].created \in Nat /\ s[i].created \in 0..MaxTime
           /\ IsFiniteSet(DOMAIN s) /\ Cardinality(DOMAIN s) = Len(s)
<1>1. DOMAIN s = 1..Len(s) /\ Len(s) \in Nat
  BY DEF Lists
<1>2. \A i \in DOMAIN s : i \in Int /\ s[i] \in Entry
  BY DEF Lists
<1>3. \A e \in Entry : e.created \in Nat /\ e.created \in 0..MaxTime
  BY BoundsAssumption DEF Entry
<1>4. /\ IsFiniteSet(1..Len(s))
      /\ Cardinality(1..Len(s)) = IF 1 > Len(s) THEN 0 ELSE Len(s) - 1 + 1
  BY <1>1, FS_Interval
<1>5. QED
  BY <1>1, <1>2, <1>3, <1>4

\* An entry comes after all those before it.
LEMMA PlaceOrders ==
    ASSUME NEW s \in Lists, NEW i \in DOMAIN s, NEW j \in DOMAIN s,
           i \in Before(s, j)
    PROVE  Place(s, i) < Place(s, j)
<1>1. /\ IsFiniteSet(DOMAIN s)
      /\ \A k \in DOMAIN s : k \in Int /\ s[k].created \in Nat
  BY ListType
<1>2. Before(s, i) \in SUBSET DOMAIN s /\ Before(s, j) \in SUBSET DOMAIN s
  BY DEF Before
<1>3. Before(s, i) \cup {i} \subseteq Before(s, j)
  BY <1>1 DEF Before
<1>4. i \notin Before(s, i)
  BY <1>1 DEF Before
<1>5. /\ IsFiniteSet(Before(s, i)) /\ IsFiniteSet(Before(s, j))
  BY <1>1, <1>2, FS_Subset
<1>6. /\ IsFiniteSet(Before(s, i) \cup {i})
      /\ Cardinality(Before(s, i) \cup {i}) = Cardinality(Before(s, i)) + 1
  BY <1>4, <1>5, FS_AddElement
<1>7. Cardinality(Before(s, i) \cup {i}) <= Cardinality(Before(s, j))
  BY <1>3, <1>5, FS_Subset
<1>8. Cardinality(Before(s, i)) \in Nat /\ Cardinality(Before(s, j)) \in Nat
  BY <1>5, FS_CardinalityType
<1>9. /\ Place(s, i) = 1 + Cardinality(Before(s, i))
      /\ Place(s, j) = 1 + Cardinality(Before(s, j))
  BY DEF Place
<1>10. QED
  BY <1>6, <1>7, <1>8, <1>9

\* Places are numbers from 1 to the length of the list, ...
LEMMA PlaceType ==
    ASSUME NEW s \in Lists, NEW i \in DOMAIN s
    PROVE  Place(s, i) \in DOMAIN s
<1>1. /\ DOMAIN s = 1..Len(s) /\ Len(s) \in Nat /\ IsFiniteSet(DOMAIN s)
      /\ s[i].created \in Nat /\ i \in Int
  BY ListType
<1>2. Before(s, i) \in SUBSET (DOMAIN s \ {i})
  BY <1>1 DEF Before
<1>3. /\ IsFiniteSet(DOMAIN s \ {i})
      /\ Cardinality(DOMAIN s \ {i}) = Cardinality(DOMAIN s) - 1
  BY <1>1, FS_RemoveElement
<1>4. Cardinality(DOMAIN s) = Len(s)
  BY ListType
<1>5. /\ Cardinality(Before(s, i)) \in Nat
      /\ Cardinality(Before(s, i)) <= Cardinality(DOMAIN s \ {i})
  BY <1>2, <1>3, FS_Subset, FS_CardinalityType
<1>6. Place(s, i) = 1 + Cardinality(Before(s, i))
  BY DEF Place
<1>7. QED
  BY <1>1, <1>3, <1>4, <1>5, <1>6

\* ... two entries never have the same, ...
LEMMA PlaceInjective ==
    ASSUME NEW s \in Lists, NEW i \in DOMAIN s, NEW j \in DOMAIN s,
           Place(s, i) = Place(s, j)
    PROVE  i = j
<1>1. /\ s[i].created \in Nat /\ s[j].created \in Nat /\ i \in Int /\ j \in Int
  BY ListType
<1>2. Place(s, i) \in Int /\ Place(s, j) \in Int
  BY PlaceType, ListType
<1>3. i \notin Before(s, j) /\ j \notin Before(s, i)
  BY <1>2, PlaceOrders
<1>4. QED
  BY <1>1, <1>3 DEF Before

\* ... and every place is taken.
LEMMA PlaceOnto ==
    ASSUME NEW s \in Lists, NEW p \in DOMAIN s
    PROVE  \E i \in DOMAIN s : Place(s, i) = p
<1> SUFFICES ASSUME \A i \in DOMAIN s : Place(s, i) # p PROVE FALSE
  OBVIOUS
<1> DEFINE f == [i \in DOMAIN s |-> Place(s, i)]
<1>1. IsFiniteSet(DOMAIN s)
  BY ListType
<1>2. /\ IsFiniteSet(DOMAIN s \ {p})
      /\ Cardinality(DOMAIN s \ {p}) = Cardinality(DOMAIN s) - 1
      /\ Cardinality(DOMAIN s) \in Nat
  BY <1>1, FS_RemoveElement, FS_CardinalityType
<1>3. f \in [DOMAIN s -> DOMAIN s \ {p}]
  BY PlaceType
<1>4. \E i, j \in DOMAIN s : i # j /\ f[i] = f[j]
  <2> HIDE DEF f
  <2> QED
    BY <1>1, <1>2, <1>3, FS_PigeonHole
<1>5. QED
  BY <1>4, PlaceInjective

\* Sorting moves each entry to its place.
LEMMA Sorted ==
    ASSUME NEW s \in Lists
    PROVE  /\ SortedByAge(s) \in Lists
           /\ Len(SortedByAge(s)) = Len(s)
           /\ \A i \in DOMAIN s : SortedByAge(s)[Place(s, i)] = s[i]
<1> DEFINE At(p) == CHOOSE i \in DOMAIN s : Place(s, i) = p
<1>1. \A p \in DOMAIN s : At(p) \in DOMAIN s /\ Place(s, At(p)) = p
  BY PlaceOnto
<1>2. \A i \in DOMAIN s : At(Place(s, i)) = i
  BY <1>1, PlaceType, PlaceInjective
<1>3. SortedByAge(s) = [p \in DOMAIN s |-> s[At(p)]]
  BY DEF SortedByAge
<1> HIDE DEF At
<1>4. SortedByAge(s) \in [1..Len(s) -> Entry] /\ Len(s) \in Nat
  BY <1>1, <1>3, ListType
<1>5. SortedByAge(s) \in Lists /\ Len(SortedByAge(s)) = Len(s)
  BY <1>4 DEF Lists
<1>6. \A i \in DOMAIN s : SortedByAge(s)[Place(s, i)] = s[i]
  BY <1>2, <1>3, PlaceType
<1>7. QED
  BY <1>5, <1>6

-----------------------------------------------------------------------------
(* Put: the list is trimmed when it is one too long.                       *)

\* The entry in the last place goes; it is not newer than any that stays, and
\* its is the only moment of which there are fewer entries than before.
LEMMA TrimDropsLast ==
    ASSUME NEW s \in Lists, Len(s) = MaxSize + 1,
           NEW l \in DOMAIN s, Place(s, l) = MaxSize + 1
    PROVE  /\ Trim(s) \in Lists /\ Len(Trim(s)) = MaxSize
           /\ \A p \in DOMAIN Trim(s) : \E i \in DOMAIN s \ {l} :
                  Trim(s)[p] = s[i] /\ s[i].created >= s[l].created
           /\ \A n : Number(s, n) > Number(Trim(s), n) => n = s[l].created
<1>0. MaxSize \in Nat \ {0}
  BY KnobsAssumption
<1>1. Trim(s) = SubSeq(SortedByAge(s), 1, MaxSize)
  BY <1>0 DEF Trim
<1>2. /\ SortedByAge(s) \in Seq(Entry) /\ Len(SortedByAge(s)) = MaxSize + 1
      /\ DOMAIN s = 1..MaxSize + 1
  BY Sorted, ListType DEF Lists
<1>3. /\ Trim(s) \in Lists /\ Len(Trim(s)) = MaxSize
      /\ DOMAIN Trim(s) = 1..MaxSize
      /\ \A p \in 1..MaxSize : Trim(s)[p] = SortedByAge(s)[p]
  BY <1>0, <1>1, <1>2 DEF Lists
<1>4. ASSUME NEW i \in DOMAIN s, i # l
      PROVE  Place(s, i) \in 1..MaxSize /\ Trim(s)[Place(s, i)] = s[i]
  <2>1. Place(s, i) \in 1..MaxSize + 1 /\ Place(s, i) # MaxSize + 1
    BY <1>2, <1>4, PlaceType, PlaceInjective
  <2>2. Place(s, i) \in 1..MaxSize
    BY <1>0, <2>1
  <2>3. QED
    BY <1>3, <2>2, Sorted
<1>5. ASSUME NEW p \in 1..MaxSize
      PROVE  \E i \in DOMAIN s \ {l} :
                 Trim(s)[p] = s[i] /\ s[i].created >= s[l].created
  <2>1. p \in DOMAIN s
    BY <1>0, <1>2
  <2>2. PICK i \in DOMAIN s : Place(s, i) = p
    BY <2>1, PlaceOnto
  <2>3. i # l /\ ~(Place(s, l) < Place(s, i))
    BY <1>0, <2>2
  <2>4. l \notin Before(s, i)
    BY <2>3, PlaceOrders
  <2>5. ~(s[l].created > s[i].created)
    BY <2>4 DEF Before
  <2>6. s[i].created >= s[l].created
    BY <2>5, ListType
  <2>7. QED
    BY <1>4, <2>2, <2>3, <2>6
<1>6. ASSUME NEW n, n # s[l].created
      PROVE  ~(Number(s, n) > Number(Trim(s), n))
  <2> DEFINE A == {i \in DOMAIN s : s[i].created = n}
             B == {p \in DOMAIN Trim(s) : Trim(s)[p].created = n}
             f == [i \in A |-> Place(s, i)]
  <2>1. IsFiniteSet(A) /\ IsFiniteSet(B)
    BY <1>3, ListType, FS_Subset
  <2>2. \A i \in A : i \in DOMAIN s /\ i # l
    BY <1>6
  <2>3. f \in [A -> B]
    BY <1>3, <1>4, <2>2
  <2>4. \A i, j \in A : f[i] = f[j] => i = j
    BY <2>2, PlaceInjective
  <2>5. Number(s, n) = Cardinality(A) /\ Number(Trim(s), n) = Cardinality(B)
    BY DEF Number
  <2>6. Cardinality(A) \in Nat /\ Cardinality(B) \in Nat
    BY <2>1, FS_CardinalityType
  <2> HIDE DEF A, B, f
  <2>7. ~(Cardinality(B) < Cardinality(A))
    BY <2>1, <2>3, <2>4, FS_PigeonHole
  <2>8. QED
    BY <2>5, <2>6, <2>7
<1>7. QED
  BY <1>3, <1>5, <1>6

\* The list and the newest entry it has lost, as KeepsMostRecent relates them.
Recent(s, d) ==
    /\ s \in Lists /\ Len(s) <= MaxSize
    /\ d \in -1..MaxTime
    /\ \A i \in DOMAIN s : s[i].created >= d
    /\ d >= 0 => Len(s) = MaxSize

\* Adding an entry of any age keeps the most recent ones.
LEMMA PutKeepsRecent ==
    ASSUME Recent(entries, dropped), NEW e \in Entry,
           NEW all, all = Append(entries, e)
    PROVE  Recent(Trim(all), Newest(all, Trim(all)))
<1>0. MaxSize \in Nat \ {0}
  BY KnobsAssumption
<1>1. /\ all \in Lists /\ Len(all) = Len(entries) + 1 /\ Len(entries) \in Nat
      /\ DOMAIN entries = 1..Len(entries) /\ DOMAIN all = 1..Len(entries) + 1
      /\ \A i \in 1..Len(entries) : all[i] = entries[i]
  BY DEF Recent, Lists
<1>2. CASE Len(entries) < MaxSize
  <2>1. Trim(all) = all /\ Len(all) <= MaxSize
    <3>1. Len(all) <= MaxSize /\ ~(Len(all) > MaxSize)
      BY <1>0, <1>1, <1>2
    <3>2. QED
      BY <3>1 DEF Trim
  <2>2. dropped = -1
    <3>1. dropped \in Int /\ dropped >= -1 /\ (dropped >= 0 => Len(entries) = MaxSize)
      BY BoundsAssumption DEF Recent
    <3>2. Len(entries) \in Nat
      BY <1>1
    <3>3. Len(entries) # MaxSize
      BY <1>0, <1>2, <3>2
    <3>4. QED
      BY <3>1, <3>3
  <2>3. \A n : ~(Number(all, n) > Number(all, n))
    <3>1. \A n : {i \in DOMAIN all : all[i].created = n} \in SUBSET DOMAIN all
      OBVIOUS
    <3>2. \A n : Number(all, n) \in Nat
      BY <1>1, <3>1, ListType, FS_Subset, FS_CardinalityType DEF Number
    <3>3. QED
      BY <3>2
  <2>4. Newest(all, Trim(all)) = Max({dropped})
    <3>1. {n \in {x.created : x \in Range(all)} : Number(all, n) > Number(all, n)} = {}
      BY <2>3
    <3>2. QED
      BY <2>1, <3>1 DEF Newest
  <2>5. Newest(all, Trim(all)) = -1
    BY <2>2, <2>4 DEF Max
  <2>6. QED
    <3>1. \A i \in DOMAIN all : all[i].created >= -1
      <4>1. \A i \in DOMAIN all : all[i].created \in Nat
        BY <1>1, ListType
      <4>2. QED
        BY <4>1
    <3>2. -1 \in -1..MaxTime
      BY BoundsAssumption
    <3>3. QED
      BY <1>1, <2>1, <2>5, <3>1, <3>2 DEF Recent
<1>3. CASE Len(entries) = MaxSize
  <2>1. Len(all) = MaxSize + 1 /\ MaxSize + 1 \in DOMAIN all
    BY <1>0, <1>1, <1>3
  <2>2. PICK l \in DOMAIN all : Place(all, l) = MaxSize + 1
    BY <1>1, <2>1, PlaceOnto
  <2>3. /\ Trim(all) \in Lists /\ Len(Trim(all)) = MaxSize
        /\ \A p \in DOMAIN Trim(all) : \E i \in DOMAIN all \ {l} :
               Trim(all)[p] = all[i] /\ all[i].created >= all[l].created
        /\ \A n : Number(all, n) > Number(Trim(all), n) => n = all[l].created
    BY <1>1, <2>1, <2>2, TrimDropsLast
  <2>4. /\ \A i \in DOMAIN all : all[i].created \in Nat
        /\ \A i \in DOMAIN entries : entries[i].created >= dropped
        /\ dropped \in Int /\ dropped >= -1
    <3>1. \A i \in DOMAIN all : all[i].created \in Nat
      BY <1>1, ListType
    <3>2. dropped \in Int /\ dropped >= -1
      BY BoundsAssumption DEF Recent
    <3>3. QED
      BY <3>1, <3>2 DEF Recent
  <2>5. Newest(all, Trim(all)) \in {dropped, all[l].created}
    <3> DEFINE Lost == {n \in {x.created : x \in Range(all)} :
                            Number(all, n) > Number(Trim(all), n)}
    <3>1. Lost \subseteq {all[l].created}
      BY <2>3
    <3>2. \/ {dropped} \cup Lost = {dropped}
          \/ {dropped} \cup Lost = {dropped, all[l].created}
      <4> HIDE DEF Lost
      <4>1. Lost = {} \/ Lost = {all[l].created}
        BY <3>1
      <4>2. QED
        BY <4>1
    <3>3. \A x, y \in Int : Max({x}) = x /\ Max({x, y}) \in {x, y}
      BY DEF Max
    <3>4. Newest(all, Trim(all)) = Max({dropped} \cup Lost)
      BY DEF Newest
    <3> HIDE DEF Lost
    <3>5. QED
      <4>1. dropped \in Int /\ all[l].created \in Int
        BY <2>4
      <4>2. QED
        BY <3>2, <3>3, <3>4, <4>1
  <2>6. ASSUME NEW p \in DOMAIN Trim(all)
        PROVE  /\ Trim(all)[p].created >= all[l].created
               /\ Trim(all)[p].created >= dropped
    <3>1. PICK i \in DOMAIN all \ {l} :
              Trim(all)[p] = all[i] /\ all[i].created >= all[l].created
      BY <2>3
    <3>2. i \in DOMAIN entries \/ l \in DOMAIN entries
      BY <1>1, <3>1
    <3>3. CASE i \in DOMAIN entries
      BY <1>1, <2>4, <3>1, <3>3
    <3>4. CASE l \in DOMAIN entries
      <4>1. all[l].created >= dropped
        BY <1>1, <2>4, <3>4
      <4>2. QED
        BY <2>4, <3>1, <4>1
    <3>5. QED
      BY <3>1, <3>2, <3>3, <3>4
  <2>7. Newest(all, Trim(all)) \in -1..MaxTime
    <3>1. all[l].created \in 0..MaxTime
      BY <1>1, ListType
    <3>2. dropped \in -1..MaxTime
      BY DEF Recent
    <3>3. QED
      BY <2>5, <3>1, <3>2, BoundsAssumption
  <2>8. \A p \in DOMAIN Trim(all) : Trim(all)[p].created >= Newest(all, Trim(all))
    BY <2>5, <2>6
  <2>9. QED
    BY <1>0, <2>3, <2>7, <2>8 DEF Recent
<1>4. Len(entries) <= MaxSize
  BY DEF Recent
<1>5. Len(entries) < MaxSize \/ Len(entries) = MaxSize
  <2>1. Len(entries) \in Nat
    BY <1>1
  <2>2. QED
    BY <1>0, <1>4, <2>1
<1>6. QED
  BY <1>2, <1>3, <1>5

-----------------------------------------------------------------------------
(* Nearest: one pass over a list in any order.                             *)

Start == [sim |-> -100, entry |-> None]

Best(c) == FoldLeft(LAMBDA b, e : Closer(b, e, c), Start, entries)

\* The equation of the fold.
ScanStep(it, s, c) ==
    IF s = {} THEN Start ELSE Closer(it[s \ {Max(s)}], entries[Max(s)], c)

Scans(it, c) == it = [s \in SUBSET DOMAIN entries |-> ScanStep(it, s, c)]

Sim(c, e) == Similarity[prompt[c], e.prompt]

Scores == [sim : Int, entry : Entry \cup {None}]

LEMMA SimType ==
    ASSUME NEW c, prompt[c] \in Prompts, NEW e \in Entry
    PROVE  Sim(c, e) \in Int
<1>1. <<prompt[c], e.prompt>> \in Prompts \X Prompts
  BY DEF Entry
<1>2. Similarity \in [Prompts \X Prompts -> Int]
  <2>1. -100..100 \subseteq Int
    OBVIOUS
  <2>2. QED
    BY <2>1, SimilarityAssumption
<1>3. QED
  BY <1>1, <1>2 DEF Sim

\* A round of the loop keeps what it has, or takes a fresh entry that is nearer.
LEMMA CloserFinds ==
    ASSUME NEW c, prompt[c] \in Prompts, stamp[c] \in Int,
           NEW e \in Entry, NEW b \in Scores
    PROVE  /\ Closer(b, e, c) \in Scores
           /\ Closer(b, e, c).sim >= b.sim
           /\ Fresh(e, stamp[c]) => Closer(b, e, c).sim >= Sim(c, e)
           /\ \/ Closer(b, e, c) = b
              \/ /\ Fresh(e, stamp[c])
                 /\ Closer(b, e, c) = [sim |-> Sim(c, e), entry |-> e]
<1>1. Sim(c, e) \in Int /\ b.sim \in Int
  BY SimType DEF Scores
<1>2. CASE Fresh(e, stamp[c]) /\ Sim(c, e) > b.sim
  <2>1. Closer(b, e, c) = [sim |-> Sim(c, e), entry |-> e]
    BY <1>2 DEF Closer, Sim
  <2>2. [sim |-> Sim(c, e), entry |-> e] \in Scores
    BY <1>1 DEF Scores
  <2>3. Closer(b, e, c).sim = Sim(c, e)
    BY <2>1
  <2>4. QED
    BY <1>1, <1>2, <2>1, <2>2, <2>3
<1>3. CASE ~(Fresh(e, stamp[c]) /\ Sim(c, e) > b.sim)
  <2>1. Closer(b, e, c) = b
    BY <1>3 DEF Closer, Sim
  <2>2. QED
    BY <1>1, <1>3, <2>1
<1>4. QED
  BY <1>2, <1>3

\* The fold has a value, and this is it.
LEMMA ScanExists ==
    ASSUME NEW c, prompt[c] \in Prompts, stamp[c] \in Int, entries \in Lists
    PROVE  \E it : Scans(it, c) /\ Best(c) = it[DOMAIN entries]
<1> DEFINE D == DOMAIN entries
           pick == [s \in SUBSET D |-> Max(s)]
           op == [p \in D \X Scores |-> Closer(p[2], entries[p[1]], c)]
<1>1. Picks(pick, D)
  BY ListType, MaxExists DEF Picks
<1>2. op \in [D \X Scores -> Scores]
  BY ListType, CloserFinds
<1>3. Start \in Scores
  BY DEF Start, Scores
<1>4. PICK it \in [SUBSET D -> Scores] : Folds(it, D, Start, pick, op)
  <2>1. IsFiniteSet(D)
    BY ListType
  <2> HIDE DEF D, pick, op
  <2>2. QED
    BY <1>1, <1>2, <1>3, <2>1, FoldExists
<1>5. ASSUME NEW s \in SUBSET D PROVE it[s] = ScanStep(it, s, c)
  <2>1. CASE s = {}
    BY <1>4, <2>1 DEF Folds, ScanStep
  <2>2. CASE s # {}
    <3>1. pick[s] = Max(s) /\ Max(s) \in D
      BY <1>1, <2>2 DEF Picks
    <3>2. <<Max(s), it[s \ {Max(s)}]>> \in D \X Scores
      BY <3>1
    <3>3. it[s] = op[<<Max(s), it[s \ {Max(s)}]>>]
      <4> HIDE DEF op
      <4> QED
        BY <1>4, <2>2, <3>1 DEF Folds
    <3>4. it[s] = Closer(it[s \ {Max(s)}], entries[Max(s)], c)
      BY <3>2, <3>3
    <3>5. QED
      BY <2>2, <3>4 DEF ScanStep
  <2>3. QED
    BY <2>1, <2>2
<1>6. Scans(it, c)
  BY <1>4, <1>5 DEF Scans
<1> DEFINE jt == CHOOSE f : f = [s \in SUBSET DOMAIN entries |-> ScanStep(f, s, c)]
<1>7. jt = [s \in SUBSET DOMAIN entries |-> ScanStep(jt, s, c)]
  BY <1>6 DEF Scans
<1>8. Best(c) = jt[DOMAIN entries]
  BY DEF Best, FoldLeft, MapThenFoldSet, ScanStep
<1>9. QED
  BY <1>7, <1>8 DEF Scans

\* What the scan of the first k entries has found: nothing fresh is nearer, and
\* it is one of them if it is better than the start.
Finds(b, c, k) ==
    /\ b \in Scores
    /\ \A i \in 1..k : Fresh(entries[i], stamp[c]) => Sim(c, entries[i]) <= b.sim
    /\ \/ b = Start
       \/ \E i \in 1..k : /\ Fresh(entries[i], stamp[c])
                          /\ b = [sim |-> Sim(c, entries[i]), entry |-> entries[i]]

LEMMA ScanFinds ==
    ASSUME NEW c, prompt[c] \in Prompts, stamp[c] \in Int, entries \in Lists
    PROVE  Finds(Best(c), c, Len(entries))
<1>1. PICK it : Scans(it, c) /\ Best(c) = it[DOMAIN entries]
  BY ScanExists
<1>2. DOMAIN entries = 1..Len(entries) /\ Len(entries) \in Nat
  BY ListType
<1> DEFINE G == {k \in Nat : k <= Len(entries) => Finds(it[1..k], c, k)}
<1>3. 0 \in G
  <2>1. 1..0 = {} /\ it[{}] = Start
    BY <1>1 DEF Scans, ScanStep
  <2>2. Start \in Scores
    BY DEF Start, Scores
  <2>3. QED
    BY <2>1, <2>2 DEF Finds
<1>4. ASSUME NEW k \in Nat, k \in G PROVE k + 1 \in G
  <2> SUFFICES ASSUME k + 1 <= Len(entries) PROVE Finds(it[1..k + 1], c, k + 1)
    OBVIOUS
  <2>1. Finds(it[1..k], c, k)
    BY <1>2, <1>4
  <2>2. k + 1 \in 1..k + 1 /\ 1..k + 1 # {} /\ 1..k + 1 \subseteq 1..k + 1
    <3>1. k + 1 \in 1..k + 1
      OBVIOUS
    <3>2. QED
      BY <3>1
  <2>3. Max(1..k + 1) = k + 1
    <3> DEFINE all == 1..k + 1
    <3>1. Max(all) \in all /\ \A x \in all : x <= Max(all)
      <4>1. k + 1 \in Nat /\ all \in SUBSET (1..k + 1) /\ all # {}
        BY <2>2
      <4> HIDE DEF all
      <4>2. QED
        BY <4>1, MaxExists
    <3>2. QED
      BY <2>2, <3>1
  <2>4. (1..k + 1) \ {k + 1} = 1..k
    OBVIOUS
  <2> DEFINE e == entries[k + 1]
  <2>5. it[1..k + 1] = Closer(it[1..k], e, c)
    <3>1. 1..k + 1 \in SUBSET DOMAIN entries
      BY <1>2
    <3>2. it[1..k + 1] = ScanStep(it, 1..k + 1, c)
      BY <1>1, <3>1 DEF Scans
    <3>3. QED
      BY <2>2, <2>3, <2>4, <3>2 DEF ScanStep
  <2>6. e \in Entry
    BY <1>2, ListType
  <2> DEFINE b == it[1..k]
             n == Closer(b, e, c)
  <2>7. /\ n \in Scores /\ n.sim >= b.sim
        /\ Fresh(e, stamp[c]) => n.sim >= Sim(c, e)
        /\ n = b \/ (Fresh(e, stamp[c]) /\ n = [sim |-> Sim(c, e), entry |-> e])
    BY <2>1, <2>6, CloserFinds DEF Finds
  <2>8. ASSUME NEW i \in 1..k + 1, Fresh(entries[i], stamp[c])
        PROVE  Sim(c, entries[i]) <= n.sim
    <3>1. Sim(c, entries[i]) \in Int /\ b.sim \in Int /\ n.sim \in Int
      <4>1. entries[i] \in Entry
        BY <1>2, ListType
      <4>2. Sim(c, entries[i]) \in Int
        BY <4>1, SimType
      <4>3. b \in Scores /\ n \in Scores
        BY <2>1, <2>7 DEF Finds
      <4> HIDE DEF b, n
      <4>4. QED
        BY <4>2, <4>3 DEF Scores
    <3>2. CASE i \in 1..k
      <4>1. Sim(c, entries[i]) <= b.sim
        BY <2>1, <2>8, <3>2 DEF Finds
      <4>2. n.sim >= b.sim
        BY <2>7
      <4> HIDE DEF n, b
      <4>3. QED
        BY <3>1, <4>1, <4>2
    <3>3. CASE i = k + 1
      <4>1. n.sim >= Sim(c, entries[i])
        BY <2>7, <2>8, <3>3
      <4> HIDE DEF n, b
      <4>2. QED
        BY <3>1, <4>1
    <3>4. QED
      BY <3>2, <3>3
  <2>9. \/ n = Start
        \/ \E i \in 1..k + 1 : /\ Fresh(entries[i], stamp[c])
                               /\ n = [sim |-> Sim(c, entries[i]), entry |-> entries[i]]
    <3>1. k + 1 \in 1..k + 1 /\ 1..k \subseteq 1..k + 1
      OBVIOUS
    <3>2. CASE n = b
      <4> HIDE DEF n, b
      <4>1. \/ b = Start
            \/ \E i \in 1..k : /\ Fresh(entries[i], stamp[c])
                               /\ b = [sim |-> Sim(c, entries[i]), entry |-> entries[i]]
        BY <2>1 DEF Finds, b
      <4>2. QED
        BY <3>1, <3>2, <4>1
    <3>3. CASE Fresh(e, stamp[c]) /\ n = [sim |-> Sim(c, e), entry |-> e]
      <4> HIDE DEF n
      <4> QED
        BY <3>1, <3>3
    <3>4. QED
      BY <2>7, <3>2, <3>3
  <2> HIDE DEF n, e
  <2>10. QED
    BY <2>5, <2>7, <2>8, <2>9 DEF Finds, n, e
<1>5. Len(entries) \in G
  <2> HIDE DEF G
  <2> QED
    BY <1>2, <1>3, <1>4, AllNaturals
<1>6. QED
  BY <1>1, <1>2, <1>5

-----------------------------------------------------------------------------
(* The invariant: types, the list, and what each caller is about.          *)

Types ==
    /\ kind \in {"memory", "pgvector"}
    /\ now \in 0..MaxTime
    /\ rows \subseteq Entry
    /\ point \in [Clients -> {"idle", "embed", "scan", "put"}]
    /\ prompt \in [Clients -> Prompts \cup {None}]
    /\ began \in [Clients -> 0..MaxTime]
    /\ stamp \in [Clients -> -TTL..MaxTime]
    /\ answer \in [Clients -> Entry \cup {None}]
    /\ stores \in 0..MaxStores
    /\ restarts \in 0..MaxRestarts

\* A call is about a prompt; what it stores was created at a moment, and what it
\* looks up may be at most a TTL older than its beginning.
Calling(c) ==
    /\ point[c] # "idle" \/ answer[c] # None => prompt[c] \in Prompts
    /\ point[c] = "put" => stamp[c] \in 0..MaxTime
    /\ began[c] <= now
    /\ point[c] = "scan" => stamp[c] + TTL >= began[c]

FreshAnswer(c) == answer[c] # None => answer[c].created + TTL >= began[c]

NearAnswer(c) ==
    answer[c] # None =>
        \/ Similarity[prompt[c], answer[c].prompt] >= Threshold
        \/ kind = "pgvector" /\ ~Comparable(c, answer[c])

ClientInv(c) == Calling(c) /\ FreshAnswer(c) /\ NearAnswer(c)

IInv == Types /\ Recent(entries, dropped) /\ \A c \in Clients : ClientInv(c)

\* The numbers among the types.
LEMMA Numbers ==
    ASSUME Types
    PROVE  /\ TTL \in Nat /\ now \in Nat /\ Threshold \in Int /\ Threshold > 0
           /\ \A c \in Clients : began[c] \in Nat /\ stamp[c] \in Int
           /\ \A e \in Entry : e.created \in Nat
           /\ 0 \in 0..MaxTime /\ 0 \in -TTL..MaxTime /\ MaxTime \in Nat
<1>1. MaxTime \in Nat /\ TTL \in Nat /\ Threshold \in 1..100
  BY BoundsAssumption, KnobsAssumption
<1>2. 0..MaxTime \subseteq Nat /\ -TTL..MaxTime \subseteq Int
  BY <1>1
<1>3. /\ began \in [Clients -> 0..MaxTime] /\ stamp \in [Clients -> -TTL..MaxTime]
      /\ now \in 0..MaxTime
  BY DEF Types
<1>4. \A c \in Clients : began[c] \in 0..MaxTime /\ stamp[c] \in -TTL..MaxTime
  BY <1>3
<1>5. \A e \in Entry : e.created \in 0..MaxTime
  BY DEF Entry
<1>6. 0 \in 0..MaxTime /\ 0 \in -TTL..MaxTime
  BY <1>1
<1>7. QED
  BY <1>1, <1>2, <1>3, <1>4, <1>5, <1>6

\* A client that no step is about stays as it is, though time passes.
LEMMA OthersStep ==
    ASSUME IInv, NEW c \in Clients,
           now' \in Nat, now <= now', kind' = kind, point'[c] = point[c],
           prompt'[c] = prompt[c], began'[c] = began[c], stamp'[c] = stamp[c],
           answer'[c] = answer[c]
    PROVE  ClientInv(c)'
<1>1. began[c] \in Nat /\ now \in Nat /\ ClientInv(c)
  BY Numbers DEF IInv
<1>2. began'[c] <= now'
  BY <1>1 DEF ClientInv, Calling
<1>3. Calling(c)'
  BY <1>1, <1>2 DEF ClientInv, Calling
<1>4. FreshAnswer(c)'
  BY <1>1 DEF ClientInv, FreshAnswer
<1>5. NearAnswer(c)'
  BY <1>1 DEF ClientInv, NearAnswer, Comparable
<1>6. QED
  BY <1>3, <1>4, <1>5 DEF ClientInv

\* The call of c may return e.
MayServe(c, e) ==
    e # None =>
        /\ prompt[c] \in Prompts
        /\ e.created + TTL >= began[c]
        /\ \/ Similarity[prompt[c], e.prompt] >= Threshold
           \/ kind = "pgvector" /\ ~Comparable(c, e)

\* What is left of Types when a call returns, ...
LEMMA ReturnTypes ==
    ASSUME IInv, NEW c \in Clients, NEW points,
           NEW e \in Entry \cup {None}, Returns(c, points, e),
           UNCHANGED <<now, kind, stores, restarts>>, rows' \subseteq Entry
    PROVE  Types'
<1>1. /\ point' = [point EXCEPT ![c] = "idle"]
      /\ answer' = [answer EXCEPT ![c] = e]
      /\ stamp' = [stamp EXCEPT ![c] = 0]
      /\ prompt' = [prompt EXCEPT ![c] = None] \/ prompt' = prompt
      /\ began' = [began EXCEPT ![c] = 0] \/ began' = began
  BY DEF Returns
<1>2. Types /\ 0 \in 0..MaxTime /\ 0 \in -TTL..MaxTime
  BY Numbers DEF IInv
<1>3. point' \in [Clients -> {"idle", "embed", "scan", "put"}]
  BY <1>1, <1>2 DEF Types
<1>4. answer' \in [Clients -> Entry \cup {None}]
  BY <1>1, <1>2 DEF Types
<1>5. stamp' \in [Clients -> -TTL..MaxTime]
  BY <1>1, <1>2 DEF Types
<1>6. prompt' \in [Clients -> Prompts \cup {None}]
  BY <1>1, <1>2 DEF Types
<1>7. began' \in [Clients -> 0..MaxTime]
  BY <1>1, <1>2 DEF Types
<1>8. QED
  BY <1>2, <1>3, <1>4, <1>5, <1>6, <1>7 DEF Types

\* ... and of the clients when it has returned what it may.
LEMMA ReturnStep ==
    ASSUME IInv, NEW c \in Clients, NEW points,
           NEW e \in Entry \cup {None}, Returns(c, points, e),
           now' = now, kind' = kind, MayServe(c, e)
    PROVE  \A d \in Clients : ClientInv(d)'
<1>0. now \in Nat /\ began[c] \in Nat /\ began[c] <= now
  BY Numbers DEF IInv, ClientInv, Calling
<1>1. /\ point \in [Clients -> {"idle", "embed", "scan", "put"}]
      /\ answer \in [Clients -> Entry \cup {None}]
      /\ began \in [Clients -> 0..MaxTime]
      /\ stamp \in [Clients -> -TTL..MaxTime]
      /\ prompt \in [Clients -> Prompts \cup {None}]
  BY DEF IInv, Types
<1>2. /\ point' = [point EXCEPT ![c] = "idle"]
      /\ answer' = [answer EXCEPT ![c] = e]
      /\ stamp' = [stamp EXCEPT ![c] = 0]
      /\ prompt' = [prompt EXCEPT ![c] = None] \/ prompt' = prompt
      /\ began' = [began EXCEPT ![c] = 0] \/ began' = began
      /\ e # None => prompt' = prompt /\ began' = began
  BY DEF Returns
<1>3. ASSUME NEW d \in Clients, d # c PROVE ClientInv(d)'
  <2>1. /\ point'[d] = point[d] /\ prompt'[d] = prompt[d] /\ began'[d] = began[d]
        /\ stamp'[d] = stamp[d] /\ answer'[d] = answer[d]
    BY <1>1, <1>2, <1>3
  <2>2. now' \in Nat /\ now <= now'
    BY <1>0
  <2>3. QED
    BY <2>1, <2>2, OthersStep
<1>4. answer'[c] = e /\ point'[c] = "idle" /\ began'[c] \in {began[c], 0}
  BY <1>1, <1>2
<1>5. Calling(c)'
  <2>1. began'[c] <= now'
    BY <1>0, <1>4
  <2>2. e # None => prompt'[c] \in Prompts
    BY <1>2 DEF MayServe
  <2>3. QED
    BY <1>4, <2>1, <2>2 DEF Calling
<1>6. FreshAnswer(c)'
  BY <1>2, <1>4 DEF FreshAnswer, MayServe
<1>7. NearAnswer(c)'
  BY <1>2, <1>4 DEF NearAnswer, MayServe, Comparable
<1>8. ClientInv(c)'
  BY <1>5, <1>6, <1>7 DEF ClientInv
<1>9. QED
  BY <1>3, <1>8

\* A call begins: it has no answer yet.
LEMMA CallStep ==
    ASSUME IInv, NEW c \in Clients, NEW p \in Prompts,
           NEW t \in 0..MaxTime, NEW to \in {"embed", "put"},
           Goes(c, "idle", to), Calls(c, p, t),
           UNCHANGED <<now, kind, rows, restarts>>, stores' \in 0..MaxStores
    PROVE  Types' /\ \A d \in Clients : ClientInv(d)'
<1>0. /\ Types /\ now \in Nat /\ MaxTime \in Nat /\ TTL \in Nat
      /\ t \in -TTL..MaxTime
  <2>1. Types /\ now \in Nat /\ MaxTime \in Nat /\ TTL \in Nat
    BY Numbers DEF IInv
  <2>2. QED
    BY <2>1
<1>1. /\ point' = [point EXCEPT ![c] = to]
      /\ prompt' = [prompt EXCEPT ![c] = p]
      /\ began' = [began EXCEPT ![c] = now]
      /\ stamp' = [stamp EXCEPT ![c] = t]
      /\ answer' = [answer EXCEPT ![c] = None]
  BY DEF Goes, Calls
<1>2. Types'
  <2>1. point' \in [Clients -> {"idle", "embed", "scan", "put"}]
    BY <1>0, <1>1 DEF Types
  <2>2. prompt' \in [Clients -> Prompts \cup {None}]
    BY <1>0, <1>1 DEF Types
  <2>3. began' \in [Clients -> 0..MaxTime]
    BY <1>0, <1>1 DEF Types
  <2>4. stamp' \in [Clients -> -TTL..MaxTime]
    BY <1>0, <1>1 DEF Types
  <2>5. answer' \in [Clients -> Entry \cup {None}]
    BY <1>0, <1>1 DEF Types
  <2>6. QED
    BY <1>0, <2>1, <2>2, <2>3, <2>4, <2>5 DEF Types
<1>3. /\ point'[c] = to /\ prompt'[c] = p /\ began'[c] = now /\ stamp'[c] = t
      /\ answer'[c] = None
  BY <1>0, <1>1 DEF Types
<1>4. ClientInv(c)'
  <2>1. began'[c] <= now'
    BY <1>0, <1>3
  <2>2. QED
    BY <1>3, <2>1 DEF ClientInv, Calling, FreshAnswer, NearAnswer
<1>5. ASSUME NEW d \in Clients, d # c PROVE ClientInv(d)'
  <2>1. /\ point'[d] = point[d] /\ prompt'[d] = prompt[d] /\ began'[d] = began[d]
        /\ stamp'[d] = stamp[d] /\ answer'[d] = answer[d]
    BY <1>0, <1>1, <1>5 DEF Types
  <2>2. now' \in Nat /\ now <= now'
    BY <1>0
  <2>3. QED
    BY <2>1, <2>2, OthersStep
<1>6. QED
  BY <1>2, <1>4, <1>5

\* The memory store serves a fresh entry that is near enough, or nothing.
LEMMA NearestServes ==
    ASSUME IInv, NEW c \in Clients, Nearest(c)
    PROVE  \E e \in Entry \cup {None} : Returns(c, {"scan"}, e) /\ MayServe(c, e)
<1>1. /\ point[c] = "scan" /\ prompt[c] \in Prompts /\ stamp[c] \in Int
      /\ began[c] \in Nat /\ stamp[c] + TTL >= began[c] /\ TTL \in Nat
      /\ Threshold \in Int /\ Threshold > 0
      /\ entries \in Lists
  BY Numbers DEF Nearest, Returns, IInv, ClientInv, Calling, Recent
<1>2. Finds(Best(c), c, Len(entries))
  BY <1>1, ScanFinds
<1>3. Returns(c, {"scan"}, IF Best(c).sim < Threshold THEN None ELSE Best(c).entry)
  BY Zenon DEF Nearest, Best, Start
<1>4. CASE Best(c).sim < Threshold
  BY <1>3, <1>4 DEF MayServe
<1>5. CASE ~(Best(c).sim < Threshold)
  <2>1. Best(c).sim \in Int
    BY <1>2 DEF Finds, Scores
  <2>2. Best(c) # Start
    <3>1. Start.sim < Threshold
      BY <1>1 DEF Start
    <3>2. QED
      BY <1>5, <3>1
  <2>3. PICK i \in 1..Len(entries) :
            /\ Fresh(entries[i], stamp[c])
            /\ Best(c) = [sim |-> Sim(c, entries[i]), entry |-> entries[i]]
    BY <1>2, <2>2 DEF Finds
  <2>4. /\ entries[i] \in Entry /\ entries[i].created \in Nat
        /\ entries[i].created >= stamp[c]
    BY <1>1, <2>3, ListType DEF Fresh
  <2>5. /\ Best(c).entry = entries[i]
        /\ Similarity[prompt[c], entries[i].prompt] >= Threshold
    <3>1. Best(c).entry = entries[i] /\ Best(c).sim = Sim(c, entries[i])
      BY <2>3
    <3>2. Best(c).sim >= Threshold
      BY <1>1, <1>5, <2>1
    <3>3. QED
      BY <3>1, <3>2 DEF Sim
  <2>6. entries[i].created + TTL >= began[c]
    BY <1>1, <2>4
  <2>7. QED
    BY <1>1, <1>3, <1>5, <2>4, <2>5, <2>6 DEF MayServe
<1>6. QED
  BY <1>4, <1>5

\* So does Postgres, but for the zero vector.
LEMMA QueryServes ==
    ASSUME IInv, NEW c \in Clients, Query(c)
    PROVE  \E e \in Entry \cup {None} : Returns(c, {"scan"}, e) /\ MayServe(c, e)
<1>1. kind = "pgvector" /\ point[c] = "scan" /\ rows \subseteq Entry
  BY DEF Query, IInv, Types
<1>2. CASE Returns(c, {"scan"}, None)
  BY <1>2 DEF MayServe
<1>3. ASSUME NEW e \in Selected(c), NotBelow(c, e), Returns(c, {"scan"}, e)
      PROVE  \E x \in Entry \cup {None} : Returns(c, {"scan"}, x) /\ MayServe(c, x)
  <2>1. e \in Entry /\ e.created >= stamp[c]
    BY <1>1 DEF Selected, Fresh
  <2>2. stamp[c] + TTL >= began[c] /\ prompt[c] \in Prompts
    BY <1>1 DEF IInv, ClientInv, Calling
  <2>3. e.created \in Int /\ stamp[c] \in Int /\ began[c] \in Int /\ TTL \in Int
    BY <2>1, Numbers DEF IInv
  <2>4. e.created + TTL >= began[c]
    BY <2>1, <2>2, <2>3
  <2>5. MayServe(c, e)
    BY <1>1, <1>3, <2>2, <2>4 DEF MayServe, NotBelow
  <2>6. QED
    BY <1>3, <2>1, <2>5
<1>4. QED
  BY <1>2, <1>3 DEF Query

\* What a Store puts is an entry.
LEMMA NewEntryType ==
    ASSUME IInv, NEW c \in Clients, point[c] = "put"
    PROVE  NewEntry(c) \in Entry
<1>1. prompt[c] \in Prompts /\ stamp[c] \in 0..MaxTime
  BY DEF IInv, ClientInv, Calling
<1>2. QED
  BY <1>1 DEF NewEntry, Entry

LEMMA ClientsStep ==
    ASSUME IInv, [Next]_vars
    PROVE  Types' /\ \A c \in Clients : ClientInv(c)'
<1>0. /\ Types /\ now \in Nat /\ MaxTime \in Nat /\ TTL \in Nat
      /\ 0 \in 0..MaxTime /\ 0 \in -TTL..MaxTime
  BY Numbers DEF IInv
<1>1. CASE Tick \/ UNCHANGED vars
  <2>1. /\ UNCHANGED <<storeVars, point, callVars, stores>>
        /\ now' \in 0..MaxTime /\ now <= now'
    <3>1. now \in 0..MaxTime
      BY <1>0 DEF Types
    <3>2. now' = now \/ (now < MaxTime /\ now' = now + 1)
      BY <1>1 DEF Tick, vars
    <3>3. UNCHANGED <<storeVars, point, callVars, stores>>
      BY <1>1 DEF Tick, vars
    <3>4. QED
      BY <1>0, <3>1, <3>2, <3>3
  <2>2. Types'
    BY <1>0, <2>1 DEF Types, callVars, storeVars
  <2>3. now' \in Nat
    BY <1>0, <2>1
  <2>4. \A c \in Clients : ClientInv(c)'
    BY <2>1, <2>3, OthersStep DEF callVars, storeVars
  <2>5. QED
    BY <2>2, <2>4
<1>2. CASE Restart
  <2>1. /\ point' = [c \in Clients |-> "idle"] /\ prompt' = [c \in Clients |-> None]
        /\ began' = [c \in Clients |-> 0] /\ stamp' = [c \in Clients |-> 0]
        /\ answer' = [c \in Clients |-> None]
        /\ UNCHANGED <<now, kind, rows, stores>>
        /\ restarts < MaxRestarts /\ restarts' = restarts + 1
    BY <1>2 DEF Restart
  <2>2. restarts' \in 0..MaxRestarts
    <3>1. restarts \in 0..MaxRestarts /\ MaxRestarts \in Nat
      BY <1>0, BoundsAssumption DEF Types
    <3>2. QED
      BY <2>1, <3>1
  <2>3. Types'
    BY <1>0, <2>1, <2>2 DEF Types
  <2>4. \A c \in Clients : ClientInv(c)'
    BY <1>0, <2>1 DEF ClientInv, Calling, FreshAnswer, NearAnswer
  <2>5. QED
    BY <2>3, <2>4
<1>3. ASSUME NEW c \in Clients, Lookup(c) \/ Store(c)
      PROVE  Types' /\ \A d \in Clients : ClientInv(d)'
  <2>1. UNCHANGED <<now, kind, rows, restarts>>
    BY <1>3 DEF Lookup, Store, storeVars
  <2>2. stores' \in 0..MaxStores
    <3>1. stores \in 0..MaxStores /\ MaxStores \in Nat
      BY <1>0, BoundsAssumption DEF Types
    <3>2. stores' = stores \/ (stores < MaxStores /\ stores' = stores + 1)
      BY <1>3 DEF Lookup, Store
    <3>3. QED
      BY <3>1, <3>2
  <2>3. CASE Lookup(c)
    BY <1>0, <2>1, <2>2, <2>3, CallStep DEF Lookup
  <2>4. CASE Store(c)
    <3>1. now \in 0..MaxTime
      BY <1>0 DEF Types
    <3>2. QED
      BY <2>1, <2>2, <2>4, <3>1, CallStep DEF Store
  <2>5. QED
    BY <1>3, <2>3, <2>4
<1>4. ASSUME NEW c \in Clients, Embedded(c)
      PROVE  Types' /\ \A d \in Clients : ClientInv(d)'
  <2>1. /\ point[c] = "embed" /\ point' = [point EXCEPT ![c] = "scan"]
        /\ stamp' = [stamp EXCEPT ![c] = now - TTL]
        /\ UNCHANGED <<now, kind, rows, restarts, prompt, began, answer, stores>>
    BY <1>4 DEF Embedded, Goes, storeVars
  <2>2. now - TTL \in -TTL..MaxTime /\ now - TTL \in Int
    <3>1. now \in 0..MaxTime
      BY <1>0 DEF Types
    <3>2. QED
      BY <1>0, <3>1
  <2>3. Types'
    <3>1. point' \in [Clients -> {"idle", "embed", "scan", "put"}]
      BY <1>0, <2>1 DEF Types
    <3>2. stamp' \in [Clients -> -TTL..MaxTime]
      BY <1>0, <2>1, <2>2 DEF Types
    <3>3. QED
      BY <1>0, <2>1, <3>1, <3>2 DEF Types
  <2>4. point'[c] = "scan" /\ stamp'[c] = now - TTL
    BY <1>0, <2>1 DEF Types
  <2>5. /\ prompt[c] \in Prompts /\ began[c] <= now /\ began[c] \in Nat
        /\ FreshAnswer(c) /\ NearAnswer(c)
    BY <2>1, Numbers DEF IInv, ClientInv, Calling
  <2>6. stamp'[c] + TTL >= began'[c]
    BY <1>0, <2>1, <2>4, <2>5
  <2>7. FreshAnswer(c)' /\ NearAnswer(c)'
    BY <2>1, <2>5 DEF FreshAnswer, NearAnswer, Comparable
  <2>8. ClientInv(c)'
    BY <2>1, <2>4, <2>5, <2>6, <2>7 DEF ClientInv, Calling
  <2>9. ASSUME NEW d \in Clients, d # c PROVE ClientInv(d)'
    <3>1. point'[d] = point[d] /\ stamp'[d] = stamp[d]
      BY <1>0, <2>1, <2>9 DEF Types
    <3>2. now' \in Nat /\ now <= now'
      BY <1>0, <2>1
    <3>3. QED
      BY <2>1, <3>1, <3>2, OthersStep
  <2>10. QED
    BY <2>3, <2>8, <2>9
<1>5. ASSUME NEW c \in Clients, Nearest(c) \/ Query(c)
      PROVE  Types' /\ \A d \in Clients : ClientInv(d)'
  <2>1. PICK e \in Entry \cup {None} : Returns(c, {"scan"}, e) /\ MayServe(c, e)
    BY <1>5, NearestServes, QueryServes
  <2>2. UNCHANGED <<now, kind, rows, restarts, stores>>
    BY <1>5 DEF Nearest, Query, storeVars
  <2>3. rows' \subseteq Entry
    BY <1>0, <2>2 DEF Types
  <2>4. QED
    BY <2>1, <2>2, <2>3, ReturnTypes, ReturnStep
<1>6. ASSUME NEW c \in Clients, Put(c) \/ Insert(c) \/ Fails(c)
      PROVE  Types' /\ \A d \in Clients : ClientInv(d)'
  <2>1. \E points : Returns(c, points, None)
    BY <1>6, Zenon DEF Put, Insert, Fails
  <2>2. UNCHANGED <<now, kind, restarts, stores>>
    BY <1>6 DEF Put, Insert, Fails, storeVars
  <2>3. rows' \subseteq Entry
    <3>1. CASE Insert(c)
      <4>1. point[c] = "put" /\ rows' = rows \cup {NewEntry(c)}
        BY <3>1 DEF Insert, Returns
      <4>2. QED
        BY <1>0, <4>1, NewEntryType DEF Types
    <3>2. CASE Put(c) \/ Fails(c)
      BY <1>0, <3>2 DEF Put, Fails, storeVars, Types
    <3>3. QED
      BY <1>6, <3>1, <3>2
  <2>4. MayServe(c, None)
    BY DEF MayServe
  <2>5. QED
    BY <2>1, <2>2, <2>3, <2>4, ReturnTypes, ReturnStep
<1>7. QED
  BY <1>1, <1>2, <1>3, <1>4, <1>5, <1>6 DEF Next

LEMMA RecentStep ==
    ASSUME IInv, [Next]_vars
    PROVE  Recent(entries, dropped)'
<1>1. CASE UNCHANGED <<entries, dropped>>
  BY <1>1 DEF IInv, Recent
<1>2. CASE Restart
  <2>1. entries' = <<>> /\ dropped' = -1 /\ -1 \in -1..MaxTime
    BY <1>2, BoundsAssumption DEF Restart
  <2>2. QED
    BY <2>1, KnobsAssumption DEF Recent, Lists
<1>3. ASSUME NEW c \in Clients, Put(c) PROVE Recent(entries, dropped)'
  <2> DEFINE all == Append(entries, NewEntry(c))
  <2>1. point[c] = "put" /\ entries' = Trim(all) /\ dropped' = Newest(all, Trim(all))
    BY <1>3 DEF Put, Returns
  <2>2. NewEntry(c) \in Entry
    BY <2>1, NewEntryType
  <2>3. Recent(Trim(all), Newest(all, Trim(all)))
    BY <2>2, PutKeepsRecent DEF IInv
  <2> HIDE DEF all
  <2>4. QED
    BY <2>1, <2>3 DEF Recent
<1>4. QED
  BY <1>1, <1>2, <1>3
  DEF Next, Tick, Lookup, Embedded, Nearest, Query, Store, Insert, Fails,
      storeVars, vars

\* The invariant of both stores and of every caller.
THEOREM InvariantHolds == Spec => []IInv
<1>1. Init => IInv
  <2> SUFFICES ASSUME Init PROVE IInv
    OBVIOUS
  <2>1. /\ {0} \subseteq 0..MaxTime /\ {0} \subseteq -TTL..MaxTime
        /\ -1 \in -1..MaxTime /\ 0 \in 0..MaxStores /\ 0 \in 0..MaxRestarts
    BY BoundsAssumption, KnobsAssumption
  <2>2. Types
    BY <2>1 DEF Init, Types
  <2>3. Recent(entries, dropped)
    BY <2>1, KnobsAssumption DEF Init, Recent, Lists
  <2>4. \A c \in Clients : ClientInv(c)
    BY DEF Init, ClientInv, Calling, FreshAnswer, NearAnswer
  <2>5. QED
    BY <2>2, <2>3, <2>4 DEF IInv
<1>2. IInv /\ [Next]_vars => IInv'
  BY ClientsStep, RecentStep DEF IInv
<1>3. QED
  BY <1>1, <1>2, PTL DEF Spec

-----------------------------------------------------------------------------

\* Type correctness, with the bound of the list and of its timestamps.
THEOREM TypeCorrect == Spec => []TypeOK
<1>1. IInv => TypeOK
  BY DEF IInv, Types, Recent, Lists, TypeOK
<1>2. QED
  BY <1>1, InvariantHolds, PTL

\* The list of the memory store never holds more than maxSize entries.
THEOREM ListBounded == Spec => [](Len(entries) <= MaxSize)
<1>1. IInv => Len(entries) <= MaxSize
  BY DEF IInv, Recent
<1>2. QED
  BY <1>1, InvariantHolds, PTL

\* Put drops nothing newer than what it keeps, and nothing while there is room,
\* in whatever order entries arrive.
THEOREM MostRecentAreKept == Spec => []KeepsMostRecent
<1>1. IInv => KeepsMostRecent
  BY DEF IInv, Recent, KeepsMostRecent, Range
<1>2. QED
  BY <1>1, InvariantHolds, PTL

\* What a Lookup serves was fresh when the call began or later, from either store,
\* for any TTL, any clients and any restarts.
THEOREM ServesFresh == Spec => []ServedFresh
<1>1. IInv => ServedFresh
  BY DEF IInv, ClientInv, FreshAnswer, ServedFresh
<1>2. QED
  BY <1>1, InvariantHolds, PTL

\* What a Lookup serves is as near as the threshold asks, from the memory store
\* always and from Postgres whenever neither embedding is the zero vector: NaN,
\* of which "sim < threshold" is false, is the only way past the threshold.
THEOREM ServesNear ==
    Spec => [](\A c \in Clients :
                  answer[c] # None =>
                      \/ Similarity[prompt[c], answer[c].prompt] >= Threshold
                      \/ kind = "pgvector" /\ ~Comparable(c, answer[c]))
<1>1. IInv => \A c \in Clients :
                 answer[c] # None =>
                     \/ Similarity[prompt[c], answer[c].prompt] >= Threshold
                     \/ kind = "pgvector" /\ ~Comparable(c, answer[c])
  BY DEF IInv, ClientInv, NearAnswer
<1>2. QED
  BY <1>1, InvariantHolds, PTL

\* The pass over the list finds the nearest neighbour: what it returns is a match
\* that no other is nearer than, and it returns nothing only if nothing matches.
THEOREM ScanFindsNearest == Spec => FindsNearest
<1> DEFINE Found(c) ==
        kind = "memory" /\ point[c] = "scan" /\ point'[c] = "idle"
              /\ restarts' = restarts =>
            IF Matches(c) = {} THEN answer'[c] = None
            ELSE /\ answer'[c] \in Matches(c)
                 /\ \A e \in Matches(c) :
                       Similarity[prompt[c], e.prompt]
                           <= Similarity[prompt[c], answer'[c].prompt]
<1>1. ASSUME IInv, [Next]_vars, NEW c \in Clients,
             kind = "memory", point[c] = "scan", point'[c] = "idle",
             restarts' = restarts
      PROVE  Nearest(c)
  <2>1. ~(Tick \/ UNCHANGED vars)
    BY <1>1 DEF Tick, vars
  <2>2. ~Restart
    <3>1. restarts \in Int
      BY <1>1, BoundsAssumption DEF IInv, Types
    <3>2. QED
      BY <1>1, <3>1 DEF Restart
  <2>3. ASSUME NEW d \in Clients,
               \/ Lookup(d) \/ Embedded(d) \/ Nearest(d) \/ Query(d)
               \/ Store(d) \/ Put(d) \/ Insert(d) \/ Fails(d)
        PROVE  d = c
    <3>1. \A from, to : Goes(d, from, to) /\ d # c => point'[c] = point[c]
      BY <1>1 DEF Goes, IInv, Types
    <3>2. \A points, e : Returns(d, points, e) /\ d # c => point'[c] = point[c]
      BY <1>1 DEF Returns, IInv, Types
    <3>3. QED
      BY <1>1, <2>3, <3>1, <3>2
      DEF Lookup, Embedded, Nearest, Query, Store, Put, Insert, Fails
  <2>4. ~(Lookup(c) \/ Embedded(c) \/ Store(c))
    BY <1>1 DEF Lookup, Embedded, Store, Goes
  <2>5. ~(Query(c) \/ Put(c) \/ Insert(c) \/ Fails(c))
    BY <1>1 DEF Query, Put, Insert, Fails, Returns
  <2>6. QED
    BY <1>1, <2>1, <2>2, <2>3, <2>4, <2>5 DEF Next
<1>2. ASSUME IInv, NEW c \in Clients, Nearest(c) PROVE Found(c)
  <2>1. /\ prompt[c] \in Prompts /\ stamp[c] \in Int /\ entries \in Lists
        /\ Threshold \in Int /\ Threshold > 0
    BY <1>2, Numbers DEF Nearest, Returns, IInv, ClientInv, Calling, Recent
  <2>2. Finds(Best(c), c, Len(entries)) /\ Best(c).sim \in Int
    BY <2>1, ScanFinds DEF Finds, Scores
  <2>3. answer'[c] = IF Best(c).sim < Threshold THEN None ELSE Best(c).entry
    <3>1. Returns(c, {"scan"}, IF Best(c).sim < Threshold THEN None ELSE Best(c).entry)
      BY <1>2, Zenon DEF Nearest, Best, Start
    <3>2. answer \in [Clients -> Entry \cup {None}]
      BY <1>2 DEF IInv, Types
    <3>3. QED
      BY <3>1, <3>2 DEF Returns
  <2>4. Matches(c) =
            {e \in Range(entries) : Fresh(e, stamp[c]) /\ Sim(c, e) >= Threshold}
    BY DEF Matches, Fresh, Sim
  <2>5. ASSUME NEW e \in Matches(c)
        PROVE  /\ Sim(c, e) \in Int /\ Sim(c, e) >= Threshold
               /\ Sim(c, e) <= Best(c).sim
    <3>1. PICK i \in 1..Len(entries) : e = entries[i]
      BY <2>1, <2>4, ListType DEF Range
    <3>2. Fresh(e, stamp[c]) /\ Sim(c, e) >= Threshold
      BY <2>4
    <3>3. Sim(c, e) \in Int
      BY <2>1, <3>1, ListType, SimType
    <3>4. QED
      BY <2>2, <3>1, <3>2, <3>3 DEF Finds
  <2>6. CASE Best(c).sim < Threshold
    <3>1. Matches(c) = {}
      BY <2>1, <2>2, <2>5, <2>6
    <3>2. QED
      BY <2>3, <2>6, <3>1
  <2>7. CASE ~(Best(c).sim < Threshold)
    <3>1. Best(c).sim >= Threshold /\ Best(c) # Start
      <4>1. Start.sim < Threshold
        BY <2>1 DEF Start
      <4>2. QED
        BY <2>1, <2>2, <2>7, <4>1
    <3>2. PICK i \in 1..Len(entries) :
              /\ Fresh(entries[i], stamp[c])
              /\ Best(c) = [sim |-> Sim(c, entries[i]), entry |-> entries[i]]
      BY <2>2, <3>1 DEF Finds
    <3>3. answer'[c] = entries[i] /\ Best(c).sim = Sim(c, entries[i])
      <4>1. Best(c).entry = entries[i] /\ Best(c).sim = Sim(c, entries[i])
        BY <3>2
      <4>2. QED
        BY <2>3, <2>7, <4>1
    <3>4. entries[i] \in Matches(c)
      BY <2>1, <2>4, <3>1, <3>2, <3>3, ListType DEF Range
    <3>5. \A e \in Matches(c) : Sim(c, e) <= Sim(c, answer'[c])
      BY <2>5, <3>3
    <3>6. QED
      BY <3>3, <3>4, <3>5 DEF Sim
  <2>8. QED
    BY <2>6, <2>7
<1>3. IInv /\ [Next]_vars => [\A c \in Clients : Found(c)]_vars
  <2> HIDE DEF Found
  <2>1. ASSUME IInv, [Next]_vars, NEW c \in Clients PROVE Found(c)
    <3>1. CASE Nearest(c)
      BY <1>2, <2>1, <3>1
    <3>2. CASE ~Nearest(c)
      BY <1>1, <2>1, <3>2 DEF Found
    <3>3. QED
      BY <3>1, <3>2
  <2>2. QED
    BY <2>1
<1>4. QED
  BY <1>3, InvariantHolds, PTL DEF Spec, FindsNearest, Found

-----------------------------------------------------------------------------
(* The hashing embedder: what its similarities are, and what a hit means.  *)

Vectors == [0..Dim - 1 -> Int]

\* The products that Dot adds up.
Products(u, v) == [i \in 0..Dim - 1 |-> u[i] * v[i]]

LEMMA ProductsType ==
    ASSUME NEW u \in Vectors, NEW v \in Vectors
    PROVE  /\ IsFiniteSet(0..Dim - 1)
           /\ Products(u, v) \in [0..Dim - 1 -> Int]
           /\ Products(u, v) = Products(v, u)
           /\ \A i \in 0..Dim - 1 : Products(u, u)[i] >= 0
<1>1. IsFiniteSet(0..Dim - 1)
  BY DimAssumption, FS_Interval
<1>2. \A i \in 0..Dim - 1 : u[i] \in Int /\ v[i] \in Int
  BY DEF Vectors
<1>3. \A a, b \in Int : a * b \in Int /\ a * b = b * a /\ a * a >= 0
  OBVIOUS
<1>4. \A i \in 0..Dim - 1 : /\ u[i] * v[i] \in Int /\ u[i] * v[i] = v[i] * u[i]
                           /\ u[i] * u[i] >= 0
  BY <1>2, <1>3
<1>5. QED
  BY <1>1, <1>4 DEF Products

\* Dot is a sum.
LEMMA DotAdds ==
    ASSUME NEW u \in Vectors, NEW v \in Vectors
    PROVE  \E it : Adds(it, 0..Dim - 1, Products(u, v)) /\ Dot(u, v) = it[0..Dim - 1]
<1> DEFINE D == 0..Dim - 1
           w == Products(u, v)
           Round(it, s) == IF s = {} THEN 0
                           ELSE w[CHOOSE x \in s : TRUE]
                                    + it[s \ {CHOOSE x \in s : TRUE}]
           jt == CHOOSE it : it = [s \in SUBSET D |-> Round(it, s)]
<1>1. \E it : Adds(it, D, w)
  <2>1. IsFiniteSet(D) /\ w \in [D -> Int]
    BY ProductsType
  <2> HIDE DEF w, D
  <2>2. QED
    BY <2>1, AddsExists
<1>2. \A it : Adds(it, D, w) <=> it = [s \in SUBSET D |-> Round(it, s)]
  <2> HIDE DEF w, D
  <2> QED
    BY DEF Adds
<1>3. Adds(jt, D, w)
  <2> HIDE DEF w, D, Round
  <2> QED
    BY <1>1, <1>2
<1>4. Dot(u, v) = jt[D]
  <2>1. DOMAIN w = D
    BY DEF Products
  <2>2. Dot(u, v) = FoldFunction(+, 0, w)
    BY DEF Dot, Products
  <2> HIDE DEF w
  <2>3. QED
    BY <2>1, <2>2 DEF FoldFunction, FoldFunctionOnSet, MapThenFoldSet
<1>5. QED
  <2> HIDE DEF jt, w, D
  <2> QED
    BY <1>3, <1>4 DEF w, D

\* Dot is a number, the same both ways, from zero on for a vector with itself,
\* and not zero only if both vectors are so at some place.
LEMMA DotType ==
    ASSUME NEW u \in Vectors, NEW v \in Vectors
    PROVE  /\ Dot(u, v) \in Int /\ Dot(u, v) = Dot(v, u)
           /\ Dot(u, u) \in Nat
           /\ Dot(u, v) # 0 => \E i \in 0..Dim - 1 : u[i] # 0 /\ v[i] # 0
<1>1. PICK it : Adds(it, 0..Dim - 1, Products(u, v)) /\ Dot(u, v) = it[0..Dim - 1]
  BY DotAdds
<1>2. PICK sq : Adds(sq, 0..Dim - 1, Products(u, u)) /\ Dot(u, u) = sq[0..Dim - 1]
  BY DotAdds
<1>3. Dot(u, v) \in Int
  <2> DEFINE D == 0..Dim - 1
  <2>1. IsFiniteSet(D) /\ Products(u, v) \in [D -> Int] /\ D \in SUBSET D
    BY ProductsType
  <2>2. Adds(it, D, Products(u, v)) /\ Dot(u, v) = it[D]
    BY <1>1
  <2> HIDE DEF D
  <2>3. QED
    BY <2>1, <2>2, AddsType
<1>4. Dot(u, u) \in Nat
  <2> DEFINE D == 0..Dim - 1
  <2>1. /\ IsFiniteSet(D) /\ Products(u, u) \in [D -> Int] /\ D \in SUBSET D
        /\ \A i \in D : Products(u, u)[i] >= 0
    BY ProductsType
  <2>2. Adds(sq, D, Products(u, u)) /\ Dot(u, u) = sq[D]
    BY <1>2
  <2> HIDE DEF D
  <2>3. Dot(u, u) \in Int /\ Dot(u, u) >= 0
    BY <2>1, <2>2, AddsType
  <2>4. QED
    BY <2>3
<1>5. Dot(u, v) = Dot(v, u)
  <2>1. Products(u, v) = Products(v, u)
    BY ProductsType
  <2>2. QED
    BY <2>1 DEF Dot, Products
<1>6. ASSUME \A i \in 0..Dim - 1 : u[i] = 0 \/ v[i] = 0 PROVE Dot(u, v) = 0
  <2> DEFINE D == 0..Dim - 1
             zero == [i \in D |-> 0]
             jt == [s \in SUBSET D |-> 0]
  <2>1. zero \in [D -> Int]
    OBVIOUS
  <2>2. Adds(jt, D, zero)
    <3>1. \A s \in SUBSET D : s # {} =>
              zero[CHOOSE x \in s : TRUE] + jt[s \ {CHOOSE x \in s : TRUE}] = 0
      <4>1. \A s \in SUBSET D : s # {} =>
              (CHOOSE x \in s : TRUE) \in D /\ s \ {CHOOSE x \in s : TRUE} \in SUBSET D
        <5> HIDE DEF D
        <5> QED
          OBVIOUS
      <4> HIDE DEF D
      <4>2. QED
        BY <4>1
    <3> HIDE DEF zero, D
    <3>2. QED
      BY <3>1 DEF Adds
  <2>3. \A i \in D : Products(u, v)[i] = zero[i]
    <3>1. \A i \in D : u[i] \in Int /\ v[i] \in Int
      BY DEF Vectors
    <3>2. \A a, b \in Int : a = 0 \/ b = 0 => a * b = 0
      OBVIOUS
    <3>3. QED
      BY <1>6, <3>1, <3>2 DEF Products
  <2>4. IsFiniteSet(D) /\ Products(u, v) \in [D -> Int]
    BY ProductsType
  <2>5. jt[D] = 0
    OBVIOUS
  <2>6. it[D] = jt[D]
    <3>1. Adds(it, D, Products(u, v))
      BY <1>1
    <3> HIDE DEF D, zero, jt
    <3>2. QED
      BY <2>1, <2>2, <2>3, <2>4, <3>1, AddsAgree
  <2>7. QED
    BY <1>1, <2>5, <2>6
<1>7. QED
  BY <1>3, <1>4, <1>5, <1>6

\* The square root, in percent, that cosineDot chooses exists.
LEMMA RootExists ==
    ASSUME NEW n \in Nat, n # 0, NEW d \in Nat
    PROVE  \E k \in 0..100 : k * k * n <= d /\ (k < 100 => d < (k + 1) * (k + 1) * n)
<1> DEFINE S == {m \in 1..101 : (m - 1) * (m - 1) * n <= d}
<1>1. 1 \in S
  OBVIOUS
<1>2. Max(S) \in S /\ \A m \in S : m <= Max(S)
  <2>1. S \in SUBSET (1..101) /\ S # {}
    BY <1>1
  <2> HIDE DEF S
  <2>2. QED
    BY <2>1, MaxExists
<1> DEFINE k == Max(S) - 1
<1>3. k \in 0..100 /\ k * k * n <= d
  BY <1>2
<1>4. ASSUME k < 100 PROVE d < (k + 1) * (k + 1) * n
  <2>1. k + 2 \in 1..101 /\ k + 2 \notin S
    BY <1>2, <1>3, <1>4
  <2>2. ~(((k + 2) - 1) * ((k + 2) - 1) * n <= d)
    BY <2>1
  <2> HIDE DEF k, S
  <2>3. (k + 2) - 1 = k + 1
    BY <1>3
  <2>4. (k + 1) * (k + 1) * n \in Int
    BY <1>3
  <2>5. QED
    BY <2>2, <2>3, <2>4
<1> HIDE DEF k
<1>5. QED
  BY <1>3, <1>4

\* cosineDot is a percentage, the same both ways, and positive only if both
\* embeddings are not zero at some place.
LEMMA CosineType ==
    ASSUME NEW u \in Vectors, NEW v \in Vectors
    PROVE  /\ cosineDot(u, v) \in -100..100
           /\ cosineDot(u, v) = cosineDot(v, u)
           /\ cosineDot(u, v) > 0 => \E i \in 0..Dim - 1 : u[i] # 0 /\ v[i] # 0
<1> DEFINE n == Dot(u, u) * Dot(v, v)
           d == 10000 * Dot(u, v) * Dot(u, v)
           Root(k) == k * k * n <= d /\ (k < 100 => d < (k + 1) * (k + 1) * n)
           c == CHOOSE k \in 0..100 : Root(k)
<1>1. Dot(u, v) \in Int /\ Dot(u, u) \in Nat /\ Dot(v, v) \in Nat
  BY DotType
<1>2. n \in Nat /\ d \in Nat
  <2>1. \A a, b \in Nat : a * b \in Nat
    OBVIOUS
  <2>2. \A a \in Int : 10000 * a * a \in Nat
    OBVIOUS
  <2>3. QED
    BY <1>1, <2>1, <2>2
<1>3. cosineDot(u, v) = IF n = 0 THEN 0 ELSE IF Dot(u, v) < 0 THEN -c ELSE c
  BY DEF cosineDot
<1>4. n # 0 => c \in 0..100 /\ Root(c)
  <2> HIDE DEF n, d
  <2>1. n # 0 => \E k \in 0..100 : Root(k)
    BY <1>2, RootExists
  <2> HIDE DEF Root
  <2>2. QED
    BY <2>1
<1>5. cosineDot(u, v) \in -100..100
  <2> HIDE DEF n, d, c, Root
  <2> QED
    BY <1>3, <1>4
<1>6. cosineDot(u, v) = cosineDot(v, u)
  <2>1. Dot(v, u) = Dot(u, v) /\ Dot(v, v) * Dot(u, u) = n
    BY <1>1, DotType
  <2> DEFINE Of(m, p) ==
          LET e == 10000 * p * p
              b == CHOOSE k \in 0..100 :
                      k * k * m <= e /\ (k < 100 => e < (k + 1) * (k + 1) * m)
          IN  IF m = 0 THEN 0 ELSE IF p < 0 THEN -b ELSE b
  <2>2. /\ cosineDot(u, v) = Of(Dot(u, u) * Dot(v, v), Dot(u, v))
        /\ cosineDot(v, u) = Of(Dot(v, v) * Dot(u, u), Dot(v, u))
    BY DEF cosineDot
  <2> HIDE DEF Of
  <2>3. QED
    BY <2>1, <2>2
<1>7. ASSUME cosineDot(u, v) > 0 PROVE Dot(u, v) # 0
  <2> SUFFICES ASSUME Dot(u, v) = 0 PROVE FALSE
    OBVIOUS
  <2>1. n # 0 /\ c > 0
    <3> HIDE DEF n, d, c, Root
    <3> QED
      BY <1>3, <1>4, <1>7
  <2>2. d = 0
    <3>1. \A a : a = 0 => 10000 * a * a = 0
      OBVIOUS
    <3>2. QED
      BY <3>1
  <2> HIDE DEF n, d, c
  <2>3. c \in Nat /\ c * c * n <= d
    BY <1>4, <2>1
  <2> HIDE DEF Root
  <2>4. \A a, b \in Nat : a > 0 /\ b > 0 => a * b \in Nat /\ a * b > 0
    OBVIOUS
  <2>5. c * c \in Nat /\ c * c > 0 /\ n > 0
    BY <1>2, <2>1, <2>3, <2>4
  <2>6. (c * c) * n \in Nat /\ (c * c) * n > 0
    BY <1>2, <2>4, <2>5
  <2>7. QED
    BY <2>2, <2>3, <2>6
<1>8. QED
  BY <1>5, <1>6, <1>7, DotType

\* A place of a text's embedding that is not zero is the bucket of a token.
LEMMA CountsOfTokens ==
    ASSUME NEW toks \in Seq(Tokens)
    PROVE  /\ Counts(toks) \in Vectors
           /\ \A i \in 0..Dim - 1 :
                 Counts(toks)[i] # 0 => \E tok \in Range(toks) : Hash[tok][1] = i
<1> DEFINE D == DOMAIN toks
           zero == [i \in 0..Dim - 1 |-> 0]
           V == {vec \in Vectors : \A i \in 0..Dim - 1 :
                    vec[i] # 0 => \E k \in D : Hash[toks[k]][1] = i}
           pick == [s \in SUBSET D |-> Max(s)]
           op == [p \in D \X V |-> Add(p[2], toks[p[1]])]
           Step(it, s) == IF s = {} THEN zero ELSE Add(it[s \ {Max(s)}], toks[Max(s)])
           jt == CHOOSE it : it = [s \in SUBSET D |-> Step(it, s)]
<1>1. D = 1..Len(toks) /\ Len(toks) \in Nat /\ IsFiniteSet(D)
  BY FS_Interval
<1>2. \A k \in D : /\ toks[k] \in Tokens /\ Hash[toks[k]][1] \in 0..Dim - 1
                  /\ Hash[toks[k]][2] \in Int
  BY <1>1, HashAssumption
<1>3. zero \in V
  BY DEF Vectors
<1>4. ASSUME NEW k \in D, NEW vec \in V PROVE Add(vec, toks[k]) \in V
  <2>1. vec \in Vectors /\ Hash[toks[k]][1] \in 0..Dim - 1 /\ Hash[toks[k]][2] \in Int
    BY <1>2
  <2>2. Add(vec, toks[k]) \in Vectors
    BY <2>1 DEF Add, Vectors
  <2>3. ASSUME NEW i \in 0..Dim - 1, i # Hash[toks[k]][1]
        PROVE  Add(vec, toks[k])[i] = vec[i]
    BY <2>1, <2>3 DEF Add, Vectors
  <2>4. QED
    BY <2>2, <2>3
<1>5. Picks(pick, D)
  BY <1>1, MaxExists DEF Picks
<1>6. op \in [D \X V -> V]
  <2> HIDE DEF V, D
  <2> QED
    BY <1>4
<1>7. PICK it \in [SUBSET D -> V] : Folds(it, D, zero, pick, op)
  <2> HIDE DEF D, pick, op, V, zero
  <2> QED
    BY <1>1, <1>3, <1>5, <1>6, FoldExists
<1>8. ASSUME NEW s \in SUBSET D PROVE it[s] = Step(it, s)
  <2>1. CASE s = {}
    <3> HIDE DEF zero, op, pick
    <3> QED
      BY <1>7, <2>1 DEF Folds
  <2>2. CASE s # {}
    <3>1. pick[s] = Max(s) /\ Max(s) \in D
      BY <1>5, <2>2 DEF Picks
    <3>2. <<Max(s), it[s \ {Max(s)}]>> \in D \X V
      <4> HIDE DEF V, D, pick
      <4> QED
        BY <1>7, <3>1
    <3>3. it[s] = op[<<Max(s), it[s \ {Max(s)}]>>]
      <4> HIDE DEF op, zero, V
      <4> QED
        BY <1>7, <2>2, <3>1 DEF Folds
    <3>4. it[s] = Add(it[s \ {Max(s)}], toks[Max(s)])
      <4> HIDE DEF V, D
      <4> QED
        BY <3>2, <3>3
    <3>5. QED
      BY <2>2, <3>4
  <2>3. QED
    BY <2>1, <2>2
<1>9. jt = [s \in SUBSET D |-> Step(jt, s)]
  <2>1. it = [s \in SUBSET D |-> Step(it, s)]
    <3> HIDE DEF Step, D
    <3> QED
      BY <1>7, <1>8
  <2> HIDE DEF Step, D
  <2>2. QED
    BY <2>1
<1>10. Counts(toks) = jt[D]
  BY DEF Counts, FoldLeft, MapThenFoldSet
<1> DEFINE G == {n \in Nat : \A s \in Smaller(D, n) : jt[s] \in V}
<1> HIDE DEF jt
<1>11. 0 \in G
  <2>1. Smaller(D, 0) = {{}}
    BY <1>1, SmallerAll
  <2>2. jt[{}] = zero
    BY <1>9
  <2> HIDE DEF V, zero, D
  <2>3. QED
    BY <1>3, <2>1, <2>2
<1>12. ASSUME NEW n \in Nat, n \in G PROVE n + 1 \in G
  <2> SUFFICES ASSUME NEW s \in Smaller(D, n + 1) PROVE jt[s] \in V
    OBVIOUS
  <2>1. s \in SUBSET D
    BY DEF Smaller
  <2>2. CASE s = {}
    <3>1. jt[s] = zero
      BY <1>9, <2>1, <2>2
    <3> HIDE DEF V, zero
    <3>2. QED
      BY <1>3, <3>1
  <2>3. CASE s # {}
    <3>1. Max(s) \in s
      BY <1>1, <2>1, <2>3, MaxExists
    <3>2. s \ {Max(s)} \in Smaller(D, n)
      <4> HIDE DEF D
      <4> QED
        BY <1>1, <3>1, SmallerWithout
    <3>3. jt[s \ {Max(s)}] \in V
      BY <1>12, <3>2
    <3>4. jt[s] = Add(jt[s \ {Max(s)}], toks[Max(s)])
      <4> HIDE DEF D, zero
      <4> QED
        BY <1>9, <2>1, <2>3
    <3>5. QED
      <4> HIDE DEF V, D
      <4> QED
        BY <1>4, <2>1, <3>1, <3>3, <3>4
  <2>4. QED
    BY <2>2, <2>3
<1>13. Nat \subseteq G
  <2> HIDE DEF G
  <2> QED
    BY <1>11, <1>12, AllNaturals
<1>14. jt[D] \in V
  <2>1. Cardinality(D) \in G /\ D \in Smaller(D, Cardinality(D))
    <3> HIDE DEF D, G
    <3> QED
      BY <1>1, <1>13, SmallerAll
  <2>2. QED
    BY <2>1
<1>15. QED
  BY <1>10, <1>14 DEF Range

-----------------------------------------------------------------------------

\* HashingEmbedder's similarities are what SimilarityAssumption asks for.
LEMMA EmbedderFits ==
    ASSUME NEW tokens \in [Prompts -> Seq(Tokens)]
    PROVE  [pq \in Prompts \X Prompts |->
                cosineDot(Counts(tokens[pq[1]]), Counts(tokens[pq[2]]))]
              \in [Prompts \X Prompts -> -100..100]
<1>1. \A p, q \in Prompts :
          cosineDot(Counts(tokens[p]), Counts(tokens[q])) \in -100..100
  <2>1. \A p \in Prompts : Counts(tokens[p]) \in Vectors
    BY CountsOfTokens
  <2>2. QED
    BY <2>1, CosineType
<1>2. QED
  BY <1>1

SharesBucket(tokens, p, q) ==
    \E a \in Range(tokens[p]), b \in Range(tokens[q]) : Hash[a][1] = Hash[b][1]

HitsShare(tokens) ==
    \A c \in Clients :
        answer[c] # None =>
            \/ SharesBucket(tokens, prompt[c], answer[c].prompt)
            \/ kind = "pgvector" /\ ~Comparable(c, answer[c])

\* embedder.go: with the hashing embedder, whatever its hash function and its
\* dimension, a served answer was given to a prompt that has a token in the
\* bucket of a token of this one, unless Postgres compared zero vectors.  That
\* the two have a word in common is more than that, and is not so.
THEOREM HitsShareABucket ==
    ASSUME NEW tokens \in [Prompts -> Seq(Tokens)],
           Similarity = [pq \in Prompts \X Prompts |->
                            cosineDot(Counts(tokens[pq[1]]), Counts(tokens[pq[2]]))]
    PROVE  Spec => []HitsShare(tokens)
<1>1. ASSUME NEW p \in Prompts, NEW q \in Prompts, Similarity[p, q] >= Threshold
      PROVE  SharesBucket(tokens, p, q)
  <2>1. tokens[p] \in Seq(Tokens) /\ tokens[q] \in Seq(Tokens)
    OBVIOUS
  <2> DEFINE u == Counts(tokens[p])
             v == Counts(tokens[q])
  <2>2. u \in Vectors /\ v \in Vectors
    BY <2>1, CountsOfTokens
  <2>3. cosineDot(u, v) = Similarity[p, q]
    OBVIOUS
  <2> HIDE DEF u, v
  <2>4. cosineDot(u, v) > 0
    <3>1. cosineDot(u, v) \in -100..100 /\ Threshold \in 1..100
      BY <2>2, CosineType, KnobsAssumption
    <3>2. cosineDot(u, v) >= Threshold
      BY <1>1, <2>3, Zenon
    <3>3. \A x \in -100..100, t \in 1..100 : x >= t => x > 0
      OBVIOUS
    <3>4. QED
      BY <3>1, <3>2, <3>3, Zenon
  <2>5. PICK i \in 0..Dim - 1 : u[i] # 0 /\ v[i] # 0
    BY <2>2, <2>4, CosineType
  <2>6. /\ \E a \in Range(tokens[p]) : Hash[a][1] = i
        /\ \E b \in Range(tokens[q]) : Hash[b][1] = i
    BY <2>1, <2>5, CountsOfTokens DEF u, v
  <2>7. QED
    BY <2>6 DEF SharesBucket
<1>2. IInv => HitsShare(tokens)
  <2> SUFFICES ASSUME IInv, NEW c \in Clients, answer[c] # None
               PROVE  \/ SharesBucket(tokens, prompt[c], answer[c].prompt)
                      \/ kind = "pgvector" /\ ~Comparable(c, answer[c])
    BY DEF HitsShare
  <2>1. prompt[c] \in Prompts /\ answer[c].prompt \in Prompts
    BY DEF IInv, Types, ClientInv, Calling, Entry
  <2>2. QED
    BY <1>1, <2>1, Zenon DEF IInv, ClientInv, NearAnswer
<1>3. QED
  BY <1>2, InvariantHolds, PTL
=============================================================================
