------------------------ MODULE LoadGeneratorProofs ------------------------
(***************************************************************************)
(* Proofs about the mock backend, for any number of calls and tokens; that *)
(* the load generator's model uses it as it is specified; and that what is *)
(* reported of a run is what its results say, for any number of workers.   *)
(***************************************************************************)
EXTENDS LoadGenerator, FoldLemmas

\* A handler swaps only a maximum it has found smaller than its count, and
\* has the final chunk before it when it has not left.
Local ==
    \A c \in Calls :
        /\ at[c] = "swap" => seen[c] < cur[c]
        /\ at[c] \notin {"leave", "done"} => sent[c] <= MaxTokens

\* MaxIsExact is inductive with it.
MaxInv == MockTypeOK /\ Local /\ MaxIsExact

LEMMA MockInitial == MockInit => MaxInv /\ InFlightExact
<1> SUFFICES ASSUME MockInit PROVE MaxInv /\ InFlightExact
  OBVIOUS
<1>1. MockTypeOK /\ Local
  BY TokensAssumption DEF MockInit, MockTypeOK, Local, At, Done
<1>2. MaxIsExact
  BY DEF MockInit, MaxIsExact, Counted
<1>3. Inside = {}
  BY DEF MockInit, Inside
<1>4. QED
  BY <1>1, <1>2, <1>3, FS_EmptySet DEF MockInit, MaxInv, InFlightExact

\* A step of one handler, or a hang-up, keeps the types and what handlers know.
LEMMA LocalStep ==
    ASSUME MockTypeOK, Local, NEW c \in Calls,
           Enter(c) \/ Handle(c) \/ ContextEnds(c)
    PROVE  MockTypeOK' /\ Local'
<1> USE TokensAssumption DEF MockTypeOK, Local, Done
<1>1. ASSUME NEW from, NEW to \in At, Moves(c, from, to)
      PROVE  at' \in [Calls -> At]
  BY <1>1 DEF Moves
<1>2. CASE Enter(c)
  BY <1>1, <1>2 DEF Enter, At, Moves
<1>3. CASE LoadMax(c)
  BY <1>1, <1>3 DEF LoadMax, At, Moves
<1>4. CASE Swap(c)
  BY <1>1, <1>4 DEF Swap, At, Moves
<1>5. CASE FailsAtRandom(c)
  BY <1>1, <1>5 DEF FailsAtRandom, At, Moves
<1>6. CASE Replies(c)
  BY <1>1, <1>6 DEF Replies, At, Moves
<1>7. CASE Sends(c)
  BY <1>1, <1>7 DEF Sends, At, Moves
<1>8. CASE Stops(c)
  BY <1>1, <1>8 DEF Stops, At, Moves
<1>9. CASE Leaves(c)
  BY <1>1, <1>9 DEF Leaves, At, Moves
<1>10. CASE ContextEnds(c)
  BY <1>10 DEF ContextEnds
<1>11. QED
  BY <1>2, <1>3, <1>4, <1>5, <1>6, <1>7, <1>8, <1>9, <1>10 DEF Handle

\* Handlers past the loop keep their cur, so that the maximum stays theirs
\* unless a handler joins them: that one has found the maximum no smaller, or
\* has put its own in the place of one it knew to be smaller.
LEMMA MaxStep ==
    ASSUME MaxInv, NEW c \in Calls, Enter(c) \/ Handle(c) \/ ContextEnds(c)
    PROVE  MaxIsExact'
<1> USE DEF MaxInv, MockTypeOK, MaxIsExact
<1>1. CASE Enter(c)
  <2>1. Counted' = Counted /\ c \notin Counted
    BY <1>1 DEF Enter, Moves, Counted
  <2>2. \A d \in Counted : cur'[d] = cur[d]
    BY <1>1, <2>1 DEF Enter, Counted
  <2>3. QED
    BY <1>1, <2>1, <2>2 DEF Enter, Counted
<1>2. CASE LoadMax(c)
  <2>1. Counted' = IF cur[c] <= maxInFlight THEN Counted \cup {c} ELSE Counted
    BY <1>2 DEF LoadMax, Moves, Counted
  <2>2. QED
    BY <1>2, <2>1 DEF LoadMax, Counted
<1>3. CASE Swap(c)
  <2>1. CASE maxInFlight = seen[c]
    <3>1. Counted' = Counted \cup {c}
      BY <1>3, <2>1 DEF Swap, Moves, Counted
    <3>2. maxInFlight' = cur[c] /\ cur' = cur /\ maxInFlight < cur[c]
      BY <1>3, <2>1 DEF Swap, Moves, Local
    <3>3. \A d \in Counted : cur[d] <= cur[c]
      BY <3>2 DEF Counted
    <3>4. QED
      BY <3>1, <3>2, <3>3
  <2>2. CASE maxInFlight # seen[c]
    <3>1. Counted' = Counted
      BY <1>3, <2>2 DEF Swap, Moves, Counted
    <3>2. QED
      BY <1>3, <2>2, <3>1 DEF Swap
  <2>3. QED
    BY <2>1, <2>2
<1>4. CASE FailsAtRandom(c) \/ Replies(c) \/ Sends(c) \/ Stops(c) \/ Leaves(c) \/ ContextEnds(c)
  <2>1. Counted' = Counted
    BY <1>4 DEF FailsAtRandom, Replies, Sends, Stops, Leaves, ContextEnds, Moves, Counted
  <2>2. UNCHANGED <<maxInFlight, cur>>
    BY <1>4 DEF FailsAtRandom, Replies, Sends, Stops, Leaves, ContextEnds
  <2>3. QED
    BY <2>1, <2>2
<1>5. QED
  BY <1>1, <1>2, <1>3, <1>4 DEF Handle

\* A handler counts itself in when it comes inside and out when it goes.
LEMMA InFlightStep ==
    ASSUME MockTypeOK, InFlightExact, NEW c \in Calls,
           Enter(c) \/ Handle(c) \/ ContextEnds(c)
    PROVE  InFlightExact'
<1> USE DEF MockTypeOK, InFlightExact
<1>1. IsFiniteSet(Inside)
  BY CallsAssumption, FS_Subset DEF Inside
<1>2. CASE Enter(c)
  <2>1. Inside' = Inside \cup {c} /\ c \notin Inside
    BY <1>2 DEF Enter, Moves, Inside
  <2>2. QED
    BY <1>1, <1>2, <2>1, FS_AddElement DEF Enter
<1>3. CASE Leaves(c)
  <2>1. Inside' = Inside \ {c} /\ c \in Inside
    BY <1>3 DEF Leaves, Moves, Inside
  <2>2. QED
    BY <1>1, <1>3, <2>1, FS_RemoveElement DEF Leaves
<1>4. CASE \/ LoadMax(c) \/ Swap(c) \/ FailsAtRandom(c) \/ Replies(c) \/ Sends(c)
           \/ Stops(c) \/ ContextEnds(c)
  <2>1. Inside' = Inside
    BY <1>4 DEF LoadMax, Swap, FailsAtRandom, Replies, Sends, Stops, ContextEnds,
                Moves, Inside
  <2>2. inFlight' = inFlight
    BY <1>4 DEF LoadMax, Swap, FailsAtRandom, Replies, Sends, Stops, ContextEnds
  <2>3. QED
    BY <2>1, <2>2
<1>5. QED
  BY <1>2, <1>3, <1>4 DEF Handle

-----------------------------------------------------------------------------

\* The mock backend alone, whatever is asked of it: its maximum is exact (the
\* loop of handleChat), and in_flight is the number of calls it handles.
THEOREM MockIsExact == MockSpec => [](MockTypeOK /\ MaxIsExact /\ InFlightExact)
<1> DEFINE Inv == MaxInv /\ InFlightExact
<1>1. MockInit => Inv
  BY MockInitial
<1>2. Inv /\ [MockNext]_mockVars => Inv'
  <2> SUFFICES ASSUME Inv, [MockNext]_mockVars PROVE Inv'
    OBVIOUS
  <2>1. ASSUME NEW c \in Calls, Enter(c) \/ Handle(c) \/ ContextEnds(c) PROVE Inv'
    BY <2>1, LocalStep, MaxStep, InFlightStep DEF MaxInv
  <2>2. CASE UNCHANGED mockVars
    BY <2>2 DEF mockVars, MaxInv, MockTypeOK, Local, MaxIsExact, Counted, InFlightExact,
                Inside
  <2>3. QED
    BY <2>1, <2>2 DEF MockNext
<1>3. Inv => MockTypeOK /\ MaxIsExact /\ InFlightExact
  BY DEF MaxInv
<1>4. QED
  BY <1>1, <1>2, <1>3, PTL DEF MockSpec

\* Every step of the composition is one of the backend's or leaves it be, ...
LEMMA UsesMock ==
    ASSUME [Next]_vars PROVE [MockNext]_mockVars
<1>1. ASSUME NEW c \in Calls, Forward(c) \/ Replay(c) \/ HangUp(c) \/ BackendStep(c)
      PROVE  [MockNext]_mockVars
  BY <1>1 DEF Forward, Replay, HangUp, BackendStep, MockNext
<1>2. ASSUME NEW w \in Workers, WorkerStep(w) PROVE UNCHANGED mockVars
  BY <1>2 DEF WorkerStep, mockVars
<1>3. CASE MainStep
  BY <1>3 DEF MainStep, mockVars
<1>4. CASE UNCHANGED vars
  BY <1>4 DEF vars, mockVars
<1>5. QED
  BY <1>1, <1>2, <1>3, <1>4 DEF Next

\* ... so that under the load, with the gateway between, the backend does what
\* it does alone.
THEOREM LoadUsesMock == Spec => MockSpec
<1>1. Init => MockInit
  BY DEF Init
<1>2. [Next]_vars => [MockNext]_mockVars
  BY UsesMock
<1>3. QED
  BY <1>1, <1>2, PTL DEF Spec, MockSpec

\* So the maximum is exact under the load as well.
THEOREM LoadMaxIsExact == Spec => []MaxIsExact
BY MockIsExact, LoadUsesMock, PTL

-----------------------------------------------------------------------------
(* Types.                                                                  *)

WorkTypes ==
    /\ over \in BOOLEAN
    /\ doing \in [Workers -> Doing]
    /\ made \in [Workers -> 0..MaxCalls]
    /\ got \in [Workers -> 0..MaxTokens]
    /\ fine \in [Workers -> BOOLEAN]

GateTypes ==
    /\ posted \in SUBSET Calls
    /\ hits \in SUBSET Calls
    /\ replayed \in [Calls -> 0..MaxTokens]
    /\ stored \in SUBSET (1..MaxTokens)

\* What the gateway still has has not reached the backend and is not answered,
\* and a call that nobody has made is in neither's hands.
Untouched ==
    /\ \A c \in Calls : at[c] = "new" => sent[c] = -1
    /\ \A c \in posted : at[c] = "new" /\ c \notin hits
    /\ \A c \in Calls : c \in posted \cup hits \/ at[c] # "new" => c[2] <= made[c[1]]

\* A worker that reads an answer, or has read one, is no longer waiting for the
\* gateway to choose which it gets.
Answered ==
    \A w \in Workers :
        /\ doing[w] = "body" \/ fine[w] => Call(w) \notin posted
        /\ fine[w] => doing[w] \in {"counting", "appending"}

Busy(w) == doing[w] \in {"waiting", "body", "counting", "appending"}

\* A worker's call has a number, and no result yet.
Numbered ==
    /\ \A w \in Workers : Busy(w) => made[w] >= 1
    /\ \A r \in results : /\ r.call \in Calls
                          /\ r.call[2] <= made[r.call[1]]
                          /\ Busy(r.call[1]) => r.call[2] < made[r.call[1]]

\* The calls in the atomics: those in the results, and those about to be.
All == results \cup {Result(w) : w \in {v \in Workers : doing[v] = "appending"}}

TokenSum(R) == MapThenSumSet(LAMBDA r : r.tokens, R)

Sums(R) == [requests |-> Cardinality(R),
            ok       |-> Cardinality({r \in R : r.ok}),
            hits     |-> Cardinality({r \in R : r.hit}),
            tokens   |-> TokenSum(R)]

Results == [call : Calls, ok : BOOLEAN, hit : BOOLEAN, tokens : 0..MaxTokens]

Tallied ==
    /\ IsFiniteSet(All) /\ All \subseteq Results
    /\ tally = Sums(All)

Reported ==
    report # <<>> =>
        over /\ report = tally /\ \A w \in Workers : doing[w] = "returned"

LoadInv ==
    /\ MaxInv /\ WorkTypes /\ GateTypes
    /\ Untouched /\ Answered /\ Numbered /\ Tallied /\ Reported

\* MapThenSumSet is a fold, and it has a value.
LEMMA TokenSumExists ==
    ASSUME NEW R, IsFiniteSet(R), [r \in R |-> r.tokens] \in [R -> Int]
    PROVE  \E it : Adds(it, R, [r \in R |-> r.tokens]) /\ TokenSum(R) = it[R]
<1> DEFINE w == [r \in R |-> r.tokens]
           Round(it, s) == IF s = {} THEN 0
                           ELSE (CHOOSE x \in s : TRUE).tokens
                                    + it[s \ {CHOOSE x \in s : TRUE}]
           jt == CHOOSE it : it = [s \in SUBSET R |-> Round(it, s)]
<1>0. w \in [R -> Int]
  OBVIOUS
<1>1. \A it : [s \in SUBSET R |-> Round(it, s)] =
              [s \in SUBSET R |->
                  IF s = {} THEN 0
                  ELSE w[CHOOSE x \in s : TRUE] + it[s \ {CHOOSE x \in s : TRUE}]]
  <2>1. \A s \in SUBSET R : s # {} =>
            w[CHOOSE x \in s : TRUE] = (CHOOSE x \in s : TRUE).tokens
    OBVIOUS
  <2> HIDE DEF w
  <2>2. QED
    BY <2>1
<1>2. \A it : Adds(it, R, w) <=> it = [s \in SUBSET R |-> Round(it, s)]
  <2> HIDE DEF w, Round
  <2> QED
    BY <1>1 DEF Adds
<1>3. \E it : Adds(it, R, w)
  <2> HIDE DEF w
  <2> QED
    BY <1>0, AddsExists
<1>4. jt = [s \in SUBSET R |-> Round(jt, s)]
  <2> HIDE DEF Round, w
  <2> QED
    BY <1>2, <1>3
<1>5. TokenSum(R) = jt[R]
  BY DEF TokenSum, MapThenSumSet, MapThenFoldSet
<1>6. Adds(jt, R, w)
  <2> HIDE DEF w, jt, Round
  <2> QED
    BY <1>2, <1>4
<1>7. QED
  BY <1>5, <1>6

\* One result more.
LEMMA TokenSumAdds ==
    ASSUME NEW R \in SUBSET Results, IsFiniteSet(R), NEW x \in Results, x \notin R
    PROVE  /\ TokenSum(R) \in Nat
           /\ TokenSum(R \cup {x}) = TokenSum(R) + x.tokens
<1> DEFINE S == R \cup {x}
           v == [r \in R |-> r.tokens]
           w == [r \in S |-> r.tokens]
<1>1. IsFiniteSet(S) /\ S \in SUBSET Results
  BY FS_AddElement
<1>2. \A r \in Results : r.tokens \in Int /\ r.tokens >= 0
  BY TokensAssumption DEF Results
<1>3. v \in [R -> Int] /\ w \in [S -> Int] /\ \A r \in R : v[r] = w[r] /\ v[r] >= 0
  BY <1>1, <1>2
<1>4. w[x] = x.tokens /\ S \ {x} = R /\ x \in S
  OBVIOUS
<1>5. PICK it : Adds(it, R, v) /\ TokenSum(R) = it[R]
  BY <1>3, TokenSumExists
<1>6. PICK jt : Adds(jt, S, w) /\ TokenSum(S) = jt[S]
  <2> HIDE DEF S
  <2> QED
    BY <1>1, <1>3, TokenSumExists
<1> HIDE DEF v, w, S
<1>7. it[R] \in Int /\ it[R] >= 0
  BY <1>3, <1>5, AddsType
<1>8. R \subseteq S
  BY DEF S
<1>9. jt[S] = w[x] + jt[R]
  BY <1>1, <1>3, <1>4, <1>6, AddsAnyOrder
<1>10. it[R] = jt[R]
  <2>1. \E kt : Adds(kt, S, w) /\ kt = jt
    BY <1>6
  <2>2. QED
    BY <1>1, <1>3, <1>5, <1>6, <1>8, AddsAgree
<1>11. x.tokens \in Int
  BY <1>2
<1>12. TokenSum(S) = TokenSum(R) + x.tokens
  BY <1>4, <1>5, <1>6, <1>7, <1>9, <1>10, <1>11
<1>13. QED
  BY <1>5, <1>7, <1>12 DEF S

LEMMA CountAdds ==
    ASSUME NEW R, IsFiniteSet(R), NEW x, x \notin R
    PROVE  /\ IsFiniteSet(R \cup {x})
           /\ Cardinality(R) \in Nat /\ Cardinality(R \cup {x}) = Cardinality(R) + 1
BY FS_AddElement, FS_CardinalityType

\* The sums count each result where it belongs.
LEMMA SumsAdd ==
    ASSUME NEW R \in SUBSET Results, IsFiniteSet(R), NEW x \in Results, x \notin R
    PROVE  /\ Sums(R) \in Tally /\ Sums(R \cup {x}) \in Tally
           /\ Sums(R \cup {x}) =
                  [requests |-> Sums(R).requests + 1,
                   ok       |-> Sums(R).ok + (IF x.ok THEN 1 ELSE 0),
                   hits     |-> Sums(R).hits + (IF x.hit THEN 1 ELSE 0),
                   tokens   |-> Sums(R).tokens + x.tokens]
<1> DEFINE S == R \cup {x}
           ok(Q) == {r \in Q : r.ok}
           hit(Q) == {r \in Q : r.hit}
<1>1. /\ Cardinality(R) \in Nat /\ Cardinality(S) = Cardinality(R) + 1
  BY CountAdds
<1>2. /\ TokenSum(R) \in Nat /\ TokenSum(S) = TokenSum(R) + x.tokens
      /\ x.tokens \in Nat
  <2>1. x.tokens \in Nat
    BY TokensAssumption DEF Results
  <2>2. QED
    BY <2>1, TokenSumAdds
<1>3. /\ Cardinality(ok(R)) \in Nat
      /\ Cardinality(ok(S)) = Cardinality(ok(R)) + (IF x.ok THEN 1 ELSE 0)
  <2>1. IsFiniteSet(ok(R)) /\ x \notin ok(R)
    BY FS_Subset
  <2>2. CASE x.ok
    <3>1. ok(S) = ok(R) \cup {x}
      BY <2>2
    <3> HIDE DEF ok
    <3>2. QED
      BY <2>1, <2>2, <3>1, CountAdds
  <2>3. CASE ~x.ok
    <3>1. ok(S) = ok(R)
      BY <2>3
    <3> HIDE DEF ok
    <3>2. Cardinality(ok(R)) \in Nat
      BY <2>1, CountAdds
    <3>3. QED
      BY <2>3, <3>1, <3>2
  <2>4. QED
    BY <2>2, <2>3
<1>4. /\ Cardinality(hit(R)) \in Nat
      /\ Cardinality(hit(S)) = Cardinality(hit(R)) + (IF x.hit THEN 1 ELSE 0)
  <2>1. IsFiniteSet(hit(R)) /\ x \notin hit(R)
    BY FS_Subset
  <2>2. CASE x.hit
    <3>1. hit(S) = hit(R) \cup {x}
      BY <2>2
    <3> HIDE DEF hit
    <3>2. QED
      BY <2>1, <2>2, <3>1, CountAdds
  <2>3. CASE ~x.hit
    <3>1. hit(S) = hit(R)
      BY <2>3
    <3> HIDE DEF hit
    <3>2. Cardinality(hit(R)) \in Nat
      BY <2>1, CountAdds
    <3>3. QED
      BY <2>3, <3>1, <3>2
  <2>4. QED
    BY <2>2, <2>3
<1>5. /\ Sums(R) = [requests |-> Cardinality(R), ok |-> Cardinality(ok(R)),
                    hits |-> Cardinality(hit(R)), tokens |-> TokenSum(R)]
      /\ Sums(S) = [requests |-> Cardinality(S), ok |-> Cardinality(ok(S)),
                    hits |-> Cardinality(hit(S)), tokens |-> TokenSum(S)]
  BY DEF Sums
<1> HIDE DEF S, ok, hit
<1>6. /\ Cardinality(S) \in Nat /\ Cardinality(ok(S)) \in Nat
      /\ Cardinality(hit(S)) \in Nat /\ TokenSum(S) \in Nat
  BY <1>1, <1>2, <1>3, <1>4
<1>7. Sums(R) \in Tally /\ Sums(S) \in Tally
  BY <1>1, <1>2, <1>3, <1>4, <1>5, <1>6 DEF Tally
<1>8. Sums(S) = [requests |-> Sums(R).requests + 1,
                 ok       |-> Sums(R).ok + (IF x.ok THEN 1 ELSE 0),
                 hits     |-> Sums(R).hits + (IF x.hit THEN 1 ELSE 0),
                 tokens   |-> Sums(R).tokens + x.tokens]
  BY <1>1, <1>2, <1>3, <1>4, <1>5
<1>9. QED
  BY <1>7, <1>8 DEF S

\* Before the first result.
LEMMA SumsEmpty == Sums({}) = Zero
<1> DEFINE w == [r \in {} |-> r.tokens]
<1>1. IsFiniteSet({}) /\ Cardinality({}) = 0
  BY FS_EmptySet
<1>2. w \in [{} -> Int]
  OBVIOUS
<1>3. PICK it : Adds(it, {}, w) /\ TokenSum({}) = it[{}]
  BY <1>1, <1>2, TokenSumExists
<1>4. it[{}] = 0
  BY <1>3 DEF Adds
<1>5. {r \in {} : r.ok} = {} /\ {r \in {} : r.hit} = {}
  OBVIOUS
<1>6. QED
  BY <1>1, <1>3, <1>4, <1>5 DEF Sums, Zero

-----------------------------------------------------------------------------
(* The steps.                                                              *)

\* The ways a worker goes.
WorkerMove(w) ==
    \/ Post(w) \/ TurnedDown(w) \/ Headers(w) \/ Line(w) \/ Ends(w) \/ Fails(w)
    \/ Counts(w) \/ Appends(w) \/ Leave(w)

LEMMA WorkerMoves ==
    ASSUME NEW w \in Workers, WorkerStep(w)
    PROVE  WorkerMove(w) /\ UNCHANGED <<mockVars, over, report>>
BY DEF WorkerStep, WorkerMove, Whole, Cut, Proceeds

\* A handler's steps begin no call, and take back none.
LEMMA NewStep ==
    ASSUME MockTypeOK, NEW c \in Calls, Handle(c) \/ ContextEnds(c), NEW d \in Calls
    PROVE  /\ at'[d] = "new" <=> at[d] = "new"
           /\ at[d] = "new" => sent'[d] = sent[d]
<1> USE DEF MockTypeOK
<1>1. ASSUME NEW from \in At \ {"new"}, NEW to \in At \ {"new"}, Moves(c, from, to)
      PROVE  at'[d] = "new" <=> at[d] = "new"
  BY <1>1 DEF Moves
<1>2. CASE ContextEnds(c)
  BY <1>2 DEF ContextEnds
<1>3. CASE LoadMax(c)
  BY <1>1, <1>3 DEF LoadMax, At
<1>4. CASE Swap(c)
  BY <1>1, <1>4 DEF Swap, At
<1>5. CASE FailsAtRandom(c)
  BY <1>1, <1>5 DEF FailsAtRandom, At
<1>6. CASE Replies(c)
  BY <1>1, <1>6 DEF Replies, At, Moves
<1>7. CASE Sends(c)
  BY <1>1, <1>7 DEF Sends, At, Moves
<1>8. CASE Stops(c)
  BY <1>1, <1>8 DEF Stops, At
<1>9. CASE Leaves(c)
  BY <1>1, <1>9 DEF Leaves, At
<1>10. QED
  BY <1>2, <1>3, <1>4, <1>5, <1>6, <1>7, <1>8, <1>9 DEF Handle

\* The backend's own part of the invariant.
LEMMA MockKeeps ==
    ASSUME MaxInv, [MockNext]_mockVars PROVE MaxInv'
<1>1. ASSUME NEW c \in Calls, Enter(c) \/ Handle(c) \/ ContextEnds(c) PROVE MaxInv'
  BY <1>1, LocalStep, MaxStep DEF MaxInv
<1>2. CASE UNCHANGED mockVars
  BY <1>2 DEF mockVars, MaxInv, MockTypeOK, Local, MaxIsExact, Counted
<1>3. QED
  BY <1>1, <1>2 DEF MockNext

LEMMA WorkTypesStep ==
    ASSUME LoadInv, [Next]_vars PROVE WorkTypes'
<1>0. WorkTypes /\ MaxCalls \in Nat /\ MaxTokens \in Nat
  BY LoadAssumption, TokensAssumption DEF LoadInv
<1>1. CASE UNCHANGED workVars
  BY <1>0, <1>1 DEF WorkTypes, workVars
<1>2. ASSUME NEW w \in Workers, WorkerStep(w) PROVE WorkTypes'
  <2>0. WorkerMove(w) /\ over' = over
    BY <1>2, WorkerMoves
  <2>1. doing' \in [Workers -> Doing]
    <3>1. ASSUME NEW from, NEW to \in Doing, Goes(w, from, to)
          PROVE  doing' \in [Workers -> Doing]
      BY <1>0, <3>1 DEF Goes, WorkTypes
    <3>2. CASE Line(w)
      BY <1>0, <3>2 DEF Line, WorkTypes
    <3>3. QED
      BY <2>0, <3>1, <3>2
      DEF WorkerMove, Post, TurnedDown, Headers, Ends, Fails, Counts, Appends, Leave, Doing
  <2>2. made' \in [Workers -> 0..MaxCalls]
    <3>1. CASE Post(w)
      <4>1. made[w] + 1 \in 0..MaxCalls
        BY <1>0, <3>1 DEF Post, WorkTypes
      <4>2. QED
        BY <1>0, <3>1, <4>1 DEF Post, WorkTypes
    <3>2. CASE ~Post(w)
      BY <1>0, <2>0, <3>2
      DEF WorkerMove, TurnedDown, Headers, Line, Ends, Fails, Counts, Appends, Leave,
          WorkTypes
    <3>3. QED
      BY <3>1, <3>2
  <2>3. got' \in [Workers -> 0..MaxTokens]
    <3>1. CASE Line(w)
      <4>1. got[w] + 1 \in 0..MaxTokens
        BY <1>0, <3>1 DEF Line, WorkTypes
      <4>2. QED
        BY <1>0, <3>1, <4>1 DEF Line, WorkTypes
    <3>2. CASE Appends(w)
      BY <1>0, <3>2 DEF Appends, WorkTypes
    <3>3. CASE ~Line(w) /\ ~Appends(w)
      BY <1>0, <2>0, <3>3
      DEF WorkerMove, Post, TurnedDown, Headers, Ends, Fails, Counts, Leave, WorkTypes
    <3>4. QED
      BY <3>1, <3>2, <3>3
  <2>4. fine' \in [Workers -> BOOLEAN]
    <3>1. fine' = fine \/ \E b \in BOOLEAN : fine' = [fine EXCEPT ![w] = b]
      BY <2>0
      DEF WorkerMove, Post, TurnedDown, Headers, Line, Ends, Fails, Counts, Appends, Leave
    <3>2. QED
      BY <1>0, <3>1 DEF WorkTypes
  <2>5. QED
    BY <1>0, <2>0, <2>1, <2>2, <2>3, <2>4 DEF WorkTypes
<1>3. CASE MainStep
  BY <1>0, <1>3 DEF MainStep, Deadline, Report, WorkTypes
<1>4. QED
  BY <1>1, <1>2, <1>3
  DEF Next, Forward, Replay, HangUp, BackendStep, vars

LEMMA GateTypesStep ==
    ASSUME LoadInv, [Next]_vars PROVE GateTypes'
<1>0. /\ GateTypes /\ MaxTokens \in Nat /\ sent \in [Calls -> -1..Done]
      /\ Done = MaxTokens + 1
  BY TokensAssumption DEF LoadInv, MaxInv, MockTypeOK, Done
<1>1. CASE UNCHANGED gateVars
  BY <1>0, <1>1 DEF GateTypes, gateVars
<1>2. ASSUME NEW c \in Calls, Forward(c) PROVE GateTypes'
  BY <1>0, <1>2 DEF Forward, GateTypes
<1>3. ASSUME NEW c \in Calls, Replay(c) PROVE GateTypes'
  <2>1. PICK n \in stored : replayed' = [replayed EXCEPT ![c] = n]
    BY <1>3 DEF Replay
  <2>2. n \in 0..MaxTokens
    BY <1>0 DEF GateTypes
  <2>3. replayed' \in [Calls -> 0..MaxTokens]
    BY <1>0, <2>1, <2>2 DEF GateTypes
  <2>4. QED
    BY <1>0, <1>3, <2>3 DEF Replay, GateTypes
<1>4. ASSUME NEW c \in Calls, HangUp(c) PROVE GateTypes'
  <2> DEFINE content == IF sent[c] = Done THEN MaxTokens ELSE sent[c]
  <2>1. content \in Int /\ content <= MaxTokens
    <3>1. sent[c] \in -1..MaxTokens + 1
      BY <1>0
    <3>2. QED
      BY <1>0, <3>1
  <2>2. stored' = stored \/ (content >= 1 /\ stored' = stored \cup {content})
    BY <1>4 DEF HangUp
  <2>3. stored' \subseteq 1..MaxTokens
    <3>1. stored \subseteq 1..MaxTokens
      BY <1>0 DEF GateTypes
    <3>2. content >= 1 => content \in 1..MaxTokens
      BY <1>0, <2>1
    <3> HIDE DEF content
    <3>3. QED
      BY <2>2, <3>1, <3>2
  <2>4. QED
    BY <1>0, <1>4, <2>3 DEF HangUp, GateTypes
<1>5. ASSUME NEW w \in Workers, WorkerStep(w) PROVE GateTypes'
  <2>0. WorkerMove(w)
    BY <1>5, WorkerMoves
  <2>1. CASE Post(w)
    <3>1. <<w, made[w] + 1>> \in Calls
      <4>1. made[w] \in 0..MaxCalls /\ made[w] < MaxCalls /\ MaxCalls \in Nat
        BY <2>1, LoadAssumption DEF Post, LoadInv, WorkTypes
      <4>2. made[w] + 1 \in 1..MaxCalls
        BY <4>1
      <4>3. QED
        BY <4>2, LoadAssumption
    <3>2. QED
      BY <1>0, <2>1, <3>1 DEF Post, GateTypes
  <2>2. CASE TurnedDown(w)
    BY <1>0, <2>2 DEF TurnedDown, GateTypes
  <2>3. CASE UNCHANGED gateVars
    BY <1>1, <2>3
  <2>4. QED
    BY <2>0, <2>1, <2>2, <2>3
    DEF WorkerMove, Headers, Line, Ends, Fails, Counts, Appends, Leave, gateVars
<1>6. QED
  BY <1>1, <1>2, <1>3, <1>4, <1>5
  DEF Next, BackendStep, MainStep, vars

\* The call that a worker is at exists, once it has begun one.
LEMMA CallType ==
    ASSUME LoadInv, NEW w \in Workers, Busy(w)
    PROVE  /\ Call(w) \in Calls /\ made[w] \in 1..MaxCalls
           /\ Call(w)[1] = w /\ Call(w)[2] = made[w]
<1>1. made[w] \in 0..MaxCalls /\ made[w] >= 1 /\ MaxCalls \in Nat
  BY LoadAssumption DEF LoadInv, WorkTypes, Numbered
<1>2. made[w] \in 1..MaxCalls
  BY <1>1
<1>3. QED
  BY <1>2, LoadAssumption DEF Call

LEMMA UntouchedStep ==
    ASSUME LoadInv, [Next]_vars PROVE Untouched'
<1>0. /\ Untouched /\ MockTypeOK /\ posted \subseteq Calls /\ hits \subseteq Calls
      /\ made \in [Workers -> Nat] /\ MaxCalls \in Nat
      /\ \A c \in Calls : c[1] \in Workers /\ c[2] \in Nat /\ c = <<c[1], c[2]>>
  BY LoadAssumption DEF LoadInv, MaxInv, GateTypes, WorkTypes
<1>1. CASE UNCHANGED <<at, sent, made, hits>> /\ posted' \subseteq posted
  BY <1>0, <1>1 DEF Untouched
<1>2. ASSUME NEW c \in Calls, Forward(c) PROVE Untouched'
  <2>1. /\ c \in posted /\ at' = [at EXCEPT ![c] = "load"] /\ sent' = sent
        /\ posted' = posted \ {c} /\ hits' = hits /\ made' = made
    BY <1>2 DEF Forward, Enter, Moves, workVars
  <2>2. \A d \in Calls : at'[d] = IF d = c THEN "load" ELSE at[d]
    BY <1>0, <2>1 DEF MockTypeOK
  <2>3. QED
    BY <1>0, <2>1, <2>2 DEF Untouched
<1>3. ASSUME NEW c \in Calls, Replay(c) PROVE Untouched'
  <2>1. /\ c \in posted /\ at' = at /\ sent' = sent
        /\ posted' = posted \ {c} /\ hits' = hits \cup {c} /\ made' = made
    BY <1>3 DEF Replay, mockVars, workVars
  <2>2. QED
    BY <1>0, <2>1 DEF Untouched
<1>4. ASSUME NEW c \in Calls, HangUp(c) \/ BackendStep(c) PROVE Untouched'
  <2>1. posted' = posted /\ hits' = hits /\ made' = made
    BY <1>4 DEF HangUp, BackendStep, workVars, gateVars
  <2>2. \A d \in Calls : /\ at'[d] = "new" <=> at[d] = "new"
                         /\ at[d] = "new" => sent'[d] = sent[d]
    BY <1>0, <1>4, NewStep DEF HangUp, BackendStep
  <2>3. QED
    BY <1>0, <2>1, <2>2 DEF Untouched
<1>5. ASSUME NEW w \in Workers, Post(w), UNCHANGED mockVars PROVE Untouched'
  <2> DEFINE new == <<w, made[w] + 1>>
  <2>1. /\ at' = at /\ sent' = sent /\ hits' = hits /\ posted' = posted \cup {new}
        /\ \A v \in Workers : made'[v] = IF v = w THEN made[w] + 1 ELSE made[v]
    BY <1>0, <1>5 DEF Post, mockVars
  <2>2. new \in Calls
    BY <1>0, <1>5, LoadAssumption DEF Post
  <2>3. at[new] = "new" /\ new \notin hits
    <3>1. new[1] = w /\ new[2] = made[w] + 1 /\ made[w] \in Nat
      BY <1>0
    <3>2. ~(new[2] <= made[new[1]])
      BY <3>1
    <3> HIDE DEF new
    <3>3. QED
      BY <1>0, <2>2, <3>2 DEF Untouched
  <2>4. ASSUME NEW c \in Calls, c \in posted' \cup hits' \/ at'[c] # "new"
        PROVE  c[2] <= made'[c[1]]
    <3>1. CASE c = new
      BY <1>0, <2>1, <3>1
    <3>2. CASE c # new
      <4>1. c[2] <= made[c[1]]
        BY <1>0, <2>1, <2>4, <3>2 DEF Untouched
      <4>2. made[c[1]] \in Nat /\ c[2] \in Nat /\ c[1] \in Workers
        BY <1>0
      <4>3. made'[c[1]] >= made[c[1]] /\ made'[c[1]] \in Nat
        BY <1>0, <2>1, <4>2
      <4>4. QED
        BY <4>1, <4>2, <4>3
    <3>3. QED
      BY <3>1, <3>2
  <2>5. \A c \in posted' : at'[c] = "new" /\ c \notin hits'
    <3> HIDE DEF new
    <3> QED
      BY <1>0, <2>1, <2>3 DEF Untouched
  <2>6. \A c \in Calls : at'[c] = "new" => sent'[c] = -1
    BY <1>0, <2>1 DEF Untouched
  <2>7. QED
    BY <2>4, <2>5, <2>6 DEF Untouched
<1>6. ASSUME NEW w \in Workers, WorkerStep(w) PROVE Untouched'
  <2>1. WorkerMove(w) /\ UNCHANGED mockVars
    BY <1>6, WorkerMoves
  <2>2. CASE Post(w)
    BY <1>5, <2>1, <2>2
  <2>3. CASE ~Post(w)
    <3>1. UNCHANGED <<at, sent, made, hits>> /\ posted' \subseteq posted
      BY <2>1, <2>3
      DEF WorkerMove, TurnedDown, Headers, Line, Ends, Fails, Counts, Appends, Leave,
          mockVars, gateVars
    <3>2. QED
      BY <1>1, <3>1
  <2>4. QED
    BY <2>2, <2>3
<1>7. CASE MainStep \/ UNCHANGED vars
  BY <1>1, <1>7 DEF MainStep, vars, mockVars, workVars, gateVars
<1>8. QED
  BY <1>2, <1>3, <1>4, <1>6, <1>7 DEF Next

LEMMA AnsweredStep ==
    ASSUME LoadInv, [Next]_vars PROVE Answered'
<1>0. /\ Answered /\ Untouched /\ WorkTypes /\ MockTypeOK
      /\ hits \subseteq Calls /\ posted \subseteq Calls
  BY DEF LoadInv, MaxInv, GateTypes
<1>1. CASE UNCHANGED <<doing, made, fine>> /\ posted' \subseteq posted
  BY <1>0, <1>1 DEF Answered, Call
<1>2. ASSUME NEW w \in Workers, WorkerStep(w) PROVE Answered'
  <2>0. WorkerMove(w)
    BY <1>2, WorkerMoves
  <2>1. ASSUME NEW v \in Workers, v # w
        PROVE  /\ doing'[v] = doing[v] /\ made'[v] = made[v] /\ fine'[v] = fine[v]
               /\ Call(v)' = Call(v)
               /\ Call(v) \in posted' => Call(v) \in posted
    <3>1. doing'[v] = doing[v] /\ made'[v] = made[v]
      BY <1>0, <2>0, <2>1
      DEF WorkerMove, Post, TurnedDown, Headers, Line, Ends, Fails, Counts, Appends,
          Leave, Goes, WorkTypes
    <3>2. fine' = fine \/ \E b \in BOOLEAN : fine' = [fine EXCEPT ![w] = b]
      BY <2>0
      DEF WorkerMove, Post, TurnedDown, Headers, Line, Ends, Fails, Counts, Appends, Leave
    <3>3. fine'[v] = fine[v]
      BY <1>0, <2>1, <3>2 DEF WorkTypes
    <3>4. posted' \subseteq posted \cup {<<w, made[w] + 1>>}
      BY <2>0
      DEF WorkerMove, Post, TurnedDown, Headers, Line, Ends, Fails, Counts, Appends,
          Leave, gateVars
    <3>5. QED
      BY <2>1, <3>1, <3>3, <3>4 DEF Call
  <2>2. /\ doing'[w] = "body" \/ fine'[w] => Call(w)' \notin posted'
        /\ fine'[w] => doing'[w] \in {"counting", "appending"}
    <3>1. CASE Post(w)
      <4>1. doing[w] = "idle" /\ doing'[w] = "waiting" /\ fine'[w] = fine[w]
        BY <1>0, <3>1 DEF Post, Goes, WorkTypes
      <4>2. ~fine[w]
        BY <1>0, <4>1 DEF Answered
      <4>3. QED
        BY <4>1, <4>2
    <3>2. CASE Headers(w)
      <4>1. /\ doing[w] = "waiting" /\ doing'[w] = "body" /\ fine'[w] = fine[w]
            /\ posted' = posted /\ made' = made
        BY <1>0, <3>2 DEF Headers, Goes, WorkTypes, gateVars
      <4>2. ~fine[w]
        BY <1>0, <4>1 DEF Answered
      <4>3. Call(w) \in Calls
        BY <4>1, CallType DEF Busy
      <4>4. Call(w) \notin posted
        <5>1. CASE Call(w) \in hits
          BY <1>0, <5>1 DEF Untouched
        <5>2. CASE Call(w) \notin hits
          <6>1. sent[Call(w)] >= 0
            BY <3>2, <5>2 DEF Headers, Passed
          <6>2. at[Call(w)] # "new"
            BY <1>0, <4>3, <6>1 DEF Untouched
          <6>3. QED
            BY <1>0, <6>2 DEF Untouched
        <5>3. QED
          BY <5>1, <5>2
      <4>5. Call(w)' \notin posted'
        BY <4>1, <4>4 DEF Call
      <4>6. QED
        BY <4>1, <4>2, <4>5
    <3>3. CASE Ends(w)
      <4>1. /\ doing[w] = "body" /\ doing'[w] = "counting"
            /\ posted' = posted /\ made' = made
        BY <1>0, <3>3 DEF Ends, Goes, WorkTypes, gateVars
      <4>2. Call(w)' \notin posted'
        BY <1>0, <4>1 DEF Answered, Call
      <4>3. QED
        BY <4>1, <4>2
    <3>4. CASE TurnedDown(w) \/ Fails(w)
      <4>1. doing[w] = "waiting" /\ doing'[w] = "counting" /\ fine' = fine
        BY <1>0, <3>4 DEF TurnedDown, Fails, Goes, WorkTypes
      <4>2. ~fine[w]
        BY <1>0, <4>1 DEF Answered
      <4>3. QED
        BY <4>1, <4>2
    <3>5. CASE Line(w)
      BY <1>0, <1>1, <3>5 DEF Line, gateVars, Answered
    <3>6. CASE Counts(w)
      <4>1. /\ doing[w] = "counting" /\ doing'[w] = "appending"
            /\ posted' = posted /\ made' = made /\ fine' = fine
        BY <1>0, <3>6 DEF Counts, Goes, WorkTypes, gateVars
      <4>2. Call(w)' = Call(w)
        BY <4>1 DEF Call
      <4>3. QED
        BY <1>0, <4>1, <4>2 DEF Answered
    <3>7. CASE Appends(w)
      <4>1. doing'[w] = "idle" /\ fine'[w] = FALSE
        BY <1>0, <3>7 DEF Appends, Goes, WorkTypes
      <4>2. QED
        BY <4>1
    <3>8. CASE Leave(w)
      <4>1. doing[w] = "idle" /\ doing'[w] = "returned" /\ fine' = fine
        BY <1>0, <3>8 DEF Leave, Goes, WorkTypes
      <4>2. ~fine[w]
        BY <1>0, <4>1 DEF Answered
      <4>3. QED
        BY <4>1, <4>2
    <3>9. QED
      BY <2>0, <3>1, <3>2, <3>3, <3>4, <3>5, <3>6, <3>7, <3>8 DEF WorkerMove
  <2>3. ASSUME NEW v \in Workers
        PROVE  /\ doing'[v] = "body" \/ fine'[v] => Call(v)' \notin posted'
               /\ fine'[v] => doing'[v] \in {"counting", "appending"}
    <3>1. CASE v = w
      BY <2>2, <3>1
    <3>2. CASE v # w
      <4>1. /\ doing[v] = "body" \/ fine[v] => Call(v) \notin posted
            /\ fine[v] => doing[v] \in {"counting", "appending"}
        BY <1>0 DEF Answered
      <4>2. QED
        BY <2>1, <3>2, <4>1, Zenon
    <3>3. QED
      BY <3>1, <3>2
  <2>4. QED
    BY <2>3 DEF Answered
<1>3. CASE MainStep \/ UNCHANGED vars
  BY <1>1, <1>3 DEF MainStep, vars, workVars, gateVars
<1>4. QED
  BY <1>1, <1>2, <1>3
  DEF Next, Forward, Replay, HangUp, BackendStep, workVars, gateVars

\* What a worker's result says is settled when it has read its answer.
LEMMA ResultFixed ==
    ASSUME LoadInv, [Next]_vars, NEW w \in Workers,
           doing[w] = "appending", doing'[w] = "appending"
    PROVE  Result(w)' = Result(w)
<1>0. /\ Answered /\ WorkTypes /\ Call(w) \in Calls
  BY CallType DEF LoadInv, Busy
<1>1. CASE UNCHANGED <<made, got, fine, hits>>
  BY <1>1 DEF Result, Call
<1>2. ASSUME NEW c \in Calls, Replay(c) PROVE Result(w)' = Result(w)
  <2>1. /\ made' = made /\ got' = got /\ fine' = fine
        /\ hits' = hits \cup {c} /\ c \in posted
    BY <1>2 DEF Replay, workVars
  <2>2. fine[w] => Call(w) # c
    BY <1>0, <2>1 DEF Answered
  <2>3. Call(w)' = Call(w)
    BY <2>1 DEF Call
  <2>4. (fine'[w] /\ Call(w)' \in hits') = (fine[w] /\ Call(w) \in hits)
    <3>1. CASE fine[w]
      BY <2>1, <2>2, <2>3, <3>1
    <3>2. CASE ~fine[w]
      BY <2>1, <3>2
    <3>3. QED
      BY <3>1, <3>2
  <2>5. QED
    BY <2>1, <2>3, <2>4 DEF Result
<1>3. ASSUME NEW v \in Workers, WorkerStep(v) PROVE Result(w)' = Result(w)
  <2>0. WorkerMove(v)
    BY <1>3, WorkerMoves
  <2>1. v # w
    BY <1>0, <2>0
    DEF WorkerMove, Post, TurnedDown, Headers, Line, Ends, Fails, Counts, Appends,
        Leave, Goes, WorkTypes
  <2>2. made'[w] = made[w] /\ got'[w] = got[w] /\ hits' = hits
    BY <1>0, <2>0, <2>1
    DEF WorkerMove, Post, TurnedDown, Headers, Line, Ends, Fails, Counts, Appends,
        Leave, WorkTypes, gateVars
  <2>3. fine' = fine \/ \E b \in BOOLEAN : fine' = [fine EXCEPT ![v] = b]
    BY <2>0
    DEF WorkerMove, Post, TurnedDown, Headers, Line, Ends, Fails, Counts, Appends, Leave
  <2>4. fine'[w] = fine[w]
    BY <1>0, <2>1, <2>3 DEF WorkTypes
  <2>5. QED
    BY <2>2, <2>4 DEF Result, Call
<1>4. CASE MainStep \/ UNCHANGED vars
  BY <1>1, <1>4 DEF MainStep, vars, workVars, gateVars
<1>5. QED
  BY <1>1, <1>2, <1>3, <1>4
  DEF Next, Forward, HangUp, BackendStep, workVars, gateVars

LEMMA ResultType ==
    ASSUME LoadInv, NEW w \in Workers, Busy(w) PROVE Result(w) \in Results
<1>1. /\ Call(w) \in Calls /\ fine[w] \in BOOLEAN /\ got[w] \in 0..MaxTokens
  BY CallType DEF LoadInv, WorkTypes
<1>2. QED
  BY <1>1 DEF Result, Results

LEMMA NumberedStep ==
    ASSUME LoadInv, [Next]_vars PROVE Numbered'
<1>0. /\ Numbered /\ WorkTypes /\ MaxCalls \in Nat /\ made \in [Workers -> Nat]
      /\ \A c \in Calls : c[1] \in Workers /\ c[2] \in Nat
  BY LoadAssumption DEF LoadInv, WorkTypes
<1>1. CASE UNCHANGED <<doing, made, results>>
  BY <1>0, <1>1 DEF Numbered, Busy
<1>2. ASSUME NEW w \in Workers, WorkerStep(w) PROVE Numbered'
  <2>0. WorkerMove(w)
    BY <1>2, WorkerMoves
  <2>1. CASE Post(w)
    <3>1. /\ doing[w] = "idle" /\ results' = results
          /\ \A v \in Workers : /\ doing'[v] = IF v = w THEN "waiting" ELSE doing[v]
                                /\ made'[v] = IF v = w THEN made[w] + 1 ELSE made[v]
      BY <1>0, <2>1 DEF Post, Goes, WorkTypes
    <3>2. \A v \in Workers : Busy(v)' => made'[v] >= 1
      BY <1>0, <3>1 DEF Numbered, Busy
    <3>3. ASSUME NEW r \in results
          PROVE  /\ r.call \in Calls /\ r.call[2] <= made'[r.call[1]]
                 /\ Busy(r.call[1])' => r.call[2] < made'[r.call[1]]
      <4>1. /\ r.call \in Calls /\ r.call[2] <= made[r.call[1]]
            /\ Busy(r.call[1]) => r.call[2] < made[r.call[1]]
            /\ r.call[1] \in Workers /\ r.call[2] \in Nat /\ made[r.call[1]] \in Nat
        BY <1>0 DEF Numbered
      <4>2. CASE r.call[1] = w
        BY <3>1, <4>1, <4>2
      <4>3. CASE r.call[1] # w
        BY <3>1, <4>1, <4>3 DEF Busy
      <4>4. QED
        BY <4>2, <4>3
    <3>4. QED
      BY <3>1, <3>2, <3>3 DEF Numbered
  <2>2. CASE Appends(w)
    <3>1. /\ doing[w] = "appending" /\ results' = results \cup {Result(w)} /\ made' = made
          /\ \A v \in Workers : doing'[v] = IF v = w THEN "idle" ELSE doing[v]
      BY <1>0, <2>2 DEF Appends, Goes, WorkTypes
    <3>2. Call(w) \in Calls /\ Call(w)[1] = w /\ Call(w)[2] = made[w]
      BY <3>1, CallType DEF Busy
    <3>3. Result(w).call = Call(w)
      BY DEF Result
    <3>4. \A v \in Workers : Busy(v)' => Busy(v)
      BY <3>1 DEF Busy
    <3>5. ~Busy(w)'
      BY <3>1 DEF Busy
    <3>6. made[w] <= made[w]
      BY <1>0
    <3>7. ASSUME NEW r \in results'
          PROVE  /\ r.call \in Calls /\ r.call[2] <= made[r.call[1]]
                 /\ Busy(r.call[1])' => r.call[2] < made[r.call[1]]
      <4>1. CASE r = Result(w)
        BY <3>2, <3>3, <3>5, <3>6, <4>1
      <4>2. CASE r \in results
        BY <1>0, <3>4, <4>2 DEF Numbered
      <4>3. QED
        BY <3>1, <4>1, <4>2
    <3>8. QED
      BY <1>0, <3>1, <3>4, <3>7 DEF Numbered
  <2>3. CASE TurnedDown(w) \/ Headers(w) \/ Line(w) \/ Ends(w) \/ Fails(w) \/ Counts(w)
             \/ Leave(w)
    <3>1. made' = made /\ results' = results
      BY <2>3 DEF TurnedDown, Headers, Line, Ends, Fails, Counts, Leave
    <3>2. \A v \in Workers : Busy(v)' => Busy(v)
      BY <1>0, <2>3
      DEF TurnedDown, Headers, Line, Ends, Fails, Counts, Leave, Goes, WorkTypes, Busy
    <3>3. QED
      BY <1>0, <3>1, <3>2 DEF Numbered
  <2>4. QED
    BY <2>0, <2>1, <2>2, <2>3 DEF WorkerMove
<1>3. CASE MainStep \/ UNCHANGED vars
  BY <1>1, <1>3 DEF MainStep, vars, workVars
<1>4. QED
  BY <1>1, <1>2, <1>3
  DEF Next, Forward, Replay, HangUp, BackendStep, workVars

\* The atomics run ahead of the results by the calls about to be appended.
LEMMA TalliedStep ==
    ASSUME LoadInv, [Next]_vars PROVE Tallied'
<1>0. Tallied /\ Numbered /\ WorkTypes
  BY DEF LoadInv
<1> DEFINE About == {v \in Workers : doing[v] = "appending"}
<1>1. CASE tally' = tally /\ All' = All
  BY <1>0, <1>1 DEF Tallied
<1>2. CASE /\ UNCHANGED <<tally, results>>
           /\ \A v \in Workers : doing'[v] = "appending" <=> doing[v] = "appending"
  <2>1. \A v \in About : Result(v)' = Result(v)
    BY <1>2, ResultFixed
  <2>2. {v \in Workers : doing'[v] = "appending"} = About
    BY <1>2
  <2> HIDE DEF About
  <2>3. {Result(v)' : v \in About} = {Result(v) : v \in About}
    BY <2>1
  <2>4. All' = results' \cup {Result(v)' : v \in About}
    BY <2>2 DEF All
  <2>5. All' = All
    BY <1>2, <2>3, <2>4 DEF All, About
  <2>6. QED
    BY <1>1, <1>2, <2>5
<1>3. ASSUME NEW w \in Workers, Counts(w) PROVE Tallied'
  <2>1. /\ doing[w] = "counting" /\ results' = results
        /\ \A v \in Workers : doing'[v] = IF v = w THEN "appending" ELSE doing[v]
        /\ made' = made /\ got' = got /\ fine' = fine /\ hits' = hits
    BY <1>0, <1>3 DEF Counts, Goes, WorkTypes, gateVars
  <2>2. \A v \in Workers : Result(v)' = Result(v)
    BY <2>1 DEF Result, Call
  <2>3. {v \in Workers : doing'[v] = "appending"} = About \cup {w}
    BY <2>1
  <2>4. All' = All \cup {Result(w)}
    <3>1. {Result(v)' : v \in About \cup {w}}
              = {Result(v) : v \in About} \cup {Result(w)}
      BY <2>2
    <3>2. All' = results' \cup {Result(v)' : v \in About \cup {w}}
      BY <2>3 DEF All
    <3>3. QED
      BY <2>1, <3>1, <3>2 DEF All
  <2>5. Result(w) \notin All
    <3>1. Busy(w) /\ Call(w)[1] = w /\ Call(w)[2] = made[w] /\ made[w] \in 1..MaxCalls
      BY <2>1, CallType DEF Busy
    <3>2. \A v \in Workers : Result(v).call = Call(v) /\ Call(v)[1] = v
      BY DEF Result, Call
    <3>3. Result(w) \notin results
      <4>1. ASSUME Result(w) \in results PROVE FALSE
        <5>1. made[w] < made[w]
          BY <1>0, <3>1, <3>2, <4>1 DEF Numbered
        <5>2. made[w] \in Int
          BY <3>1
        <5>3. QED
          BY <5>1, <5>2
      <4>2. QED
        BY <4>1
    <3>4. \A v \in About : Result(v) # Result(w)
      BY <2>1, <3>2
    <3>5. QED
      BY <3>3, <3>4 DEF All
  <2>6. Result(w) \in Results
    BY <2>1, ResultType DEF Busy
  <2>7. /\ Result(w).ok = fine[w] /\ Result(w).tokens = got[w]
    BY DEF Result
  <2>8. /\ tally = Sums(All) /\ IsFiniteSet(All) /\ All \in SUBSET Results
    BY <1>0 DEF Tallied
  <2> DEFINE R == All
             x == Result(w)
  <2>9. tally' = [requests |-> Sums(R).requests + 1,
                  ok       |-> Sums(R).ok + (IF x.ok THEN 1 ELSE 0),
                  hits     |-> Sums(R).hits + (IF x.hit THEN 1 ELSE 0),
                  tokens   |-> Sums(R).tokens + x.tokens]
    BY <1>3, <2>7, <2>8 DEF Counts
  <2>10. R \in SUBSET Results /\ IsFiniteSet(R) /\ x \in Results /\ x \notin R
    BY <2>5, <2>6, <2>8
  <2> HIDE DEF R, x
  <2>11. tally' = Sums(R \cup {x}) /\ IsFiniteSet(R \cup {x}) /\ R \cup {x} \subseteq Results
    BY <2>9, <2>10, SumsAdd, FS_AddElement
  <2>12. QED
    BY <2>4, <2>11 DEF Tallied, R, x
<1>4. ASSUME NEW w \in Workers, Appends(w) PROVE Tallied'
  <2>1. /\ doing[w] = "appending" /\ results' = results \cup {Result(w)}
        /\ \A v \in Workers : doing'[v] = IF v = w THEN "idle" ELSE doing[v]
        /\ tally' = tally
    BY <1>0, <1>4 DEF Appends, Goes, WorkTypes
  <2>2. \A v \in About \ {w} : Result(v)' = Result(v)
    BY <2>1, ResultFixed
  <2>3. {v \in Workers : doing'[v] = "appending"} = About \ {w} /\ w \in About
    BY <2>1
  <2> HIDE DEF About
  <2>4. {Result(v)' : v \in About \ {w}} = {Result(v) : v \in About \ {w}}
    BY <2>2
  <2>5. {Result(v) : v \in About} = {Result(v) : v \in About \ {w}} \cup {Result(w)}
    BY <2>3
  <2>6. All' = results' \cup {Result(v)' : v \in About \ {w}}
    BY <2>3 DEF All
  <2>7. All' = All
    BY <2>1, <2>4, <2>5, <2>6 DEF All, About
  <2>8. QED
    BY <1>1, <2>1, <2>7
<1>5. ASSUME NEW w \in Workers, WorkerStep(w) PROVE Tallied'
  <2>1. WorkerMove(w)
    BY <1>5, WorkerMoves
  <2>2. CASE Post(w) \/ TurnedDown(w) \/ Headers(w) \/ Line(w) \/ Ends(w) \/ Fails(w)
             \/ Leave(w)
    <3>1. tally' = tally /\ results' = results
      BY <2>2 DEF Post, TurnedDown, Headers, Line, Ends, Fails, Leave
    <3>2. \A v \in Workers : doing'[v] = "appending" <=> doing[v] = "appending"
      BY <1>0, <2>2
      DEF Post, TurnedDown, Headers, Line, Ends, Fails, Leave, Goes, WorkTypes
    <3>3. QED
      BY <1>2, <3>1, <3>2
  <2>3. QED
    BY <1>3, <1>4, <2>1, <2>2 DEF WorkerMove
<1>6. CASE UNCHANGED workVars \/ MainStep
  <2>1. UNCHANGED <<doing, tally, results>>
    BY <1>6 DEF workVars, MainStep
  <2>2. QED
    BY <1>2, <2>1
<1>7. QED
  BY <1>5, <1>6
  DEF Next, Forward, Replay, HangUp, BackendStep, vars

\* Nothing is counted once all workers have returned.
LEMMA ReportedStep ==
    ASSUME LoadInv, [Next]_vars PROVE Reported'
<1>0. Reported /\ WorkTypes
  BY DEF LoadInv
<1>1. CASE UNCHANGED workVars
  BY <1>0, <1>1 DEF Reported, workVars
<1>2. ASSUME NEW w \in Workers, WorkerStep(w) PROVE Reported'
  <2>1. WorkerMove(w) /\ report' = report
    BY <1>2, WorkerMoves
  <2>2. doing[w] # "returned"
    BY <2>1
    DEF WorkerMove, Post, TurnedDown, Headers, Line, Ends, Fails, Counts, Appends,
        Leave, Goes
  <2>3. report = <<>>
    BY <1>0, <2>2 DEF Reported
  <2>4. QED
    BY <2>1, <2>3 DEF Reported
<1>3. CASE MainStep
  <2>1. UNCHANGED <<doing, tally>>
    BY <1>3 DEF MainStep
  <2>2. CASE Deadline
    BY <1>0, <2>1, <2>2 DEF Deadline, Reported
  <2>3. CASE Report
    BY <2>1, <2>3 DEF Report, Reported, WaitedFor
  <2>4. QED
    BY <1>3, <2>2, <2>3 DEF MainStep
<1>4. QED
  BY <1>1, <1>2, <1>3
  DEF Next, Forward, Replay, HangUp, BackendStep, vars

-----------------------------------------------------------------------------

\* The invariant of a run of the load generator, gateway and backend included.
THEOREM LoadInvariant == Spec => []LoadInv
<1>1. Init => LoadInv
  <2> SUFFICES ASSUME Init PROVE LoadInv
    OBVIOUS
  <2>0. /\ 0 \in 0..MaxCalls /\ 0 \in 0..MaxTokens
    BY LoadAssumption, TokensAssumption
  <2>1. MaxInv
    BY MockInitial DEF Init
  <2>2. WorkTypes
    BY <2>0 DEF Init, WorkTypes, Doing
  <2>3. GateTypes
    BY <2>0 DEF Init, GateTypes
  <2>4. Untouched
    BY DEF Init, MockInit, Untouched
  <2>5. Answered
    BY DEF Init, Answered
  <2>6. Numbered
    BY DEF Init, Numbered, Busy
  <2>7. All = {}
    BY DEF Init, All
  <2>8. Tallied
    BY <2>7, SumsEmpty, FS_EmptySet DEF Init, Tallied
  <2>9. Reported
    BY DEF Init, Reported
  <2>10. QED
    BY <2>1, <2>2, <2>3, <2>4, <2>5, <2>6, <2>8, <2>9 DEF LoadInv
<1>2. LoadInv /\ [Next]_vars => LoadInv'
  <2> SUFFICES ASSUME LoadInv, [Next]_vars PROVE LoadInv'
    OBVIOUS
  <2>1. MaxInv'
    BY UsesMock, MockKeeps DEF LoadInv
  <2>2. QED
    BY <2>1, WorkTypesStep, GateTypesStep, UntouchedStep, AnsweredStep, NumberedStep,
       TalliedStep, ReportedStep
    DEF LoadInv
<1>3. QED
  BY <1>1, <1>2, PTL DEF Spec

\* The sums are numbers, of however many results.
LEMMA SumsType ==
    ASSUME NEW R \in SUBSET Results, IsFiniteSet(R) PROVE Sums(R) \in Tally
<1>1. CASE R = {}
  BY <1>1, SumsEmpty DEF Zero, Tally
<1>2. CASE R # {}
  <2>1. PICK x \in R : TRUE
    BY <1>2
  <2>2. /\ R \ {x} \in SUBSET Results /\ IsFiniteSet(R \ {x}) /\ x \in Results
        /\ x \notin R \ {x} /\ R = (R \ {x}) \cup {x}
    BY <2>1, FS_Subset
  <2>3. Sums((R \ {x}) \cup {x}) \in Tally
    BY <2>2, SumsAdd
  <2>4. QED
    BY <2>2, <2>3
<1>3. QED
  BY <1>1, <1>2

\* Type correctness of the whole.
THEOREM LoadTypeCorrect == Spec => []TypeOK
<1>1. LoadInv => TypeOK
  <2> SUFFICES ASSUME LoadInv PROVE TypeOK
    OBVIOUS
  <2>1. tally \in Tally
    BY SumsType DEF LoadInv, Tallied
  <2>2. report \in Tally \cup {<<>>}
    BY <2>1 DEF LoadInv, Reported
  <2>3. results \in SUBSET Results
    BY DEF LoadInv, Tallied, All
  <2>4. QED
    BY <2>1, <2>2, <2>3 DEF LoadInv, MaxInv, WorkTypes, GateTypes, Results, TypeOK
<1>2. QED
  BY <1>1, LoadInvariant, PTL

\* The counters of a report are those of its results: every call was counted in
\* the four atomics and appended before its worker returned, and none is later.
THEOREM ReportIsOfItsResults == Spec => []ReportAgrees
<1>1. LoadInv => ReportAgrees
  <2> SUFFICES ASSUME LoadInv, report # <<>> PROVE report = Sums(results)
    BY DEF ReportAgrees, Sums, TokenSum
  <2>1. report = tally /\ \A w \in Workers : doing[w] = "returned"
    BY DEF LoadInv, Reported
  <2>2. {w \in Workers : doing[w] = "appending"} = {}
    BY <2>1
  <2>3. All = results
    BY <2>2 DEF All
  <2>4. QED
    BY <2>1, <2>3 DEF LoadInv, Tallied
<1>2. QED
  BY <1>1, LoadInvariant, PTL
=============================================================================
