---------------------------- MODULE RouterProofs ----------------------------
(***************************************************************************)
(* Proofs about the router, for any number of backends, requests, probes   *)
(* and attempts, either strategy and any threshold.                        *)
(***************************************************************************)
EXTENDS Router, FiniteSetTheorems, TLAPS

\* The points at which a request has a backend.
Targeted == {"picked", "calling", "failed", "body", "closing", "closed"}

\* What each request knows of its own attempts: it has a backend when it acts
\* on one, looks for another only with an attempt left, and never considers
\* a backend it has called.
Bookkeeping ==
    \A r \in Requests :
        /\ point[r] \in Targeted => target[r] \in Backends
        /\ attempt[r] <= MaxAttempts
        /\ point[r] \in {"new", "pick"} => attempt[r] < MaxAttempts
        /\ candidates[r] \cap tried[r] = {}

\* The types; that the counts are not negative follows from InFlightExact.
ShapeOK ==
    /\ HealthTypeOK
    /\ point \in [Requests -> Point]
    /\ attempt \in [Requests -> Nat]
    /\ tried \in [Requests -> SUBSET Backends]
    /\ scanned \in [Requests -> 0..NumBackends]
    /\ candidates \in [Requests -> SUBSET Backends]
    /\ target \in [Requests -> 0..NumBackends]
    /\ expired \in [Requests -> BOOLEAN]
    /\ inFlight \in [Backends -> Int]
    /\ rrIdx \in Nat

LEMMA MaxAttemptsType == MaxAttempts \in Nat \ {0}
BY RetryAssumption DEF MaxAttempts

-----------------------------------------------------------------------------

\* The health record keeps its type, whoever steps.
LEMMA HealthStep ==
    ASSUME HealthTypeOK,
           \/ \E b \in Backends, p \in Probes : ProbeStep(b, p)
           \/ \E b \in Backends : markFailure(b) \/ markSuccess(b)
           \/ UNCHANGED healthVars
    PROVE  HealthTypeOK'
<1> USE ThresholdAssumption DEF HealthTypeOK
<1>1. \A n \in 0..FailureThreshold : OneMore(n) \in 0..FailureThreshold
  BY DEF OneMore
<1>2. ASSUME NEW b \in Backends, CountFailure(b)
      PROVE  failures' \in [Backends -> 0..FailureThreshold]
  BY <1>1, <1>2 DEF CountFailure
<1>3. ASSUME NEW b \in Backends, ClearFailures(b)
      PROVE  failures' \in [Backends -> 0..FailureThreshold]
  BY <1>3 DEF ClearFailures
<1>4. ASSUME NEW b \in Backends, NEW p \in Probes, NEW from, NEW to \in ProbePoint,
             Moves(b, p, from, to)
      PROVE  probe' \in [Backends -> [Probes -> ProbePoint]]
  BY <1>4 DEF Moves
<1>5. ASSUME NEW b \in Backends, NEW p \in Probes, ProbeStep(b, p)
      PROVE  HealthTypeOK'
  <2>1. CASE ProbeStart(b, p)
    <3>1. "asked" \in ProbePoint
      BY DEF ProbePoint
    <3>2. QED  BY <1>4, <2>1, <3>1 DEF ProbeStart
  <2>2. CASE ProbeSucceeds(b, p)
    <3>1. "cleared" \in ProbePoint
      BY DEF ProbePoint
    <3>2. QED  BY <1>3, <1>4, <2>2, <3>1 DEF ProbeSucceeds
  <2>3. CASE ProbeFails(b, p)
    <3>1. "counted" \in ProbePoint
      BY DEF ProbePoint
    <3>2. QED  BY <1>2, <1>4, <2>3, <3>1 DEF ProbeFails
  <2>4. CASE RestoreHealthy(b, p)
    <3>1. "restored" \in ProbePoint
      BY DEF ProbePoint
    <3>2. healthy' \in [Backends -> BOOLEAN]
      BY <2>4, Zenon DEF RestoreHealthy
    <3>3. QED  BY <1>4, <2>4, <3>1, <3>2 DEF RestoreHealthy
  <2>5. CASE SetUp(b, p)
    <3>1. "idle" \in ProbePoint
      BY DEF ProbePoint
    <3>2. up' \in [Backends -> BOOLEAN]
      BY <2>5, Zenon DEF SetUp
    <3>3. QED  BY <1>4, <2>5, <3>1, <3>2 DEF SetUp
  <2>6. CASE CompareFailures(b, p)
    <3>1. (IF failures[b] >= FailureThreshold THEN "over" ELSE "idle") \in ProbePoint
      BY DEF ProbePoint
    <3>2. QED  BY <1>4, <2>6, <3>1 DEF CompareFailures
  <2>7. CASE LoadHealthy(b, p)
    <3>1. (IF healthy[b] THEN "lowering" ELSE "idle") \in ProbePoint
      BY DEF ProbePoint
    <3>2. QED  BY <1>4, <2>7, <3>1 DEF LoadHealthy
  <2>8. CASE LowerHealthy(b, p)
    <3>1. "lowered" \in ProbePoint
      BY DEF ProbePoint
    <3>2. healthy' \in [Backends -> BOOLEAN]
      BY <2>8, Zenon DEF LowerHealthy
    <3>3. QED  BY <1>4, <2>8, <3>1, <3>2 DEF LowerHealthy
  <2>9. CASE SetDown(b, p)
    <3>1. "idle" \in ProbePoint
      BY DEF ProbePoint
    <3>2. up' \in [Backends -> BOOLEAN]
      BY <2>9, Zenon DEF SetDown
    <3>3. QED  BY <1>4, <2>9, <3>1, <3>2 DEF SetDown
  <2>10. QED
    BY <1>5, <2>1, <2>2, <2>3, <2>4, <2>5, <2>6, <2>7, <2>8, <2>9
    DEF ProbeStep, RecordStep
<1>6. ASSUME NEW b \in Backends, markFailure(b) \/ markSuccess(b)
      PROVE  HealthTypeOK'
  BY <1>2, <1>3, <1>6 DEF markFailure, markSuccess
<1>7. CASE UNCHANGED healthVars
  BY <1>7 DEF healthVars
<1>8. QED  BY <1>5, <1>6, <1>7

-----------------------------------------------------------------------------

\* pick returns a backend that the request has not called yet.
LEMMA ChoicesUntried ==
    ASSUME ShapeOK, Bookkeeping, NEW r \in Requests, NEW b \in Choices(r)
    PROVE  b \in Backends /\ b \notin tried[r]
<1>1. candidates[r] \subseteq Backends /\ candidates[r] \cap tried[r] = {}
  BY DEF ShapeOK, Bookkeeping
<1>2. b \in candidates[r] \/ b \in Untried(r)
  BY DEF Choices, LastResort, InTurn, PowerOfTwo
<1>3. QED  BY <1>1, <1>2 DEF Untried

\* The requests keep their types; only Choose and the probes need an argument.
LEMMA ShapeStep == ShapeOK /\ Bookkeeping /\ [Next]_vars => ShapeOK'
<1> SUFFICES ASSUME ShapeOK, Bookkeeping, [Next]_vars PROVE ShapeOK'
  OBVIOUS
<1> USE DEF requestVars, pickVars
<1>0. HealthTypeOK
  BY DEF ShapeOK
<1>1. CASE ProbeAny
  <2>1. HealthTypeOK'
    BY <1>0, <1>1, HealthStep DEF ProbeAny
  <2>2. QED  BY <1>1, <2>1 DEF ProbeAny, ShapeOK
<1>2. CASE UNCHANGED vars
  <2>1. HealthTypeOK'
    BY <1>0, <1>2, HealthStep DEF vars
  <2>2. QED  BY <1>2, <2>1 DEF vars, ShapeOK
<1>3. ASSUME NEW r \in Requests, RequestStep(r) PROVE ShapeOK'
  <2>0. ASSUME NEW to \in Point, NEW from, Goes(r, from, to)
        PROVE  point' \in [Requests -> Point]
    BY <2>0 DEF Goes, ShapeOK
  <2>1. CASE Do(r)
    <3>1. HealthTypeOK'
      BY <1>0, <2>1, HealthStep DEF Do
    <3>2. point' \in [Requests -> Point]
      BY <2>0, <2>1 DEF Do, Point
    <3>3. QED  BY <2>1, <3>1, <3>2 DEF Do, ShapeOK
  <2>2. CASE LookAt(r)
    <3>1. HealthTypeOK'
      BY <1>0, <2>2, HealthStep DEF LookAt
    <3>2. scanned[r] + 1 \in Backends
      BY <2>2, BackendsAssumption DEF LookAt, ShapeOK, Backends
    <3>3. scanned' \in [Requests -> 0..NumBackends]
      BY <2>2, <3>2, BackendsAssumption DEF LookAt, ShapeOK, Backends
    <3>4. candidates' \in [Requests -> SUBSET Backends]
      BY <2>2, <3>2 DEF LookAt, ShapeOK
    <3>5. QED  BY <2>2, <3>1, <3>3, <3>4 DEF LookAt, ShapeOK
  <2>3. CASE Choose(r)
    <3>1. HealthTypeOK'
      BY <1>0, <2>3, HealthStep DEF Choose
    <3>2. PICK b \in Choices(r) : /\ target' = [target EXCEPT ![r] = b]
                                  /\ tried' = [tried EXCEPT ![r] = @ \cup {b}]
      BY <2>3 DEF Choose
    <3>3. b \in Backends
      BY ChoicesUntried
    <3>4. /\ target' \in [Requests -> 0..NumBackends]
          /\ tried' \in [Requests -> SUBSET Backends]
      BY <3>2, <3>3, BackendsAssumption DEF ShapeOK, Backends
    <3>5. rrIdx' \in Nat
      BY <2>3, CycleAssumption DEF Choose, ShapeOK
    <3>6. /\ point' \in [Requests -> Point]
          /\ attempt' \in [Requests -> Nat]
          /\ scanned' \in [Requests -> 0..NumBackends]
          /\ candidates' \in [Requests -> SUBSET Backends]
      BY <2>3, BackendsAssumption DEF Choose, ShapeOK, Point
    <3>7. QED  BY <2>3, <3>1, <3>4, <3>5, <3>6 DEF Choose, ShapeOK
  <2>4. CASE NoneLeft(r)
    <3>1. HealthTypeOK'
      BY <1>0, <2>4, HealthStep DEF NoneLeft
    <3>2. QED  BY <2>4, <3>1 DEF NoneLeft, ShapeOK, Point
  <2>5. CASE Call(r)
    <3>1. HealthTypeOK'
      BY <1>0, <2>5, HealthStep DEF Call
    <3>2. point' \in [Requests -> Point]
      BY <2>0, <2>5 DEF Call, Point
    <3>3. inFlight' \in [Backends -> Int]
      <4>1. target[r] \in Backends
        BY <2>5 DEF Call, Goes, Bookkeeping, Targeted
      <4>2. inFlight[target[r]] \in Int /\ inFlight \in [Backends -> Int]
        BY <4>1 DEF ShapeOK
      <4>3. inFlight' = [inFlight EXCEPT ![target[r]] = inFlight[target[r]] + 1]
        BY <2>5 DEF Call, Load
      <4>4. QED  BY <4>1, <4>2, <4>3
    <3>4. QED  BY <2>5, <3>1, <3>2, <3>3 DEF Call, ShapeOK
  <2>6. CASE Blame(r)
    <3>1. target[r] \in Backends
      BY <2>6 DEF Blame, Goes, Bookkeeping, Targeted
    <3>2. HealthTypeOK'
      BY <1>0, <2>6, <3>1, HealthStep DEF Blame
    <3>3. point' \in [Requests -> Point]
      BY <2>0, <2>6 DEF Blame, Point
    <3>4. QED  BY <2>6, <3>2, <3>3 DEF Blame, ShapeOK
  <2>7. CASE CallFails(r)
    <3>1. HealthTypeOK'
      BY <1>0, <2>7, HealthStep DEF CallFails
    <3>2. point' \in [Requests -> Point]
      BY <2>0, <2>7 DEF CallFails, Point
    <3>3. inFlight' \in [Backends -> Int]
      <4>1. target[r] \in Backends
        BY <2>7 DEF CallFails, Goes, Bookkeeping, Targeted
      <4>2. inFlight[target[r]] \in Int /\ inFlight \in [Backends -> Int]
        BY <4>1 DEF ShapeOK
      <4>3. inFlight' = [inFlight EXCEPT ![target[r]] = inFlight[target[r]] + -1]
        BY <2>7 DEF CallFails, Load
      <4>4. QED  BY <4>1, <4>2, <4>3
    <3>4. QED  BY <2>7, <3>1, <3>2, <3>3 DEF CallFails, ShapeOK
  <2>8. CASE Answer(r)
    <3>1. HealthTypeOK'
      BY <1>0, <2>8, HealthStep DEF Answer
    <3>2. point' \in [Requests -> Point]
      BY <2>0, <2>8 DEF Answer, Point
    <3>3. QED  BY <2>8, <3>1, <3>2 DEF Answer, ShapeOK
  <2>9. CASE CloseBody(r)
    <3>1. HealthTypeOK'
      BY <1>0, <2>9, HealthStep DEF CloseBody
    <3>2. point' \in [Requests -> Point]
      BY <2>0, <2>9 DEF CloseBody, Point
    <3>3. inFlight' \in [Backends -> Int]
      <4>1. target[r] \in Backends
        BY <2>9 DEF CloseBody, Goes, Bookkeeping, Targeted
      <4>2. inFlight[target[r]] \in Int /\ inFlight \in [Backends -> Int]
        BY <4>1 DEF ShapeOK
      <4>3. inFlight' = [inFlight EXCEPT ![target[r]] = inFlight[target[r]] + -1]
        BY <2>9 DEF CloseBody, Load
      <4>4. QED  BY <4>1, <4>2, <4>3
    <3>4. QED  BY <2>9, <3>1, <3>2, <3>3 DEF CloseBody, ShapeOK
  <2>10. CASE Praise(r)
    <3>1. target[r] \in Backends
      BY <2>10 DEF Praise, Goes, Bookkeeping, Targeted
    <3>2. HealthTypeOK'
      BY <1>0, <2>10, <3>1, HealthStep DEF Praise
    <3>3. point' \in [Requests -> Point]
      BY <2>0, <2>10 DEF Praise, Point
    <3>4. QED  BY <2>10, <3>2, <3>3 DEF Praise, ShapeOK
  <2>11. CASE Expire(r)
    <3>1. HealthTypeOK'
      BY <1>0, <2>11, HealthStep DEF Expire
    <3>2. expired' \in [Requests -> BOOLEAN]
      BY <2>11, Zenon DEF Expire, ShapeOK
    <3>3. QED  BY <2>11, <3>1, <3>2 DEF Expire, ShapeOK
  <2>12. QED
    BY <1>3, <2>1, <2>2, <2>3, <2>4, <2>5, <2>6, <2>7, <2>8, <2>9, <2>10, <2>11
    DEF RequestStep, Proceed
<1>4. QED  BY <1>1, <1>2, <1>3 DEF Next

\* The bookkeeping of each request is kept.
LEMMA BookkeepingStep == ShapeOK /\ Bookkeeping /\ [Next]_vars => Bookkeeping'
<1> SUFFICES ASSUME ShapeOK, Bookkeeping, [Next]_vars PROVE Bookkeeping'
  OBVIOUS
<1> USE MaxAttemptsType DEF Bookkeeping, ShapeOK, requestVars, pickVars, Targeted
<1>1. CASE ProbeAny \/ UNCHANGED vars
  BY <1>1 DEF ProbeAny, vars
<1>2. ASSUME NEW r \in Requests, RequestStep(r) PROVE Bookkeeping'
  <2>1. CASE Do(r)
    BY <2>1 DEF Do, Goes
  <2>2. CASE LookAt(r)
    <3>1. \A q \in Requests : candidates'[q] \cap tried[q] = {}
      <4>1. CASE scanned[r] + 1 \notin tried[r] /\ healthy[scanned[r] + 1]
        <5>1. candidates' = [candidates EXCEPT ![r] = @ \cup {scanned[r] + 1}]
          BY <2>2, <4>1 DEF LookAt
        <5>2. \A q \in Requests :
                  candidates'[q] = IF q = r THEN candidates[r] \cup {scanned[r] + 1}
                                            ELSE candidates[q]
          BY <5>1
        <5>3. QED  BY <4>1, <5>2
      <4>2. CASE ~(scanned[r] + 1 \notin tried[r] /\ healthy[scanned[r] + 1])
        BY <2>2, <4>2, Zenon DEF LookAt
      <4>3. QED  BY <4>1, <4>2
    <3>2. QED  BY <2>2, <3>1 DEF LookAt
  <2>3. CASE Choose(r)
    <3>1. PICK b \in Choices(r) : /\ target' = [target EXCEPT ![r] = b]
                                  /\ tried' = [tried EXCEPT ![r] = @ \cup {b}]
      BY <2>3 DEF Choose
    <3>2. b \in Backends
      BY ChoicesUntried
    <3>3. attempt[r] < MaxAttempts
      BY <2>3 DEF Choose, PickDone
    <3>4. QED  BY <2>3, <3>1, <3>2, <3>3 DEF Choose
  <2>4. CASE NoneLeft(r)
    BY <2>4 DEF NoneLeft
  <2>5. CASE Call(r)
    BY <2>5 DEF Call, Goes
  <2>6. CASE Blame(r)
    BY <2>6 DEF Blame, Goes
  <2>7. CASE CallFails(r)
    BY <2>7 DEF CallFails, Goes
  <2>8. CASE Answer(r)
    BY <2>8 DEF Answer, Goes
  <2>9. CASE CloseBody(r)
    BY <2>9 DEF CloseBody, Goes
  <2>10. CASE Praise(r)
    BY <2>10 DEF Praise, Goes
  <2>11. CASE Expire(r)
    BY <2>11 DEF Expire
  <2>12. QED
    BY <1>2, <2>1, <2>2, <2>3, <2>4, <2>5, <2>6, <2>7, <2>8, <2>9, <2>10, <2>11
    DEF RequestStep, Proceed
<1>3. QED  BY <1>1, <1>2 DEF Next

-----------------------------------------------------------------------------

\* NeverTwice: an attempt adds a backend to those tried, and only it does.
LEMMA NeverTwiceStep ==
    ShapeOK /\ Bookkeeping /\ NeverTwice /\ [Next]_vars => NeverTwice'
<1> SUFFICES ASSUME ShapeOK, Bookkeeping, NeverTwice, [Next]_vars
             PROVE  NeverTwice'
  OBVIOUS
<1>1. CASE \E r \in Requests : Choose(r)
  <2>1. PICK r \in Requests : Choose(r)
    BY <1>1
  <2>2. PICK b \in Choices(r) : tried' = [tried EXCEPT ![r] = @ \cup {b}]
    BY <2>1 DEF Choose
  <2>3. b \in Backends /\ b \notin tried[r]
    BY ChoicesUntried
  <2>4. IsFiniteSet(tried[r])
    <3>1. IsFiniteSet(Backends)
      BY BackendsAssumption, FS_Interval DEF Backends
    <3>2. tried[r] \in SUBSET Backends
      BY DEF ShapeOK
    <3>3. QED  BY <3>1, <3>2, FS_Subset
  <2>5. Cardinality(tried[r] \cup {b}) = Cardinality(tried[r]) + 1
    BY <2>3, <2>4, FS_AddElement
  <2>6. attempt'[r] = attempt[r] + 1 /\ tried'[r] = tried[r] \cup {b}
    BY <2>1, <2>2 DEF Choose, ShapeOK
  <2>7. \A q \in Requests : q # r => attempt'[q] = attempt[q] /\ tried'[q] = tried[q]
    BY <2>1, <2>2 DEF Choose, ShapeOK
  <2>8. QED  BY <2>5, <2>6, <2>7 DEF NeverTwice
<1>2. CASE UNCHANGED <<attempt, tried>>
  BY <1>2 DEF NeverTwice
<1>3. QED
  BY <1>1, <1>2
  DEF Next, vars, requestVars, ProbeAny, RequestStep, Proceed, Do, LookAt,
      NoneLeft, Call, Blame, CallFails, Answer, CloseBody, Praise, Expire

\* The first of a set of backends exists, so that a request with an untried
\* backend has a last resort.
LEMMA FirstExists ==
    ASSUME NEW S \in SUBSET Backends, S # {}
    PROVE  \E b \in S : \A c \in S : b <= c
<1>1. S \subseteq Nat
  BY BackendsAssumption DEF Backends
<1>2. PICK b \in S : \A c \in S : ~(<<c, b>> \in OpToRel(<, Nat))
  BY <1>1, NatLessThanWellFounded, WFMin
<1>3. ASSUME NEW c \in S PROVE b <= c
  <2>1. ~(c < b)
    BY <1>1, <1>2 DEF OpToRel
  <2>2. QED  BY <1>1, <2>1
<1>4. QED  BY <1>3

\* GivesUpLate: Do ends its loop after the last attempt, or leaves it when pick
\* found neither a candidate nor a last resort.
LEMMA GivesUpStep ==
    ShapeOK /\ Bookkeeping /\ GivesUpLate /\ [Next]_vars => GivesUpLate'
<1> SUFFICES ASSUME ShapeOK, Bookkeeping, GivesUpLate, [Next]_vars
             PROVE  GivesUpLate'
  OBVIOUS
<1> USE DEF GivesUpLate, requestVars, pickVars
<1>1. CASE ProbeAny \/ UNCHANGED vars
  BY <1>1 DEF ProbeAny, vars
<1>2. ASSUME NEW r \in Requests, RequestStep(r) PROVE GivesUpLate'
  <2>1. CASE Choose(r)
    <3>1. \A q \in Requests : /\ q # r => /\ attempt'[q] = attempt[q]
                                          /\ tried'[q] = tried[q]
                                          /\ point'[q] = point[q]
                              /\ q = r => point'[q] = "picked"
      BY <2>1 DEF Choose, ShapeOK
    <3>2. QED  BY <3>1
  <2>2. CASE NoneLeft(r)
    <3>1. Untried(r) = {}
      <4>1. Untried(r) \in SUBSET Backends
        BY DEF Untried
      <4>2. QED  BY <2>2, <4>1, FirstExists DEF NoneLeft, LastResort
    <3>2. tried[r] = Backends
      BY <3>1 DEF ShapeOK, Untried
    <3>3. QED  BY <2>2, <3>2 DEF NoneLeft, ShapeOK
  <2>3. CASE Blame(r)
    <3>1. point'[r] = "gaveUp" => attempt[r] = MaxAttempts
      BY <2>3, MaxAttemptsType DEF Blame, Goes, Bookkeeping, ShapeOK
    <3>2. QED  BY <2>3, <3>1 DEF Blame, Goes, ShapeOK
  <2>4. CASE Do(r) \/ LookAt(r) \/ Call(r) \/ CallFails(r) \/ Answer(r)
                   \/ CloseBody(r) \/ Praise(r) \/ Expire(r)
    BY <2>4 DEF Do, LookAt, Call, CallFails, Answer, CloseBody, Praise, Expire,
                Goes, ShapeOK
  <2>5. QED  BY <1>2, <2>1, <2>2, <2>3, <2>4 DEF RequestStep, Proceed
<1>3. QED  BY <1>1, <1>2 DEF Next

-----------------------------------------------------------------------------

\* InFlightExact: each exit of doOnce and of the body takes the request off
\* the count that its call put it on.
LEMMA InFlightStep ==
    ShapeOK /\ Bookkeeping /\ InFlightExact /\ [Next]_vars => InFlightExact'
<1> SUFFICES ASSUME ShapeOK, Bookkeeping, InFlightExact, [Next]_vars
             PROVE  InFlightExact'
  OBVIOUS
<1> USE DEF requestVars, pickVars
<1>0. ASSUME NEW b \in Backends
      PROVE  IsFiniteSet(Served(b)) /\ Cardinality(Served(b)) \in Nat
  <2>1. Served(b) \in SUBSET Requests
    BY DEF Served
  <2>2. QED  BY <2>1, RequestsAssumption, FS_Subset, FS_CardinalityType
<1>1. DOMAIN inFlight = Backends /\ inFlight \in [Backends -> Nat]
  BY <1>0 DEF InFlightExact, ShapeOK
<1>2. CASE UNCHANGED inFlight /\ \A b \in Backends : Served(b)' = Served(b)
  BY <1>2 DEF InFlightExact
<1>3. ASSUME NEW r \in Requests,
             Goes(r, "picked", "calling"), Load(r, 1), UNCHANGED target
      PROVE  InFlightExact'
  <2>1. target[r] \in Backends
    BY <1>3 DEF Goes, Bookkeeping, Targeted
  <2>2. r \notin Served(target[r])
    BY <1>3 DEF Goes, Served
  <2>3. \A b \in Backends :
            Served(b)' = IF b = target[r] THEN Served(b) \cup {r} ELSE Served(b)
    BY <1>3 DEF Goes, Served, ShapeOK
  <2>4. \A b \in Backends :
            inFlight'[b] = IF b = target[r] THEN inFlight[b] + 1 ELSE inFlight[b]
    BY <1>1, <1>3 DEF Load
  <2>5. Cardinality(Served(target[r]) \cup {r}) = Cardinality(Served(target[r])) + 1
    BY <1>0, <2>1, <2>2, FS_AddElement
  <2>6. QED  BY <2>1, <2>3, <2>4, <2>5 DEF InFlightExact
<1>4. ASSUME NEW r \in Requests, point[r] \in {"calling", "body"},
             point' = [point EXCEPT ![r] = IF point[r] = "calling" THEN "failed"
                                                                   ELSE "closing"],
             Load(r, -1), UNCHANGED target
      PROVE  InFlightExact'
  <2>1. target[r] \in Backends
    BY <1>4 DEF Bookkeeping, Targeted
  <2>2. r \in Served(target[r])
    BY <1>4 DEF Served
  <2>3. \A b \in Backends :
            Served(b)' = IF b = target[r] THEN Served(b) \ {r} ELSE Served(b)
    BY <1>4 DEF Served, ShapeOK
  <2>4. \A b \in Backends :
            inFlight'[b] = IF b = target[r] THEN inFlight[b] + -1 ELSE inFlight[b]
    BY <1>1, <1>4 DEF Load
  <2>5. Cardinality(Served(target[r]) \ {r}) = Cardinality(Served(target[r])) - 1
    BY <1>0, <2>1, <2>2, FS_RemoveElement
  <2>6. inFlight[target[r]] \in Nat
    BY <1>1, <2>1
  <2>7. QED  BY <2>1, <2>3, <2>4, <2>5, <2>6 DEF InFlightExact
<1>5. CASE ProbeAny \/ UNCHANGED vars
  BY <1>2, <1>5 DEF ProbeAny, vars, Served
<1>6. ASSUME NEW r \in Requests, RequestStep(r) PROVE InFlightExact'
  <2>1. CASE Call(r)
    BY <1>3, <2>1 DEF Call
  <2>2. CASE CallFails(r)
    BY <1>4, <2>2 DEF CallFails, Goes
  <2>3. CASE CloseBody(r)
    BY <1>4, <2>3 DEF CloseBody, Goes
  <2>4. CASE Answer(r)
    <3>1. \A b \in Backends : Served(b)' = Served(b)
      BY <2>4 DEF Answer, Goes, Served, ShapeOK
    <3>2. QED  BY <1>2, <2>4, <3>1 DEF Answer
  <2>5. CASE Choose(r)
    <3>1. \A b \in Backends : Served(b)' = Served(b)
      BY <2>5 DEF Choose, PickDone, Served, ShapeOK
    <3>2. QED  BY <1>2, <2>5, <3>1 DEF Choose
  <2>6. CASE Do(r) \/ LookAt(r) \/ NoneLeft(r) \/ Blame(r) \/ Praise(r) \/ Expire(r)
    <3>1. \A b \in Backends : Served(b)' = Served(b)
      BY <2>6 DEF Do, LookAt, NoneLeft, PickDone, Blame, Praise, Expire, Goes,
                  Served, ShapeOK
    <3>2. QED  BY <1>2, <2>6, <3>1 DEF Do, LookAt, NoneLeft, Blame, Praise, Expire
  <2>7. QED
    BY <1>6, <2>1, <2>2, <2>3, <2>4, <2>5, <2>6 DEF RequestStep, Proceed
<1>7. QED  BY <1>5, <1>6 DEF Next

-----------------------------------------------------------------------------

IInv ==
    /\ ShapeOK
    /\ Bookkeeping
    /\ NeverTwice
    /\ GivesUpLate
    /\ InFlightExact

\* NewBackend's health record has its type.
LEMMA HealthStart == HealthInit => HealthTypeOK
<1>1. HealthInit => /\ healthy \in [Backends -> BOOLEAN]
                    /\ up \in [Backends -> BOOLEAN]
  BY Zenon DEF HealthInit
<1>2. QED
  BY <1>1, ThresholdAssumption DEF HealthInit, HealthTypeOK, ProbePoint

\* The inductive invariant of the router.
THEOREM InvariantHolds == Spec => []IInv
<1>1. Init => IInv
  <2> SUFFICES ASSUME Init PROVE IInv
    OBVIOUS
  <2>1. HealthTypeOK
    BY HealthStart DEF Init
  <2>2. expired \in [Requests -> BOOLEAN]
    BY Zenon DEF Init
  <2>3. ShapeOK
    BY <2>1, <2>2, BackendsAssumption DEF Init, ShapeOK, Point
  <2>4. Bookkeeping /\ GivesUpLate
    BY MaxAttemptsType DEF Init, Bookkeeping, GivesUpLate, Targeted
  <2>5. NeverTwice
    BY FS_EmptySet DEF Init, NeverTwice
  <2>6. InFlightExact
    <3>1. \A b \in Backends : Served(b) = {}
      BY DEF Init, Served
    <3>2. QED  BY <3>1, FS_EmptySet DEF Init, InFlightExact
  <2>7. QED  BY <2>3, <2>4, <2>5, <2>6 DEF IInv
<1>2. IInv /\ [Next]_vars => IInv'
  BY ShapeStep, BookkeepingStep, NeverTwiceStep, GivesUpStep, InFlightStep DEF IInv
<1>3. QED  BY <1>1, <1>2, PTL DEF Spec

\* All variables keep their types, the counts included.
THEOREM TypeCorrect == Spec => []TypeOK
<1>1. IInv => TypeOK
  <2> SUFFICES ASSUME IInv PROVE TypeOK
    OBVIOUS
  <2>1. \A b \in Backends : inFlight[b] \in Nat
    <3>1. \A b \in Backends : Served(b) \in SUBSET Requests
      BY DEF Served
    <3>2. \A b \in Backends : Cardinality(Served(b)) \in Nat
      BY <3>1, RequestsAssumption, FS_Subset, FS_CardinalityType
    <3>3. QED  BY <3>2 DEF IInv, InFlightExact
  <2>2. QED  BY <2>1 DEF IInv, ShapeOK, TypeOK
<1>2. QED  BY <1>1, InvariantHolds, PTL

\* The in-flight counts are exact in every reachable state.
THEOREM InFlightIsExact == Spec => []InFlightExact
BY InvariantHolds, PTL DEF IInv

\* No request calls a backend twice.
THEOREM AttemptsAreDistinct == Spec => []NeverTwice
BY InvariantHolds, PTL DEF IInv

\* No request gives up with an attempt and an untried backend left.
THEOREM GivesUpOnlyLate == Spec => []GivesUpLate
BY InvariantHolds, PTL DEF IInv

-----------------------------------------------------------------------------
(* The gauge, for one probe of a backend at a time: between the flag and the *)
(* gauge no other probe comes, and requests touch neither.                   *)

OneProbe == \A p, q \in Probes : p = q

GaugeFollows(b) ==
    /\ \A p \in Probes : probe[b][p] = "restored" => healthy[b] = TRUE
    /\ \A p \in Probes : probe[b][p] = "lowered" => healthy[b] = FALSE
    /\ (\A p \in Probes : probe[b][p] \notin {"restored", "lowered"})
          => up[b] = healthy[b]

LEMMA GaugeStep ==
    ASSUME OneProbe, HealthTypeOK, \A b \in Backends : GaugeFollows(b),
           \/ \E b \in Backends, p \in Probes : ProbeStep(b, p)
           \/ UNCHANGED <<healthy, up, probe>>
    PROVE  \A b \in Backends : GaugeFollows(b)'
<1>1. CASE UNCHANGED <<healthy, up, probe>>
  BY <1>1 DEF GaugeFollows
<1>2. ASSUME NEW b \in Backends, NEW p \in Probes, ProbeStep(b, p)
      PROVE  \A c \in Backends : GaugeFollows(c)'
  <2>1. ASSUME NEW from, NEW to, Moves(b, p, from, to)
        PROVE  /\ probe[b][p] = from
               /\ \A q \in Probes : probe'[b][q] = to
               /\ \A c \in Backends : c # b => probe'[c] = probe[c]
    BY <2>1 DEF Moves, HealthTypeOK, OneProbe
  <2>2. \A q \in Probes : probe[b][q] = probe[b][p]
    BY DEF OneProbe
  <2>3. \A c \in Backends : c # b =>
            probe'[c] = probe[c] /\ healthy'[c] = healthy[c] /\ up'[c] = up[c]
    BY <1>2, <2>1 DEF ProbeStep, RecordStep, ProbeStart, ProbeSucceeds, ProbeFails,
       RestoreHealthy, SetUp, CompareFailures, LoadHealthy, LowerHealthy, SetDown,
       HealthTypeOK
  <2>4. (/\ \A q \in Probes : probe'[b][q] \notin {"restored", "lowered"}
         /\ up'[b] = healthy'[b]) => GaugeFollows(b)'
    <3> SUFFICES ASSUME \A q \in Probes : probe'[b][q] \notin {"restored", "lowered"},
                        up'[b] = healthy'[b]
                 PROVE  GaugeFollows(b)'
      OBVIOUS
    <3>1. \A q \in Probes : probe'[b][q] # "restored" /\ probe'[b][q] # "lowered"
      OBVIOUS
    <3>2. QED
      BY <3>1, Zenon DEF GaugeFollows
  <2>5. ASSUME \/ ProbeStart(b, p) \/ ProbeSucceeds(b, p) \/ ProbeFails(b, p)
               \/ CompareFailures(b, p) \/ LoadHealthy(b, p)
        PROVE  GaugeFollows(b)'
    <3>1. /\ healthy' = healthy /\ up' = up
          /\ probe[b][p] \in {"idle", "asked", "counted", "over"}
      BY <2>5 DEF ProbeStart, ProbeSucceeds, ProbeFails, CompareFailures, LoadHealthy, Moves
    <3>2. up[b] = healthy[b]
      BY <2>2, <3>1 DEF GaugeFollows
    <3>3. PICK to \in {"asked", "cleared", "counted", "over", "idle", "lowering"} :
              \A q \in Probes : probe'[b][q] = to
      BY <2>1, <2>5
      DEF ProbeStart, ProbeSucceeds, ProbeFails, CompareFailures, LoadHealthy
    <3>4. \A q \in Probes : probe'[b][q] \notin {"restored", "lowered"}
      BY <3>3
    <3>5. up'[b] = healthy'[b]
      BY <3>1, <3>2, Zenon
    <3>6. QED
      BY <2>4, <3>4, <3>5, Zenon
  <2>6. ASSUME RestoreHealthy(b, p) PROVE GaugeFollows(b)'
    <3>1. healthy'[b] = TRUE /\ \A q \in Probes : probe'[b][q] = "restored"
      BY <2>1, <2>6, Zenon DEF RestoreHealthy, HealthTypeOK
    <3>2. \A q \in Probes : probe'[b][q] # "lowered"
      BY <3>1
    <3>3. QED
      BY <1>2, <3>1, <3>2, Zenon DEF GaugeFollows
  <2>7. ASSUME LowerHealthy(b, p) PROVE GaugeFollows(b)'
    <3>1. healthy'[b] = FALSE /\ \A q \in Probes : probe'[b][q] = "lowered"
      BY <2>1, <2>7, Zenon DEF LowerHealthy, HealthTypeOK
    <3>2. \A q \in Probes : probe'[b][q] # "restored"
      BY <3>1
    <3>3. QED
      BY <1>2, <3>1, <3>2, Zenon DEF GaugeFollows
  <2>8. ASSUME SetUp(b, p) PROVE GaugeFollows(b)'
    <3>1. /\ up'[b] = TRUE /\ healthy' = healthy /\ probe[b][p] = "restored"
          /\ \A q \in Probes : probe'[b][q] = "idle"
      BY <2>1, <2>8, Zenon DEF SetUp, HealthTypeOK
    <3>2. healthy[b] = TRUE
      BY <1>2, <3>1, Zenon DEF GaugeFollows
    <3>3. up'[b] = healthy'[b]
      BY <3>1, <3>2, Zenon
    <3>4. \A q \in Probes : probe'[b][q] \notin {"restored", "lowered"}
      BY <3>1
    <3>5. QED
      BY <2>4, <3>3, <3>4, Zenon
  <2>9. ASSUME SetDown(b, p) PROVE GaugeFollows(b)'
    <3>1. /\ up'[b] = FALSE /\ healthy' = healthy /\ probe[b][p] = "lowered"
          /\ \A q \in Probes : probe'[b][q] = "idle"
      BY <2>1, <2>9, Zenon DEF SetDown, HealthTypeOK
    <3>2. healthy[b] = FALSE
      BY <1>2, <3>1, Zenon DEF GaugeFollows
    <3>3. up'[b] = healthy'[b]
      BY <3>1, <3>2, Zenon
    <3>4. \A q \in Probes : probe'[b][q] \notin {"restored", "lowered"}
      BY <3>1
    <3>5. QED
      BY <2>4, <3>3, <3>4, Zenon
  <2>10. GaugeFollows(b)'
    BY <1>2, <2>5, <2>6, <2>7, <2>8, <2>9 DEF ProbeStep, RecordStep
  <2>11. ASSUME NEW c \in Backends, c # b PROVE GaugeFollows(c)'
    BY <2>3, <2>11 DEF GaugeFollows
  <2>12. QED
    BY <2>10, <2>11
<1>3. QED
  BY <1>1, <1>2

\* BackendHealth alone: the gauge agrees with the flag, whatever order outcomes
\* of probes and requests' own successes and failures come in.
THEOREM HealthGaugeIsRight == ASSUME OneProbe PROVE HealthSpec => []GaugeAgrees
<1> DEFINE Follow == HealthTypeOK /\ \A b \in Backends : GaugeFollows(b)
<1>1. HealthInit => Follow
  <2>1. HealthInit => HealthTypeOK
    BY HealthStart
  <2>2. HealthInit => \A b \in Backends : GaugeFollows(b)
    BY DEF HealthInit, GaugeFollows
  <2>3. QED
    BY <2>1, <2>2
<1>2. Follow /\ [HealthNext]_healthVars => Follow'
  <2> SUFFICES ASSUME Follow, [HealthNext]_healthVars PROVE Follow'
    OBVIOUS
  <2>1. HealthTypeOK'
    BY HealthStep DEF HealthNext
  <2>2. \/ \E b \in Backends, p \in Probes : ProbeStep(b, p)
        \/ UNCHANGED <<healthy, up, probe>>
    BY DEF HealthNext, healthVars, markFailure, markSuccess
  <2>3. \A b \in Backends : GaugeFollows(b)'
    BY <2>2, GaugeStep
  <2>4. QED
    BY <2>1, <2>3
<1>3. Follow => GaugeAgrees
  BY DEF GaugeFollows, GaugeAgrees
<1>4. QED
  BY <1>1, <1>2, <1>3, PTL DEF HealthSpec

\* Router.Do touches the health record by markFailure and markSuccess of a
\* backend it has called and in no other way, so that what BackendHealth
\* promises in every behaviour holds under the router.
THEOREM RouterKeepsHealth == Spec => HealthSpec
<1>1. Init => HealthInit
  BY DEF Init
<1>2. IInv /\ [Next]_vars => [HealthNext]_healthVars
  <2> SUFFICES ASSUME IInv, [Next]_vars PROVE [HealthNext]_healthVars
    OBVIOUS
  <2>1. CASE ProbeAny
    BY <2>1 DEF ProbeAny, HealthNext
  <2>2. ASSUME NEW r \in Requests, Blame(r) \/ Praise(r)
        PROVE  HealthNext
    <3>1. target[r] \in Backends
      BY <2>2 DEF IInv, Bookkeeping, Targeted, Blame, Praise, Goes
    <3>2. markFailure(target[r]) \/ markSuccess(target[r])
      BY <2>2 DEF Blame, Praise
    <3>3. QED
      BY <3>1, <3>2 DEF HealthNext
  <2>3. ASSUME NEW r \in Requests,
               \/ Do(r) \/ LookAt(r) \/ Choose(r) \/ NoneLeft(r) \/ Call(r)
               \/ CallFails(r) \/ Answer(r) \/ CloseBody(r) \/ Expire(r)
        PROVE  UNCHANGED healthVars
    BY <2>3 DEF Do, LookAt, Choose, NoneLeft, Call, CallFails, Answer, CloseBody, Expire
  <2>4. CASE UNCHANGED vars
    BY <2>4 DEF vars
  <2>5. QED
    BY <2>1, <2>2, <2>3, <2>4 DEF Next, RequestStep, Proceed
<1>3. QED
  BY <1>1, <1>2, InvariantHolds, PTL DEF Spec, HealthSpec

\* Under the router the gauge agrees with the flag as well.
THEOREM GaugeIsRight == ASSUME OneProbe PROVE Spec => []GaugeAgrees
BY HealthGaugeIsRight, RouterKeepsHealth, PTL
=============================================================================
