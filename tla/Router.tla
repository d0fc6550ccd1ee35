------------------------------- MODULE Router -------------------------------
(***************************************************************************)
(* internal/router/router.go on top of BackendHealth: concurrent Do calls  *)
(* that pick a backend, call it, blame it if the call fails and retry on   *)
(* another one, and callers that close the response body they were given.  *)
(*                                                                         *)
(* Do's shared state is the health record and in-flight count of each      *)
(* backend and the round-robin index.  pick looks at the backends' health  *)
(* one by one, and the in-flight count rises only after the choice, so     *)
(* other requests and probes come in between.  All attempts of a request   *)
(* run under the one context its caller gave it.                           *)
(***************************************************************************)
EXTENDS BackendHealth

CONSTANTS
    Requests,        \* the concurrent calls of Do
    RetryAttempts,   \* cfg.RetryAttempts
    Strategy,        \* cfg.Strategy
    RoundRobinCycle  \* where the model wraps rrIdx around

ASSUME RequestsAssumption == IsFiniteSet(Requests)
ASSUME RetryAssumption == RetryAttempts \in Int

\* rrIdx is only used modulo the number of candidates, so that wrapping it at
\* a common multiple of the possible numbers changes no choice.
ASSUME CycleAssumption ==
    /\ RoundRobinCycle \in Nat \ {0}
    /\ \A n \in 1..NumBackends : RoundRobinCycle % n = 0

VARIABLES
    point,        \* where each request is in Do and after it
    attempt,      \* calls of doOnce so far: the loop variable i of Do
    tried,        \* the backends it called: tried
    scanned,      \* how many backends pick has looked at
    candidates,   \* pick's candidates
    target,       \* the backend of the current attempt, 0 before the first
    expired,      \* the deadline of the caller's context has passed
    inFlight,     \* Backend.inFlight
    rrIdx         \* Router.rrIdx, modulo RoundRobinCycle

pickVars    == <<scanned, candidates>>
requestVars == <<point, attempt, tried, pickVars, target, expired>>
vars        == <<healthVars, requestVars, inFlight, rrIdx>>

Point == {"new", "pick", "picked", "calling", "failed",
          "body", "closing", "closed", "gaveUp"}

\* Do's first lines.
MaxAttempts == IF RetryAttempts < 1 THEN 1 ELSE RetryAttempts

Init ==
    /\ HealthInit
    /\ point = [r \in Requests |-> "new"]
    /\ attempt = [r \in Requests |-> 0]
    /\ tried = [r \in Requests |-> {}]
    /\ scanned = [r \in Requests |-> 0]
    /\ candidates = [r \in Requests |-> {}]
    /\ target = [r \in Requests |-> 0]
    /\ expired = [r \in Requests |-> FALSE]
    /\ inFlight = [b \in Backends |-> 0]
    /\ rrIdx = 0

Goes(r, from, to) == point[r] = from /\ point' = [point EXCEPT ![r] = to]

-----------------------------------------------------------------------------
(* Do and pick.                                                            *)

Do(r) ==
    /\ Goes(r, "new", "pick")
    /\ UNCHANGED <<healthVars, attempt, tried, pickVars, target, expired,
                   inFlight, rrIdx>>

\* pick's first loop, one backend: excluded, unhealthy or a candidate.
LookAt(r) ==
    /\ point[r] = "pick"
    /\ scanned[r] < NumBackends
    /\ LET b == scanned[r] + 1
       IN  candidates' = IF b \notin tried[r] /\ healthy[b]
                         THEN [candidates EXCEPT ![r] = @ \cup {b}]
                         ELSE candidates
    /\ scanned' = [scanned EXCEPT ![r] = @ + 1]
    /\ UNCHANGED <<healthVars, point, attempt, tried, target, expired,
                   inFlight, rrIdx>>

Untried(r) == Backends \ tried[r]

\* Mutation: no last resort, unhealthy backends are never tried.
NoLastResort(r) == {b \in Untried(r) : healthy[b]}

\* Mutation: the last resort ignores what was tried.
AnyLastResort(r) == {b \in Backends : \A c \in Backends : b <= c}

\* The first backend that is not excluded, healthy or not.
LastResort(r) ==
    {b \in Untried(r) : \A c \in Untried(r) : b <= c}

\* Two different candidates drawn at random, the less loaded one wins.
\* Every weight is positive, so any two can be drawn.
PowerOfTwo(r) ==
    {b \in candidates[r] :
        \/ candidates[r] = {b}
        \/ \E c \in candidates[r] \ {b} : inFlight[b] <= inFlight[c]}

\* The candidate at position rrIdx in configuration order.
InTurn(r) ==
    {b \in candidates[r] :
        Cardinality({c \in candidates[r] : c < b}) = rrIdx % Cardinality(candidates[r])}

Choices(r) ==
    IF candidates[r] = {} THEN LastResort(r)
    ELSE IF Strategy = "round_robin" THEN InTurn(r)
    ELSE PowerOfTwo(r)

PickDone(r) == point[r] = "pick" /\ scanned[r] = NumBackends

\* pick returns a backend: it is excluded from later attempts.
Choose(r) ==
    /\ PickDone(r)
    /\ \E b \in Choices(r) :
          /\ target' = [target EXCEPT ![r] = b]
          /\ tried' = [tried EXCEPT ![r] = @ \cup {b}]
    /\ point' = [point EXCEPT ![r] = "picked"]
    /\ attempt' = [attempt EXCEPT ![r] = @ + 1]
    /\ rrIdx' = IF Strategy = "round_robin" /\ candidates[r] # {}
                THEN (rrIdx + 1) % RoundRobinCycle ELSE rrIdx
    /\ scanned' = [scanned EXCEPT ![r] = 0]
    /\ candidates' = [candidates EXCEPT ![r] = {}]
    /\ UNCHANGED <<healthVars, expired, inFlight>>

\* pick returns nil, Do leaves its loop with the error of the last attempt.
NoneLeft(r) ==
    /\ PickDone(r)
    /\ candidates[r] = {} /\ LastResort(r) = {}
    /\ point' = [point EXCEPT ![r] = "gaveUp"]
    /\ UNCHANGED <<healthVars, attempt, tried, pickVars, target, expired,
                   inFlight, rrIdx>>

-----------------------------------------------------------------------------
(* doOnce and what Do makes of its result.                                 *)

Load(r, n) == inFlight' = [inFlight EXCEPT ![target[r]] = @ + n]

Call(r) ==
    /\ Goes(r, "picked", "calling")
    /\ Load(r, 1)
    /\ UNCHANGED <<healthVars, attempt, tried, pickVars, target, expired, rrIdx>>

\* Mutation: an error exit of doOnce that keeps the count.
CallFailsCounted(r) ==
    /\ Goes(r, "calling", "failed")
    /\ UNCHANGED <<healthVars, attempt, tried, pickVars, target, expired,
                   inFlight, rrIdx>>

\* Mutation: the request is sent without the caller's context.
CallIgnoresContext(r) ==
    /\ ~expired[r]
    /\ Goes(r, "calling", "failed")
    /\ Load(r, -1)
    /\ UNCHANGED <<healthVars, attempt, tried, pickVars, target, expired, rrIdx>>

\* A transport error, the context's deadline, or a 5xx answer.
CallFails(r) ==
    /\ Goes(r, "calling", "failed")
    /\ Load(r, -1)
    /\ UNCHANGED <<healthVars, attempt, tried, pickVars, target, expired, rrIdx>>

\* Do blames the backend and goes on with the next attempt, if there is one.
Blame(r) ==
    /\ Goes(r, "failed", IF attempt[r] < MaxAttempts THEN "pick" ELSE "gaveUp")
    /\ markFailure(target[r])
    /\ UNCHANGED <<attempt, tried, pickVars, target, expired, inFlight, rrIdx>>

\* Response headers that are not a 5xx: Do returns the wrapped body.  Nothing
\* arrives under a context that has ended.
Answer(r) ==
    /\ Goes(r, "calling", "body")
    /\ ~expired[r]
    /\ UNCHANGED <<healthVars, attempt, tried, pickVars, target, expired,
                   inFlight, rrIdx>>

\* countingBody.Close, by the caller: first the count, then the success.
CloseBody(r) ==
    /\ Goes(r, "body", "closing")
    /\ Load(r, -1)
    /\ UNCHANGED <<healthVars, attempt, tried, pickVars, target, expired, rrIdx>>

\* Mutation: the success path takes the request off the count once more.
PraiseUncounts(r) ==
    /\ Goes(r, "closing", "closed")
    /\ Load(r, -1)
    /\ ClearFailures(target[r])
    /\ UNCHANGED <<healthy, up, probe, attempt, tried, pickVars, target, expired,
                   rrIdx>>

Praise(r) ==
    /\ Goes(r, "closing", "closed")
    /\ markSuccess(target[r])
    /\ UNCHANGED <<attempt, tried, pickVars, target, expired, inFlight, rrIdx>>

\* The deadline of the caller's context.  Once Do has returned it concerns
\* the reader of the body only.
Expire(r) ==
    /\ point[r] \in {"pick", "picked", "calling", "failed"}
    /\ ~expired[r]
    /\ expired' = [expired EXCEPT ![r] = TRUE]
    /\ UNCHANGED <<healthVars, point, attempt, tried, pickVars, target,
                   inFlight, rrIdx>>

-----------------------------------------------------------------------------

\* The steps of Do that wait for nobody.
Proceed(r) == LookAt(r) \/ Choose(r) \/ NoneLeft(r) \/ Call(r) \/ Blame(r)

RequestStep(r) ==
    Do(r) \/ Proceed(r) \/ CallFails(r) \/ Answer(r) \/ CloseBody(r)
          \/ Praise(r) \/ Expire(r)

ProbeAny ==
    /\ \E b \in Backends, p \in Probes : ProbeStep(b, p)
    /\ UNCHANGED <<requestVars, inFlight, rrIdx>>

Next == ProbeAny \/ \E r \in Requests : RequestStep(r)

Spec == Init /\ [][Next]_vars

\* The caller's context has a deadline (scheduler.go and dispatchDirect both
\* set one), a call under an ended context fails, and goroutines that can run
\* do.  Backends owe nobody an answer.
Fairness ==
    \A r \in Requests :
        /\ WF_vars(Proceed(r))
        /\ WF_vars(Expire(r))
        /\ WF_vars(expired[r] /\ CallFails(r))

FairSpec == Spec /\ Fairness

-----------------------------------------------------------------------------

TypeOK ==
    /\ HealthTypeOK
    /\ point \in [Requests -> Point]
    /\ attempt \in [Requests -> Nat]
    /\ tried \in [Requests -> SUBSET Backends]
    /\ scanned \in [Requests -> 0..NumBackends]
    /\ candidates \in [Requests -> SUBSET Backends]
    /\ target \in [Requests -> 0..NumBackends]
    /\ expired \in [Requests -> BOOLEAN]
    /\ inFlight \in [Backends -> Nat]
    /\ rrIdx \in Nat

\* The requests a backend is working for, whose count P2C compares.
Served(b) == {r \in Requests : target[r] = b /\ point[r] \in {"calling", "body"}}

\* The in-flight count of a backend is the number of requests it is working
\* for, over every interleaving of calls, error exits, retries and closes.
InFlightExact == \A b \in Backends : inFlight[b] = Cardinality(Served(b))

\* "never the same one twice in the same request": every attempt of a request
\* went to a backend that was new to it, in the last resort as well.
NeverTwice == \A r \in Requests : attempt[r] = Cardinality(tried[r])

\* A request is refused only after as many different backends failed it as
\* there are attempts, or backends: being thought unhealthy keeps no backend
\* from being tried, whenever probes change their mind during pick.
GivesUpLate ==
    \A r \in Requests :
        point[r] = "gaveUp" =>
            \/ attempt[r] = MaxAttempts
            \/ tried[r] = Backends

\* Do returns, whatever backends and probes do.
DoReturns ==
    \A r \in Requests :
        (point[r] = "pick") ~> (point[r] \in {"body", "closing", "closed", "gaveUp"})

\* Package comment: "On a request error or timeout, the router transparently
\* retries": a retry starts under a context that can still bring an answer.
RetryHasBudget ==
    [][\A r \in Requests :
          attempt'[r] > attempt[r] /\ attempt[r] > 0 => ~expired[r]]_vars
=============================================================================
