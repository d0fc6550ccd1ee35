--------------------------- MODULE BackendHealth ---------------------------
(***************************************************************************)
(* internal/router/backend.go and health.go: how a backend is judged       *)
(* healthy or not.  Every health tick starts a goroutine per backend that  *)
(* probes it and records the outcome; request goroutines of the router     *)
(* count failures and successes in the same counter.                       *)
(*                                                                         *)
(* recordHealth touches the counter under a mutex, the healthy flag as an  *)
(* atomic, the velo_backend_up gauge, and reads the counter once more      *)
(* after unlocking: each of these is a step of its own here, so that       *)
(* probes and requests interleave between them.  A racy read of the        *)
(* counter that returns an old value is a read that happened early, which  *)
(* is a behaviour here as well.                                            *)
(***************************************************************************)
EXTENDS Integers, FiniteSets

CONSTANTS
    NumBackends,        \* len(cfg.Backends)
    FailureThreshold,   \* cfg.FailureThreshold
    Probes              \* checkOne goroutines a backend may have at a time: one
                        \* if HealthTimeout < HealthInterval, else several

ASSUME BackendsAssumption == NumBackends \in Nat \ {0}
ASSUME ThresholdAssumption == FailureThreshold \in Nat

\* Backends by their place in the configuration.
Backends == 1..NumBackends

VARIABLES
    failures,   \* Backend.failures, counted up to FailureThreshold only: the
                \* code compares it with the threshold and resets it, nothing else
    healthy,    \* Backend.healthy
    up,         \* the gauge velo_backend_up of the backend
    probe       \* where each checkOne goroutine is

healthVars == <<failures, healthy, up, probe>>

ProbePoint == {"idle", "asked",
               "cleared", "restored",                      \* recordHealth(b, true)
               "counted", "over", "lowering", "lowered"}   \* recordHealth(b, false)

\* NewBackend stores true; New sets every gauge to 1.
HealthInit ==
    /\ failures = [b \in Backends |-> 0]
    /\ healthy = [b \in Backends |-> TRUE]
    /\ up = [b \in Backends |-> TRUE]
    /\ probe = [b \in Backends |-> [p \in Probes |-> "idle"]]

-----------------------------------------------------------------------------
(* The shared counter.                                                     *)

OneMore(n) == IF n < FailureThreshold THEN n + 1 ELSE n

CountFailure(b) == failures' = [failures EXCEPT ![b] = OneMore(@)]

ClearFailures(b) == failures' = [failures EXCEPT ![b] = 0]

-----------------------------------------------------------------------------
(* One probe.                                                              *)

Moves(b, p, from, to) ==
    /\ probe[b][p] = from
    /\ probe' = [probe EXCEPT ![b][p] = to]

\* healthLoop's tick, checkAll, and the request checkOne sends.
ProbeStart(b, p) ==
    /\ Moves(b, p, "idle", "asked")
    /\ UNCHANGED <<failures, healthy, up>>

\* A 2xx answer in time: recordHealth(b, true) resets the counter.
ProbeSucceeds(b, p) ==
    /\ Moves(b, p, "asked", "cleared")
    /\ ClearFailures(b)
    /\ UNCHANGED <<healthy, up>>

\* Mutation: one successful probe does not bring a backend back.
RestoreNothing(b, p) ==
    /\ Moves(b, p, "cleared", "restored")
    /\ UNCHANGED <<failures, healthy, up>>

\* Storing true over a flag that is true already changes nothing, so the
\* load before it is part of the store.
RestoreHealthy(b, p) ==
    /\ Moves(b, p, "cleared", "restored")
    /\ healthy' = [healthy EXCEPT ![b] = TRUE]
    /\ UNCHANGED <<failures, up>>

\* Mutation: the gauge is left alone when the backend comes back.
SetUpForgotten(b, p) ==
    /\ Moves(b, p, "restored", "idle")
    /\ UNCHANGED <<failures, healthy, up>>

SetUp(b, p) ==
    /\ Moves(b, p, "restored", "idle")
    /\ up' = [up EXCEPT ![b] = TRUE]
    /\ UNCHANGED <<failures, healthy>>

\* Mutation: only requests count failures.
ProbeFailsUncounted(b, p) ==
    /\ Moves(b, p, "asked", "counted")
    /\ UNCHANGED <<failures, healthy, up>>

\* Anything else: recordHealth(b, false) counts a failure.
ProbeFails(b, p) ==
    /\ Moves(b, p, "asked", "counted")
    /\ CountFailure(b)
    /\ UNCHANGED <<healthy, up>>

\* The comparison after the unlock reads the counter as it is by now.
CompareFailures(b, p) ==
    /\ Moves(b, p, "counted", IF failures[b] >= FailureThreshold THEN "over" ELSE "idle")
    /\ UNCHANGED <<failures, healthy, up>>

\* healthy.Load: only a backend that is still up is lowered and counted.
LoadHealthy(b, p) ==
    /\ Moves(b, p, "over", IF healthy[b] THEN "lowering" ELSE "idle")
    /\ UNCHANGED <<failures, healthy, up>>

LowerHealthy(b, p) ==
    /\ Moves(b, p, "lowering", "lowered")
    /\ healthy' = [healthy EXCEPT ![b] = FALSE]
    /\ UNCHANGED <<failures, up>>

SetDown(b, p) ==
    /\ Moves(b, p, "lowered", "idle")
    /\ up' = [up EXCEPT ![b] = FALSE]
    /\ UNCHANGED <<failures, healthy>>

\* A step of a probe that its answer or its timeout does not decide.
RecordStep(b, p) ==
    \/ RestoreHealthy(b, p) \/ SetUp(b, p)
    \/ CompareFailures(b, p) \/ LoadHealthy(b, p)
    \/ LowerHealthy(b, p) \/ SetDown(b, p)

ProbeStep(b, p) ==
    \/ ProbeStart(b, p)
    \/ ProbeSucceeds(b, p) \/ ProbeFails(b, p)
    \/ RecordStep(b, p)

-----------------------------------------------------------------------------
(* The requests' side of the counter, at any time.                         *)

markFailure(b) == CountFailure(b) /\ UNCHANGED <<healthy, up, probe>>

markSuccess(b) == ClearFailures(b) /\ UNCHANGED <<healthy, up, probe>>

-----------------------------------------------------------------------------

HealthNext ==
    \E b \in Backends :
        \/ \E p \in Probes : ProbeStep(b, p)
        \/ markFailure(b)
        \/ markSuccess(b)

HealthSpec == HealthInit /\ [][HealthNext]_healthVars

\* The ticker keeps ticking, HealthTimeout ends every probe one way or the
\* other, and a goroutine that can run does.
HealthFairness ==
    \A b \in Backends, p \in Probes :
        /\ WF_healthVars(ProbeStart(b, p))
        /\ WF_healthVars(ProbeSucceeds(b, p) \/ ProbeFails(b, p))
        /\ WF_healthVars(RecordStep(b, p))

FairHealthSpec == HealthSpec /\ HealthFairness

-----------------------------------------------------------------------------

HealthTypeOK ==
    /\ failures \in [Backends -> 0..FailureThreshold]
    /\ healthy \in [Backends -> BOOLEAN]
    /\ up \in [Backends -> BOOLEAN]
    /\ probe \in [Backends -> [Probes -> ProbePoint]]

\* The gauge of metrics.BackendUp ("1 if backend is healthy, 0 otherwise")
\* agrees with the flag whenever no probe of the backend is between setting
\* one and the other, in whatever order outcomes and requests arrive.  It is
\* checked for one probe at a time.
GaugeAgrees ==
    \A b \in Backends :
        (\A p \in Probes : probe[b][p] \notin {"restored", "lowered"})
            => up[b] = healthy[b]

\* A backend that answers its probes from some time on is healthy from some
\* time on, requests that fail and slow recordings of older probes
\* notwithstanding ("a single successful check flips it back").
Recovers ==
    \A b \in Backends :
        <>[][\A p \in Probes : ~ProbeFails(b, p)]_healthVars => <>[]healthy[b]

\* A backend that stops answering its probes, and on which no request
\* succeeds, is unhealthy from some time on, so that the router stops
\* preferring it.
GoesDown ==
    \A b \in Backends :
        <>[][~markSuccess(b) /\ \A p \in Probes : ~ProbeSucceeds(b, p)]_healthVars
            => <>[]~healthy[b]
=============================================================================
