--------------------------- MODULE LoadGenerator ---------------------------
(***************************************************************************)
(* bench/cmd/load/main.go against the gateway and a mock backend.  Worker  *)
(* goroutines stream one completion after the other until the run's        *)
(* context ends, count each call in atomics and append its result under a  *)
(* mutex; when all have returned the run is reported.  This is one run,    *)
(* cold (then the gateway replays nothing) or warm; -compare makes one     *)
(* after the other, with new counters.                                     *)
(*                                                                         *)
(* The gateway is a relay here (Gateway models it): it turns a call down,  *)
(* replays an answer it has stored, or forwards the call, perhaps after    *)
(* its worker has gone, and passes on what the backend sends until it      *)
(* hangs up, which its timeout makes it do.                                *)
(***************************************************************************)
EXTENDS MockBackend, FiniteSetsExt

CONSTANTS
    Workers,    \* *concurrency of them
    MaxCalls    \* bound of the model: calls of a worker

\* A call is named by its worker and its number.
ASSUME LoadAssumption == MaxCalls \in Nat /\ Calls = Workers \X (1..MaxCalls)

VARIABLES
    over,      \* *duration has passed: ctx of runWorkload has ended
    doing,     \* where each worker is
    made,      \* calls it began
    got,       \* tokens it has read of the current one
    fine,      \* ok of the current one's result
    tally,     \* the atomics requests, ok, cacheH and tokens
    results,   \* agg.results
    report,    \* the counters of the aggregate, <<>> until runWorkload returns
    posted,    \* calls the gateway has, not yet forwarded or answered
    hits,      \* calls answered with X-Velo-Cache: HIT
    replayed,  \* and the tokens of their answers
    stored     \* tokens in the answers of the gateway's cache

workVars == <<over, doing, made, got, fine, tally, results, report>>
gateVars == <<posted, hits, replayed, stored>>
vars     == <<mockVars, workVars, gateVars>>

Doing == {"idle", "waiting", "body", "counting", "appending", "returned"}

Tally == [requests : Nat, ok : Nat, hits : Nat, tokens : Nat]

Zero == [requests |-> 0, ok |-> 0, hits |-> 0, tokens |-> 0]

Init ==
    /\ MockInit
    /\ over = FALSE
    /\ doing = [w \in Workers |-> "idle"]
    /\ made = [w \in Workers |-> 0]
    /\ got = [w \in Workers |-> 0]
    /\ fine = [w \in Workers |-> FALSE]
    /\ tally = Zero
    /\ results = {}
    /\ report = <<>>
    /\ posted = {}
    /\ hits = {}
    /\ replayed = [c \in Calls |-> 0]
    /\ stored = {}

\* The call a worker is at.
Call(w) == <<w, made[w]>>

Goes(w, from, to) == doing[w] = from /\ doing' = [doing EXCEPT ![w] = to]

-----------------------------------------------------------------------------
(* The gateway between the two.                                            *)

\* The call goes to the backend, or at least reaches it.
Forward(c) ==
    /\ c \in posted
    /\ Enter(c)
    /\ posted' = posted \ {c}
    /\ UNCHANGED <<workVars, hits, replayed, stored>>

Replay(c) ==
    /\ c \in posted
    /\ \E n \in stored : replayed' = [replayed EXCEPT ![c] = n]
    /\ posted' = posted \ {c}
    /\ hits' = hits \cup {c}
    /\ UNCHANGED <<mockVars, workVars, stored>>

\* What its worker can have read of an answer by now.
Passed(c) == IF c \in hits THEN replayed[c] ELSE sent[c]

\* The body of the upstream answer is closed: it was read to its end, it broke,
\* the client has left, or RequestTimeout has passed.  (No handler looks at its
\* context before it replies.)  Content that was read is stored, if the cache is
\* on, takes it and was not forbidden.
HangUp(c) ==
    /\ c \notin gone /\ at[c] \notin {"load", "swap"}
    /\ ContextEnds(c)
    /\ \/ LET content == IF sent[c] = Done THEN MaxTokens ELSE sent[c]
          IN  content >= 1 /\ stored' = stored \cup {content}
       \/ UNCHANGED stored
    /\ UNCHANGED <<workVars, posted, hits, replayed>>

-----------------------------------------------------------------------------
(* The workers of runWorkload, and callStream.                             *)

\* Do sends a request.
Post(w) ==
    /\ ~over
    /\ made[w] < MaxCalls
    /\ Goes(w, "idle", "waiting")
    /\ made' = [made EXCEPT ![w] = @ + 1]
    /\ posted' = posted \cup {<<w, made[w] + 1>>}
    /\ UNCHANGED <<got, fine, tally, results, hits, replayed, stored>>

\* A status other than 2xx: the gateway's own, or 502 if the backend failed.
TurnedDown(w) ==
    /\ Goes(w, "waiting", "counting")
    /\ Call(w) \in posted \/ (Passed(Call(w)) = -1 /\ at[Call(w)] \in {"leave", "done"})
    /\ posted' = posted \ {Call(w)}
    /\ UNCHANGED <<made, got, fine, tally, results, hits, replayed, stored>>

\* Status 200.
Headers(w) ==
    /\ Goes(w, "waiting", "body")
    /\ Passed(Call(w)) >= 0
    /\ UNCHANGED <<made, got, fine, tally, results, gateVars>>

\* A line with content.
Line(w) ==
    /\ doing[w] = "body"
    /\ got[w] < MaxTokens /\ got[w] < Passed(Call(w))
    /\ got' = [got EXCEPT ![w] = @ + 1]
    /\ UNCHANGED <<doing, made, fine, tally, results, gateVars>>

\* callStream returns what it has read of an answer: no end of it is an error.
Ends(w) ==
    /\ Goes(w, "body", "counting")
    /\ fine' = [fine EXCEPT ![w] = TRUE]
    /\ UNCHANGED <<made, got, tally, results, gateVars>>

\* ... or has none.
Fails(w) ==
    /\ Goes(w, "waiting", "counting")
    /\ UNCHANGED <<made, got, fine, tally, results, gateVars>>

\* The line [DONE], after all others.
Whole(w) ==
    /\ Ends(w)
    /\ IF Call(w) \in hits THEN got[w] = replayed[Call(w)]
                           ELSE got[w] = MaxTokens /\ Passed(Call(w)) = Done

\* Mutation: the request is made without ctx, by a client without Timeout.
CutByGateway(w) == Call(w) \in gone /\ (Ends(w) \/ Fails(w))

\* Do or a read fails: ctx has ended, the client's 60 seconds have passed, or
\* the gateway has gone.
Cut(w) == Ends(w) \/ Fails(w)

Result(w) == [call |-> Call(w), ok |-> fine[w], tokens |-> got[w],
              hit |-> fine[w] /\ Call(w) \in hits]

\* The four Add calls; their sums are read when all workers have returned.
Counts(w) ==
    /\ Goes(w, "counting", "appending")
    /\ tally' = [requests |-> tally.requests + 1,
                 ok       |-> tally.ok + (IF fine[w] THEN 1 ELSE 0),
                 hits     |-> tally.hits + (IF Result(w).hit THEN 1 ELSE 0),
                 tokens   |-> tally.tokens + got[w]]
    /\ UNCHANGED <<made, got, fine, results, gateVars>>

Appends(w) ==
    /\ Goes(w, "appending", "idle")
    /\ results' = results \cup {Result(w)}
    /\ got' = [got EXCEPT ![w] = 0]
    /\ fine' = [fine EXCEPT ![w] = FALSE]
    /\ UNCHANGED <<made, tally, gateVars>>

\* wg.Done.
Leave(w) ==
    /\ over
    /\ Goes(w, "idle", "returned")
    /\ UNCHANGED <<made, got, fine, tally, results, gateVars>>

\* ctx ends.
Deadline ==
    /\ ~over
    /\ over' = TRUE
    /\ UNCHANGED report

\* Mutation: wg.Done comes before the result is appended.
CountedFor(w) == doing[w] \in {"appending", "returned"}

WaitedFor(w) == doing[w] = "returned"

\* wg.Wait, and the counters of the aggregate.
Report ==
    /\ report = <<>>
    /\ over
    /\ \A w \in Workers : WaitedFor(w)
    /\ report' = tally
    /\ UNCHANGED over

-----------------------------------------------------------------------------

\* The steps of a worker that wait for nobody but the clock.
Proceeds(w) == Counts(w) \/ Appends(w) \/ Leave(w) \/ (over /\ Cut(w))

WorkerStep(w) ==
    /\ \/ Post(w) \/ TurnedDown(w) \/ Headers(w) \/ Line(w) \/ Whole(w) \/ Cut(w)
       \/ Proceeds(w)
    /\ UNCHANGED <<mockVars, over, report>>

MainStep ==
    /\ Deadline \/ Report
    /\ UNCHANGED <<mockVars, doing, made, got, fine, tally, results, gateVars>>

BackendStep(c) == Handle(c) /\ UNCHANGED <<workVars, gateVars>>

Next ==
    \/ \E c \in Calls : Forward(c) \/ Replay(c) \/ HangUp(c) \/ BackendStep(c)
    \/ \E w \in Workers : WorkerStep(w)
    \/ MainStep

Spec == Init /\ [][Next]_vars

\* Goroutines that can run do, the clock goes on, and the gateway's timeouts
\* end what it has forwarded.  It owes its clients no answer.
Fairness ==
    /\ WF_vars(MainStep)
    /\ \A w \in Workers : WF_vars(WorkerStep(w) /\ Proceeds(w))
    /\ \A c \in Calls : WF_vars(BackendStep(c)) /\ WF_vars(HangUp(c))

FairSpec == Spec /\ Fairness

-----------------------------------------------------------------------------

TypeOK ==
    /\ MockTypeOK
    /\ over \in BOOLEAN
    /\ doing \in [Workers -> Doing]
    /\ made \in [Workers -> 0..MaxCalls]
    /\ got \in [Workers -> 0..MaxTokens]
    /\ fine \in [Workers -> BOOLEAN]
    /\ tally \in Tally
    /\ results \in SUBSET [call : Calls, ok : BOOLEAN, hit : BOOLEAN,
                           tokens : 0..MaxTokens]
    /\ report \in Tally \cup {<<>>}
    /\ posted \in SUBSET Calls
    /\ hits \in SUBSET Calls
    /\ replayed \in [Calls -> 0..MaxTokens]
    /\ stored \in SUBSET (1..MaxTokens)

\* Both halves of a report speak of the same calls: its rates come from the
\* atomics and its percentiles from the results, which workers write in steps
\* of their own; and no result comes after the report.
ReportAgrees ==
    report # <<>> =>
        report = [requests |-> Cardinality(results),
                  ok       |-> Cardinality({r \in results : r.ok}),
                  hits     |-> Cardinality({r \in results : r.hit}),
                  tokens   |-> MapThenSumSet(LAMBDA r : r.tokens, results)]

\* A run ends when its time is over, even if the gateway never answers.
RunReturns == <>(report # <<>>)

\* After the load is gone, with all its cancelled and late calls, the backend's
\* in_flight returns to zero, on whatever way its handlers came out.
MockDrains == <>[](inFlight = 0)
=============================================================================
