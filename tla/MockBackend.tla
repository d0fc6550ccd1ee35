---------------------------- MODULE MockBackend ----------------------------
(***************************************************************************)
(* cmd/mock-backend/main.go: concurrent handleChat goroutines that count   *)
(* themselves in, raise the recorded maximum by a compare-and-swap loop,   *)
(* answer with an error or a stream of tokens, and count themselves out.   *)
(* A request that does not stream is left out: its handler does the same   *)
(* to the counters, only it sleeps on when its client has gone.            *)
(***************************************************************************)
EXTENDS Integers, FiniteSets

CONSTANTS
    Calls,       \* the requests it gets, which ask for a stream
    MaxTokens    \* the tokens they ask for, or *defaultTokens

ASSUME CallsAssumption == IsFiniteSet(Calls)
ASSUME TokensAssumption == MaxTokens \in Nat

VARIABLES
    inFlight, maxInFlight,   \* the two atomics
    at,     \* where each handler is
    cur,    \* its cur, 0 before it has one
    seen,   \* its m, between Load and CompareAndSwap
    sent,   \* tokens that went out: -1 before the status did, 0 with the role
            \* chunk, and Done with the final chunk and [DONE]
    gone    \* calls whose r.Context() has ended

mockVars == <<inFlight, maxInFlight, at, cur, seen, sent, gone>>

At == {"new", "load", "swap", "reply", "stream", "leave", "done"}

Done == MaxTokens + 1

MockInit ==
    /\ inFlight = 0
    /\ maxInFlight = 0
    /\ at = [c \in Calls |-> "new"]
    /\ cur = [c \in Calls |-> 0]
    /\ seen = [c \in Calls |-> 0]
    /\ sent = [c \in Calls |-> -1]
    /\ gone = {}

Moves(c, from, to) == at[c] = from /\ at' = [at EXCEPT ![c] = to]

Enter(c) ==
    /\ Moves(c, "new", "load")
    /\ inFlight' = inFlight + 1
    /\ cur' = [cur EXCEPT ![c] = inFlight + 1]
    /\ UNCHANGED <<maxInFlight, seen, sent, gone>>

\* The loop is left if the maximum is no smaller ...
LoadMax(c) ==
    /\ Moves(c, "load", IF cur[c] <= maxInFlight THEN "reply" ELSE "swap")
    /\ seen' = [seen EXCEPT ![c] = IF cur[c] <= maxInFlight THEN @ ELSE maxInFlight]
    /\ UNCHANGED <<inFlight, maxInFlight, cur, sent, gone>>

\* Mutation: a plain Store.
BlindSwap(c) ==
    /\ Moves(c, "swap", "reply")
    /\ maxInFlight' = cur[c]
    /\ seen' = [seen EXCEPT ![c] = 0]
    /\ UNCHANGED <<inFlight, cur, sent, gone>>

\* ... or has not changed since and is raised; else it turns.
Swap(c) ==
    /\ Moves(c, "swap", IF maxInFlight = seen[c] THEN "reply" ELSE "load")
    /\ maxInFlight' = IF maxInFlight = seen[c] THEN cur[c] ELSE maxInFlight
    /\ seen' = [seen EXCEPT ![c] = 0]
    /\ UNCHANGED <<inFlight, cur, sent, gone>>

\* The simulated 500.  The answer is written by the return.
FailsAtRandom(c) ==
    /\ Moves(c, "reply", "leave")
    /\ UNCHANGED <<inFlight, maxInFlight, cur, seen, sent, gone>>

\* streamResponse writes the status and the role chunk.
Replies(c) ==
    /\ Moves(c, "reply", "stream")
    /\ sent' = [sent EXCEPT ![c] = IF c \in gone THEN @ ELSE 0]
    /\ UNCHANGED <<inFlight, maxInFlight, cur, seen, gone>>

\* Mutation: the loop over the tokens turns once too often.
SendsOneMore(c) ==
    /\ c \notin gone
    /\ Moves(c, "stream", IF sent[c] = Done THEN "leave" ELSE "stream")
    /\ sent' = [sent EXCEPT ![c] = @ + 1]
    /\ UNCHANGED <<inFlight, maxInFlight, cur, seen, gone>>

\* One more token, or what follows the last one.
Sends(c) ==
    /\ c \notin gone
    /\ Moves(c, "stream", IF sent[c] = MaxTokens THEN "leave" ELSE "stream")
    /\ sent' = [sent EXCEPT ![c] = @ + 1]
    /\ UNCHANGED <<inFlight, maxInFlight, cur, seen, gone>>

\* The select before a token finds ctx.Done(), perhaps after some more rounds,
\* or the last one is over; what is written by then goes nowhere.
Stops(c) ==
    /\ c \in gone
    /\ Moves(c, "stream", "leave")
    /\ UNCHANGED <<inFlight, maxInFlight, cur, seen, sent, gone>>

\* Mutation: a call that failed is not counted out.
LeavesAfterAnswer(c) ==
    /\ Moves(c, "leave", "done")
    /\ inFlight' = IF sent[c] >= 0 THEN inFlight - 1 ELSE inFlight
    /\ UNCHANGED <<maxInFlight, cur, seen, sent, gone>>

\* The deferred Add(-1), on every way out.
Leaves(c) ==
    /\ Moves(c, "leave", "done")
    /\ inFlight' = inFlight - 1
    /\ UNCHANGED <<maxInFlight, cur, seen, sent, gone>>

\* The one who called has hung up.
ContextEnds(c) ==
    /\ at[c] # "new"
    /\ gone' = gone \cup {c}
    /\ UNCHANGED <<inFlight, maxInFlight, at, cur, seen, sent>>

\* The steps of a handler, which wait for nobody.
Handle(c) ==
    \/ LoadMax(c) \/ Swap(c) \/ FailsAtRandom(c) \/ Replies(c) \/ Sends(c)
     \/ Stops(c) \/ Leaves(c)

MockNext == \E c \in Calls : Enter(c) \/ Handle(c) \/ ContextEnds(c)

MockSpec == MockInit /\ [][MockNext]_mockVars

-----------------------------------------------------------------------------

Inside == {c \in Calls : at[c] \notin {"new", "done"}}

MockTypeOK ==
    /\ inFlight \in Int
    /\ maxInFlight \in Int
    /\ at \in [Calls -> At]
    /\ cur \in [Calls -> Int]
    /\ seen \in [Calls -> Int]
    /\ sent \in [Calls -> -1..Done]
    /\ gone \in SUBSET Calls

\* The handlers that have left the compare-and-swap loop.
Counted == {c \in Calls : at[c] \notin {"new", "load", "swap"}}

\* The recorded maximum, by which /metrics scales the utilization, is the peak
\* of in-flight calls over all handlers past the loop: no interleaving of
\* handleChat's loops loses a higher count or records one that never was.
MaxIsExact ==
    /\ \A c \in Counted : cur[c] <= maxInFlight
    /\ maxInFlight = 0 \/ \E c \in Counted : cur[c] = maxInFlight

\* in_flight of /health is the number of calls being handled.
InFlightExact == inFlight = Cardinality(Inside)
=============================================================================
