---------------------------- MODULE RateLimiter ----------------------------
(***************************************************************************)
(* internal/ratelimit: the token bucket of one API key, kept in Redis for  *)
(* all gateway replicas by a Lua script, and the bucket each replica keeps *)
(* in its memory for when Redis fails or was unreachable when it started.  *)
(*                                                                         *)
(* A caller of RedisLimiter.Allow reads its replica's clock first and has  *)
(* the script run with that time later, so that scripts may run in another *)
(* order than their clocks were read.  The client library may lose a reply *)
(* and run the script again, or give up, and Redis may lose the bucket.    *)
(* MemoryLimiter reads the clock under its mutex: one step.                *)
(*                                                                         *)
(* A clock tick refills Rate units and a token costs Unit units, which     *)
(* stands for any refill rate; float rounding is left out.                 *)
(***************************************************************************)
EXTENDS Integers, FiniteSets

CONSTANTS
    Callers,     \* concurrent calls of Allow for the one key
    Replicas,    \* gateway processes
    Home,        \* the replica each caller runs in
    Offset,      \* how far each replica's clock is ahead
    Burst,       \* Config.Burst
    Rate, Unit,  \* Config.RPS, in units per tick and units per token
    MaxTime,     \* bound of the model: the last tick
    MaxCalls,    \* bound of the model: calls of Allow
    MaxFaults    \* bound of the model: replies and buckets that Redis loses

ASSUME HomeAssumption == Home \in [Callers -> Replicas]
ASSUME OffsetAssumption == Offset \in [Replicas -> Nat]

\* effective() replaces non-positive settings by positive ones.
ASSUME KnobsAssumption == /\ Burst \in Nat \ {0}
                          /\ Rate \in Nat \ {0}
                          /\ Unit \in Nat \ {0}
ASSUME BoundsAssumption == /\ MaxTime \in Nat
                           /\ MaxCalls \in Nat
                           /\ MaxFaults \in Nat

VARIABLES
    now,      \* the time, which Replicas read through Offset
    primary,  \* the limiter main.go gave each replica: "redis" or "memory"
    point,    \* where each caller is in Allow
    asked,    \* the clock it read for the script
    answer,   \* what Allow returned last: "none", "yes", "no", "no, locally"
    remote,   \* the bucket in Redis
    local,    \* the bucket in each replica's memory
    calls, faults   \* counters for the bounds

vars == <<now, primary, point, asked, answer, remote, local, calls, faults>>

Capacity == Burst * Unit

\* A bucket: whether it exists, its tokens and time stamp; and its history:
\* how often it was made, how many tokens callers were granted, the oldest and
\* newest clock used on it, and how far its time stamp went back in all; when a
\* bucket charged like it was last full, and the tokens it was charged since.
Bucket == [live : BOOLEAN, tokens : 0..Capacity, last : Nat,
           made : Nat, granted : Nat, oldest : Nat, newest : Nat, slipped : Nat,
           full : Nat, drawn : Nat]

NoBucket == [live |-> FALSE, tokens |-> 0, last |-> 0,
             made |-> 0, granted |-> 0, oldest |-> 0, newest |-> 0, slipped |-> 0,
             full |-> 0, drawn |-> 0]

Init ==
    /\ now = 0
    /\ primary \in [Replicas -> {"redis", "memory"}]
    /\ point = [c \in Callers |-> "idle"]
    /\ asked = [c \in Callers |-> 0]
    /\ answer = [c \in Callers |-> "none"]
    /\ remote = NoBucket
    /\ local = [g \in Replicas |-> NoBucket]
    /\ calls = 0 /\ faults = 0

Smaller(m, n) == IF m <= n THEN m ELSE n

-----------------------------------------------------------------------------
(* The bucket's arithmetic, the same in Lua and in Go.                     *)

\* Mutation: the bucket runs over.
RefillUnclamped(b, t) ==
    b.tokens + (IF t > b.last THEN (t - b.last) * Rate ELSE 0)

Refill(b, t) ==
    Smaller(Capacity, b.tokens + (IF t > b.last THEN (t - b.last) * Rate ELSE 0))

\* A bucket that does not exist is made full.
Open(b, t) ==
    IF b.live THEN b
    ELSE [b EXCEPT !.live = TRUE, !.tokens = Capacity, !.last = t,
                   !.made = @ + 1,
                   !.oldest = IF b.made = 0 THEN t ELSE @,
                   !.newest = IF b.made = 0 THEN t ELSE @,
                   !.full = t, !.drawn = 0]

\* Mutation: the last token is never given out.
EnoughForTwo(n) == n > Unit

Enough(n) == n >= Unit

\* Mutation: a refused call leaves the time stamp as it was.
StampIfAllowed(b, n, t) == IF Enough(n) THEN t ELSE b.last

\* The time stamp becomes the caller's time, be it older than the last one.
Stamp(b, n, t) == t

\* By time t what was drawn since the bucket was last full is refilled.
FullAgain(b, t) == Rate * (t - b.full) >= b.drawn * Unit

\* One call at time t, whose result reaches the caller or not.
Charge(b, t, seen) ==
    LET o == Open(b, t)
        n == Refill(o, t)
        k == IF Enough(n) THEN 1 ELSE 0
    IN  [o EXCEPT !.tokens = n - k * Unit,
                  !.last = Stamp(o, n, t),
                  !.granted = IF seen THEN @ + k ELSE @,
                  !.oldest = Smaller(@, t),
                  !.newest = IF t > @ THEN t ELSE @,
                  !.slipped = IF t < b.last THEN @ + (b.last - t) ELSE @,
                  !.full = IF FullAgain(o, t) THEN t ELSE @,
                  !.drawn = IF FullAgain(o, t) THEN k ELSE @ + k]

Grants(b, t) == Enough(Refill(Open(b, t), t))

-----------------------------------------------------------------------------

Clock(c) == now + Offset[Home[c]]

Tick ==
    /\ now < MaxTime
    /\ now' = now + 1
    /\ UNCHANGED <<primary, point, asked, answer, remote, local, calls, faults>>

\* RedisLimiter.Allow reads the clock; MemoryLimiter.Allow is all in Locally.
Ask(c) ==
    /\ point[c] = "idle"
    /\ calls < MaxCalls
    /\ calls' = calls + 1
    /\ point' = [point EXCEPT ![c] = IF primary[Home[c]] = "redis"
                                     THEN "asked" ELSE "local"]
    /\ asked' = [asked EXCEPT ![c] = IF primary[Home[c]] = "redis" THEN Clock(c) ELSE @]
    /\ UNCHANGED <<now, primary, answer, remote, local, faults>>

Returns(c) ==
    /\ point' = [point EXCEPT ![c] = "idle"]
    /\ asked' = [asked EXCEPT ![c] = 0]

\* The script runs and Allow returns its verdict.
Script(c) ==
    /\ point[c] = "asked"
    /\ remote' = Charge(remote, asked[c], TRUE)
    /\ answer' = [answer EXCEPT ![c] = IF Grants(remote, asked[c]) THEN "yes" ELSE "no"]
    /\ Returns(c)
    /\ UNCHANGED <<now, primary, local, calls, faults>>

\* The script runs and its reply is lost; the client library may run it again.
ReplyLost(c) ==
    /\ point[c] = "asked"
    /\ faults < MaxFaults
    /\ faults' = faults + 1
    /\ remote' = Charge(remote, asked[c], FALSE)
    /\ UNCHANGED <<now, primary, point, asked, answer, local, calls>>

\* The client library gives up: Allow turns to the fallback.
RedisFails(c) ==
    /\ point[c] = "asked"
    /\ point' = [point EXCEPT ![c] = "local"]
    /\ asked' = [asked EXCEPT ![c] = 0]
    /\ UNCHANGED <<now, primary, answer, remote, local, calls, faults>>

\* MemoryLimiter.Allow, as the replica's limiter or as the fallback.
Locally(c) ==
    /\ point[c] = "local"
    /\ local' = [local EXCEPT ![Home[c]] = Charge(@, Clock(c), TRUE)]
    /\ answer' = [answer EXCEPT ![c] = IF Grants(local[Home[c]], Clock(c))
                                       THEN "yes" ELSE "no, locally"]
    /\ Returns(c)
    /\ UNCHANGED <<now, primary, remote, calls, faults>>

\* Redis forgets the bucket: it expired, was evicted, or Redis restarted.
RedisForgets ==
    /\ remote.live
    /\ faults < MaxFaults
    /\ faults' = faults + 1
    /\ remote' = [remote EXCEPT !.live = FALSE]
    /\ UNCHANGED <<now, primary, point, asked, answer, local, calls>>

Next ==
    \/ Tick
    \/ RedisForgets
    \/ \E c \in Callers : Ask(c) \/ Script(c) \/ ReplyLost(c) \/ RedisFails(c)
                                 \/ Locally(c)

Spec == Init /\ [][Next]_vars

-----------------------------------------------------------------------------

TypeOK ==
    /\ now \in 0..MaxTime
    /\ primary \in [Replicas -> {"redis", "memory"}]
    /\ point \in [Callers -> {"idle", "asked", "local"}]
    /\ asked \in [Callers -> Nat]
    /\ answer \in [Callers -> {"none", "yes", "no", "no, locally"}]
    /\ remote \in Bucket
    /\ local \in [Replicas -> Bucket]
    /\ calls \in 0..MaxCalls
    /\ faults \in 0..MaxFaults

\* "a bucket has capacity B and refills at R tokens/sec": what callers were
\* granted fits a full bucket, each time it was made, and the refill of the
\* time that has passed on the clocks it has seen.
WithinRate(b, time) == b.granted * Unit <= b.made * Capacity + Rate * time

Passed(b) == b.newest - b.oldest

\* Over refusals, refills, lost replies and new buckets, in Redis a key is
\* granted more than its rate only for the time by which older clocks have set
\* the time stamp back, and in memory, where the clock is read under the mutex,
\* that never happens.
RateKept ==
    /\ WithinRate(remote, Passed(remote) + remote.slipped)
    /\ \A g \in Replicas : /\ WithinRate(local[g], Passed(local[g]))
                          /\ local[g].slipped = 0

\* The rate itself for the bucket in Redis, in whatever order scripts run.
RemoteRate == WithinRate(remote, Passed(remote))

\* Since it was last full the bucket was charged so much that, with what was
\* refilled until time t, less than a token is left.
Spent(b, t) == b.live /\ Capacity + Rate * (t - b.full) - b.drawn * Unit < Unit

\* A refusal was met by a spent bucket, in Redis or in memory.
RefusesWhenSpent(c) ==
    point'[c] = "idle" =>
        /\ point[c] = "asked" /\ answer'[c] = "no" => Spent(remote, asked[c])
        /\ point[c] = "local" /\ answer'[c] = "no, locally" =>
               Spent(local[Home[c]], Clock(c))

\* Nobody is refused early: not a moment after a token is back, neither by lost
\* replies nor by clocks that run behind the time stamp, and not because Redis
\* failed ("We never fail-closed on Redis errors").
RefusedOnlyWhenSpent == [][\A c \in Callers : RefusesWhenSpent(c)]_vars
=============================================================================
