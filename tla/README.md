# Velo: a TLA+ verification project

Velo (`src/`) is a gateway in front of OpenAI-compatible inference servers. A
request passes authentication, a rate limiter and a semantic cache, is queued
and batched by a scheduler, and goes through a router, with retries, to one of
several health-checked backends; the answer is streamed back and cached. This
directory holds models of the parts whose correctness depends on concurrency,
failure or the order of events, and of the mock backend and load generator they
are measured with, the TLC runs that check them, and TLAPS proofs of the main
invariants for every value of the constants.

## 1. Inventory

| Component | Source | State | Operations | Talks to |
|---|---|---|---|---|
| Scheduler | `internal/scheduler/scheduler.go` | queue channel, current batch, worker semaphore, timer, `stopCh` | `Submit`, `runBatcher` with its flush and drain, `dispatchBatch` and its goroutines, `Stop` | called by the handler; calls `Router.Do`; answers by closing `Job.Done` |
| Router | `internal/router/router.go` | in-flight count per backend, `rrIdx` | `Do`, `pick`, `doOnce`, `countingBody.Close` | reads and writes backend health; calls backends |
| Backend health | `internal/router/backend.go`, `health.go` | failure counter, `healthy` flag, `BackendUp` gauge | `checkOne`, `recordHealth`, `markFailure`, `markSuccess` | written by the health loop and by requests |
| Gateway handler | `internal/gateway/handler.go`, `stream.go`, `server.go` | one goroutine per request | `chatHandler`, `dispatchDirect`, `streamProxy`, `serveCacheHit`, `ListenAndServe` | all of the above |
| Process | `cmd/velo/main.go` | starting, serving, shutting down | `buildCache` with its retries, wiring, signal, `Shutdown`, deferred `Stop` | all of the above |
| Rate limiter | `internal/ratelimit/*.go` | a token bucket per key in Redis and in each process | `Allow` of both limiters, the Lua script | called by the handler; Redis |
| Semantic cache | `internal/cache/cache.go`, `memory_store.go` | list of entries | `Lookup`, `Store`, `Nearest`, `Put` | called by the handler; embedder |
| Postgres store | `internal/cache/pgvector_store.go` | a table, which outlives the process | `NewPgvectorStore`, `Nearest`, `Put` through SQL | Postgres |
| Embedders | `internal/cache/embedder.go` | none | `Embed` | OpenAI |
| Authentication | `internal/gateway/auth.go` | none | `APIKeyAuth` | in front of the handler |
| Configuration | `internal/config/config.go` | none after the start | `Load` | read by the process |
| Metrics | `internal/metrics` | gauges and counters | registration | written by all |
| Mock backend | `cmd/mock-backend/main.go` | two atomics, a goroutine per call | `handleChat`, `streamResponse`, `nonStreamResponse` | called by the router |
| Load generator | `bench/cmd/load/main.go` | atomics, a list of results, workers | `runWorkload`, `callStream` | calls the gateway |
| Deployment | `deploy`, `Makefile` | | | |

What is hard, and what makes each part correct (every hazard is listed with its
line in `PROJECT.json`):

* **Scheduler.** A timer that may fire while it is being reset, a flush that
  blocks on the semaphore half way, a `Stop` in the middle of either, failing
  jobs. Correct if no accepted job is lost, doubled or overtaken, each is
  answered, load is shed only when the queue is full, a time window is never
  forgotten, and `Stop` leaves nothing behind.
* **Router.** `pick` reads health and load of the backends one after the other
  while probes and other requests change them; every error exit must undo the
  count. Correct if counts are exact, attempts go to different backends, nobody
  is refused while a backend is left to try, and `Do` returns.
* **Health.** Probes overlap, and requests write the counter that probes
  compare. Correct if the flag follows a backend's actual condition.
* **Handler and process.** The handler waits for a job or its client; the body
  it reads belongs to a context that another goroutine made; the process shuts
  down meanwhile, or starts while Postgres is away. Correct if bodies are closed,
  contexts outlive the reading, the cache keeps only proper answers, a clean
  exit cuts nobody off, and both start and shutdown end.
* **Limiter.** Clocks are read before the script runs; replies and buckets may
  be lost. Correct if a bucket grants no more than burst plus refill and
  refuses nobody early.
* **Cache.** Time stamps are taken before embedding, locking and the database;
  rows outlive the process; a prompt may embed to the zero vector. Correct if the
  list is bounded and keeps the newest entries, what is served is fresh and near
  enough, and the nearest match is found.
* **Mock backend and load generator.** A compare-and-swap loop that others
  overtake, calls that end in several ways, atomics and a list that are written
  apart and reported together. Correct if the maximum is the true peak, every
  call is counted out, the halves of a report agree, and a run ends.

## 2. Modules

| Module | What it is | Runs | Proofs |
|---|---|---|---|
| `SchedulerConfig` | the constants and assumptions the next two share | | |
| `FifoService` | abstract: a bounded first come, first served line with `Workers` slots | under `Gateway` | `FifoServiceProofs` |
| `Scheduler` | the scheduler; implements `FifoService` | `MCScheduler` | `SchedulerProofs` |
| `BackendHealth` | probes, requests and one health record per backend | itself | in `RouterProofs` |
| `Router` | EXTENDS `BackendHealth`: concurrent `Do` calls | `MCRouter` | `RouterProofs` |
| `Gateway` | handlers, jobs, process; the scheduler is an INSTANCE of `FifoService` | `MCGateway` | `GatewayProofs` |
| `RateLimiter` | one key's buckets in Redis and in memory | `MCRateLimiter` | `RateLimiterProofs` |
| `SemanticCache` | `Cache` over `MemoryStore` or `PgvectorStore`, across restarts | `MCSemanticCache` | `SemanticCacheProofs` |
| `HashingEmbedder` | the pure functions of the hashing embedder and `cosineDot` | in `MCSemanticCache` | in `SemanticCacheProofs` |
| `MockBackend` | concurrent `handleChat` calls on two atomics | under `LoadGenerator` | `LoadGeneratorProofs` |
| `LoadGenerator` | EXTENDS `MockBackend`: the workers, and the gateway as a relay | `MCLoadGenerator` | `LoadGeneratorProofs` |
| `FoldLemmas` | no model: what folds and sums of the community modules compute | | used by the last two proof modules |

`Gateway` composes the parts. It takes the scheduler from `FifoService` and not
from `Scheduler`: `SchedulerProofs!ImplementsLine` proves that every behaviour
of the latter is one of the former, so that what holds of handlers over the
line holds of handlers over the scheduler. In the other direction
`GatewayProofs!HandlersUseTheLine` proves that the handlers, jobs and process
only do to the line what it allows, so that its theorems are theirs. Router, limiter and cache appear in
it by what they may return.

Operators commented "Mutation:" are changes a plausible bug would make to the
definition that follows them. No specification uses them; each property is
shown to fail when the definition is replaced by its mutation.

### Scheduler

`queue`, `batch`, `running` (the semaphore) and `stop` are the code's own
variables. `flush` calls `dispatchBatch`, a loop that blocks on the semaphore:
`pending` is what is left of it, and the batcher does nothing else while it is
not empty (`Selecting`). Every `select` branch is an action: `Receive`,
`TimerFlush`, `StopSeen`; the drain loop after `Stop` is `DrainReceive` and
`DrainExit`; a job's goroutine is `Acquire`, `Finish` (it closes `Done`) and
`Release` (its deferred receive from the semaphore).

The timer is the `time.Timer` that a `go 1.22` module gets: a channel with a
buffer of one. The runtime takes an expired timer off its heap (`TimerExpire`)
and sends its tick later (`TimerSend`), so that `timer.Stop` may return false,
the drain find the channel empty, and the tick of the old window arrive in the
new one. That costs an early flush and nothing more, which `WakeupDue` and the
liveness properties confirm.

`Start` is part of `Init`. Metrics are left out.

### BackendHealth and Router

A probe takes the steps of `checkOne` and `recordHealth` that another goroutine
can come between: outcome, counter under the lock, comparison after it, load of
`healthy`, store, gauge. The failure counter saturates at the threshold, the
only value it is compared with. `New` sets the gauges after it starts the
health loop; the model takes that as done before a probe can report.

`LookAt` is one round of `pick`'s loop over the backends, `Choose` the choice
among the candidates (or the last resort) in one step, `Call` the increment,
`CallFails` every error exit of `doOnce` (transport, deadline, 5xx), `Blame`
`markFailure`, `Answer` the return of the body, `CloseBody` and `Praise` the
two steps of `countingBody.Close`. The loads that power of two choices compares
are read in one step: two loads and a comparison of counters that may be stale
at once anyway. `rrIdx` wraps at a common multiple of the numbers of candidates.
`Router.Close` is not modelled.

### Gateway

`point[r]` is where a handler is: `allow` (body, JSON, limiter), `lookup`,
`replay` (a hit), `submit`, `waiting` (the select on `job.Done` and the client),
`read`, `store`, `close` (the deferred one). `StartJob`, `DoSucceeds`,
`DoFails` and `JobReturns` are the goroutine of a job; `upstream[r]` is its
context, which ends by `Expire` (the timeout) or by `Cancel`: from
`cancelOnClose` under the scheduler, from `defer cancel()` in the goroutine
around `dispatchDirect`. `mode` is `cfg.Scheduler.Enabled`. An upstream answer
has `AnswerChunks` pieces of content or, as an error body, none. What is
buffered may still be read after the context ended, as in `net/http`.

`caching` is the store there is: none, memory, or Postgres (`opening`, then
`pgvector`). `Lookup` and `Store` over Postgres have no deadline of their own
(`AwaitsPostgres`): they may end, and need not.

A client may leave at any time: `Abandon` while the handler waits, `BodyBreaks`
while it streams. `Unauthorized` is the middleware in front.

`process` goes from `starting` (what `config.Load` made of its sources is
`Loaded`, `Fatal` its failure) over `CacheOpens` or up to `MaxOpens` times
`CacheFails`, the loop of `buildCache`, to `Serve`. A signal in that time
(`interrupted`) is only seen when the server runs and is then shut down at once,
since nothing but the attempts looks at the context. A connection accepted
before `Shutdown` may still bring a request (`Open`), for which it waits. `Signal`, `ShutdownDone`, `ShutdownTimeout`
(`log.Fatalf`) and `StopDone` are `ListenAndServe` and the end of `serveCmd`.

### RateLimiter

One key, callers in several replicas with fixed clock offsets. `Ask` reads the
clock, `Script` runs the Lua script with it later: scripts run in any order.
`ReplyLost` is a script that ran and whose reply was lost (go-redis may send it
again), `RedisFails` the fallback, `RedisForgets` expiry, eviction or a restart
of Redis. Tokens are counted in units (`Unit` per token, `Rate` per tick), which
stands for fractional tokens; float rounding is left out. Buckets carry history
that decides nothing: how often one was made and what callers were `granted`, the
oldest and newest clock used on it, how far its stamp has `slipped` back in all,
and an ideal bucket beside it that never forgets a refill: when it was last
`full`, and what was `drawn` since.

### SemanticCache and HashingEmbedder

A prompt stands for its embedding and `Similarity` for the dot product. `Lookup`
and `Embedded` are the two reads of the clock around the embedding, `Nearest`
the scan under the read lock with its fold over the list, `Store` sets
`CreatedAt`, `Put` appends, sorts (stably, newest first) and cuts under the
lock. `dropped`, `began` are history.

With `kind = "pgvector"` the entries are `rows`. `Query` may answer with
whatever the statement may select (`Selected`): a scan of the table finds the
nearest fresh row, the `ivfflat` index the nearest of the lists it looks into,
which may be any or none. A cosine distance to or from a zero vector is NaN:
such rows come last, and the comparison with the threshold does not reject them
(`NotBelow`). `Insert` is one row, `Fails` an error of embedder or database, and
`Restart` ends all calls and the memory, and leaves the rows.

`HashingEmbedder` gives the embedding of a sequence of words: only words of
ASCII letters and digits count (`tokenize`), each moves a bucket up or down
(`Counts`).
FNV is a constant function, vectors stay integers and are normalized in
`cosineDot`. `MCSemanticCache` assumes, and TLC evaluates, that the similarities
it uses are those of the embedder for a few prompts.

### MockBackend and LoadGenerator

`at[c]` is where a handler is; `Enter` is `inFlight.Add(1)`, `LoadMax` and `Swap`
the two halves of a turn of the loop, `FailsAtRandom` the simulated 500,
`Replies`, `Sends` and `Stops` are `streamResponse`, `Leaves` the deferred
`Add(-1)`. `ContextEnds` is `r.Context()` when the caller hangs up; nobody
looks at it before the first token. `nonStreamResponse` does the same to the
counters and is left out.

A worker's `Post` to `Appends` is one turn of the loop in `runWorkload`:
`TurnedDown`, `Headers`, `Line`, `Whole`, `Cut` are the ways through
`callStream`, which counts any answer with status 200 as `ok`, whole or not.
`Counts` is the four `Add` calls in one step, as their sums are read only after
`wg.Wait`; `Appends` is the append under the mutex. The gateway is a relay that
may turn down, `Replay`, `Forward` (even after its worker has gone) and `HangUp`.
`Spec => MockSpec` is proved, so that what holds of the mock backend alone holds
here.

## 3. Runs

| Run | Instance | Shows |
|---|---|---|
| `scheduler` | 5 jobs, batches of 2, queue 1, 1 worker | types, `ExactlyOnce`, `OutstandingBound`, `WakeupDue`, `DrainedAtExit`, refinement `ImplementsFifo`, liveness `AcceptedBeforeStopAnswered`, `StopReturns` |
| `health` | 1 backend, 3 overlapping probes, threshold 2 | `Recovers`, `GoesDown` under fairness |
| `router` | 2 requests, 2 backends, 3 attempts, 1 probe each | `InFlightExact`, `NeverTwice`, `GivesUpLate`, `GaugeAgrees`, `DoReturns` |
| `router_budget` | 1 request | **violated**: a retry after a timeout has no time left |
| `gateway` | 2 requests of adjacent kinds out of 3, both modes, line of 1+1, 1 worker, 2 chunks, 2 attempts at Postgres, which may hang | `OnlyAbandonedStayOpen`, `ScheduledReadsUntilDeadline`, `CleanExit`, `CacheSound`, `HandlersReturn`, `StartsAndEnds` |
| `gateway_partial` | the same | **violated**: a broken stream is cached |
| `gateway_direct` | the same | **violated**: direct dispatch cancels the body it returns |
| `limiter` | 2 replicas a tick apart, burst 2, half a token per tick, 1 fault | `RateKept`, `RefusedOnlyWhenSpent` |
| `limiter_order` | 1 replica, 2 callers, burst 1, no fault | **violated**: scripts out of order refill the same time twice |
| `cache` | 2 clients, 3 prompts (one blank), both stores, list of 2, 4 stores, 3 ticks, 1 restart | `KeepsMostRecent`, `ServedFresh`, `FindsNearest` |
| `cache_blank` | the same | **violated**: with Postgres, zero vectors pass the threshold |
| `bench` | 2 workers with 1 call each, 1 token | `MaxIsExact`, `ReportAgrees`, `RunReturns`, `MockDrains` |

Bounds, and why they are enough:

* **Scheduler**: five jobs fill one worker, one batch being dispatched and the
  queue, and leave one to be shed or to come after a flush; a batch of two can
  be flushed by size and by time, and its dispatch can block between its jobs.
  `MCScheduler` has jobs submitted in the order of their names: any behaviour
  is such a one with jobs renamed, and unlike a symmetry set that is sound for
  liveness. `StopReturns` is about finitely many submissions; the drain loop of
  the code goes on as long as somebody submits.
* **Health**: with three overlapping probes one can record an old success and
  one an old failure while a third reports; a threshold of two tells counting
  from comparing.
* **Router**: two requests compete for one backend's count and health; three
  attempts over two backends end in the last resort and in "none left". With
  a threshold of one, a single failed probe flips health. The failure counter, not
  the probes, is what requests share, so that one probe per backend suffices
  for the invariants; `GaugeAgrees` holds for non-overlapping probes only
  (`HealthTimeout` is below `HealthInterval` in the configuration).
  `MCRouter` has the second backend's probe begin nothing once the second request
  has started (`SecondSettled`), to keep the run small; `RouterProofs` proves the
  invariants of `Spec` without that restriction.
* **Gateway**: two requests fill slot and line, so that a submission can be
  shed and a job can wait while another's handler reads; two chunks make a
  part of an answer differ from none and from all; two attempts make the last
  differ from one before it. `MCGateway` takes kinds in one order, `{}`,
  `{stream}`, `{stream, no-store}`, and gives the two requests neighbours in it.
  A handler is led by its own kind and meets the other's in the cache only,
  where `no-store` has no part, so that other pairs add nothing. `no-store` is
  tried with the memory store only: such a request passes by whatever store there is.
* **Limiter**: a burst of two and two ticks per token make "not yet one token"
  and the clamp at the burst happen; `MaxTime`, `MaxCalls` and `MaxFaults` are
  bounds of the model.
* **Cache**: four stores into a list of two drop twice, in any order of
  creation; `TTL` of one within three ticks lets an entry expire between the
  start of a call and its scan. One of the prompts is near another and one is
  blank, which is what stores tell apart. `MaxTime`, `MaxStores` and
  `MaxRestarts` are bounds of the model.
* **Bench**: two calls are what the compare-and-swap loop and the two halves of
  a report need to interleave; one token makes an answer cut short (after the
  role chunk) differ from a whole one. `MaxCalls` is a bound of the model: a
  worker that has used it idles until its time is over.

`CHECK_DEADLOCK FALSE` is set where the program may stop: all jobs answered and
the batcher returned, the process exited, or the bounds of the model reached.

Fairness, and what justifies it:

* `Scheduler`: weak fairness of goroutines that can run and of the runtime's
  timers; strong fairness of the three `select` branches, since Go chooses at
  random among ready ones; jobs finish because `Do`'s context has a deadline
  (`DoReturns` shows that `Do` ends then). Nobody has to submit or stop.
* `BackendHealth`: the ticker ticks, `HealthTimeout` ends each probe.
* `Router`: the context expires, a call under an ended context fails. No
  backend has to answer.
* `Gateway`: handlers and goroutines that can run do, `RequestTimeout` passes,
  `Do` and a read end after their context has. No client has to leave or to
  send anything, no backend to answer.
  `MainProceeds`: attempts to reach Postgres end by their own timeout and `main`
  goes on. Postgres owes nobody an answer: no fairness is assumed of a handler
  while it waits for a query there, which has no deadline.
* `LoadGenerator`: workers and handlers that can run do, the run's time passes,
  a call fails once it has, and the gateway's `RequestTimeout` hangs up what it
  forwarded. The gateway owes its clients no answer.
* `RateLimiter` and `SemanticCache` assume none.

## 4. What the failing runs say

Five statements of the repository are not what the code does:

1. `router.go:10`: a request is said to be retried after a timeout; all
   attempts share one deadline, so that such a retry fails unsent and blames a
   backend that was not called.
2. `handler.go:145`: a stream is said to be cached after it succeeded; what
   came of a broken one is cached as well and later replayed as finished.
3. `handler.go:204`: `dispatchDirect` is said to mirror the scheduler; it
   cancels the context under the body it returned.
4. `limiter.go:10`: a bucket is said to refill at its rate; the script lets the
   time stamp go back, and the time between is refilled again.
5. `cache.go:4`: a stored completion is said to be returned if the match is above
   the threshold. To or from the zero vector, which a request without messages
   embeds to, the similarity in Postgres is NaN, and `sim < threshold` does not
   reject it: any fresh row may be served. The memory store keeps to it.

Two more have no run of their own:

* `embedder.go:27`: similarity is said to approximate the overlap of prompts; of
  prompts in another alphabet only the role is hashed, so that all of them are one
  to the cache. `ForeignAssumption` of `MCSemanticCache`, which TLC evaluates, is
  an example.
* `health.go:11`: a backend is said to go down after `FailureThreshold` failed
  checks in a row. Requests write the same counter, which `backend.go:23` says
  counts checks: one that succeeds between two probes clears it, and a backend
  that fails every check and serves requests never goes down. This is why
  `GoesDown` asks that no request succeeds either.

Two properties that hold also record limits that no comment contradicts.
`OnlyAbandonedStayOpen`: the body of a job whose client left before the answer is
closed by nobody (`InFlightExact` counts it as served until then).
`HandlersReturn`: a handler that waits for Postgres may wait for ever, and keeps
a body open meanwhile.

## 5. Proofs

Assumptions are the named `ASSUME`s of the modules: finite sets of jobs and
requests, positive capacities (`New` replaces others), any integer for
`RetryAttempts`.

* **`FifoServiceProofs`**: types, `ExactlyOnce`, `Capacities` (the line's and the
  slots') and from them `OutstandingBound`. The last is a fact about
  cardinalities (`RangeCardinality`, `UnionBound`) that needs the line's length,
  which is why `Capacities` is the invariant that is carried.
* **`SchedulerProofs`**: `IInv` is `Types`, `Shape` (lengths of queue, batch and
  pending, and which of them may be non-empty at each place of the batcher) and
  `WakeupDue`. `WakeupDue` is inductive on its own types: a batch that becomes
  non-empty restarts the timer, and no step takes the last of timer, expiry and
  tick away without flushing. `Shape` is needed for the drain
  (`ShutdownDrains`) and for the refinement. `ImplementsLine` maps `backlog` to
  `pending \o batch \o queue`: submitting appends at its end, `Acquire` takes
  its head, and every other step of the batcher moves a job between the parts
  without changing the whole (`MovesKeepWaiting`), hence a stutter.
  `JobsExactlyOnce` and `OutstandingBounded` then follow from the abstract
  theorems without another induction.
* **`RouterProofs`**: `IInv` joins the types, `Bookkeeping` (a request that acts
  on a backend has one, has an attempt left while it looks for another, and
  considers none it has called) and the three properties. `NeverTwice` needs
  `candidates \cap tried = {}`, which is true though health flips during
  `pick`; `GivesUpLate` needs that a non-empty set of backends has a first
  (`FirstExists`, by well-founded minimality); `InFlightExact` adds or removes
  one request of `Served(b)` per step. All hold for any number of backends,
  requests, probes and attempts and for both strategies.
  `HealthGaugeIsRight` is an induction over `BackendHealth` alone, with
  `GaugeFollows` (a probe that stored `healthy` and has not yet set the gauge
  stored what the flag still is; with no such probe the two agree), and assumes
  one probe of a backend at a time. It
  lets requests write the counter in any way, so that it carries over:
  `RouterKeepsHealth` proves `Spec => HealthSpec`, as `Blame` and `Praise` are
  always about a backend, and `GaugeIsRight` follows from the two.
* **`GatewayProofs`**: `IInv` says what a handler's place means (`Life`: its
  job's status, its outcome, and whether its body is closed), that a scheduled
  context is cancelled only after failure or close (`Held`), that a cached entry
  comes from a handler that changes no more (`Settled`), and that the process
  stops only when no handler is active (`Quiet`). `BodiesAreClosed`,
  `ScheduledBodiesLive`, `CacheIsSound` and `ExitIsClean` are parts or
  consequences. `Settled` is needed because `CacheSound` speaks of outcomes that
  a later step could change; `LineStep` is what the line does to the types.
  `HandlersUseTheLine` is a refinement: with the scheduler on, a submission is
  `Accept` or `Reject`, the end of `Do` a `Finish`, the return of a job a
  `Release`, and every other step a stutter of the line. What `FifoServiceProofs`
  proves of a line then holds of the gateway without another induction: no
  request's job runs twice or is lost (`RequestsRunOnce`), and no more are
  outstanding than queue and workers hold (`JobsBounded`).
* **`RateLimiterProofs`**: a bucket is `Sound` between calls if it holds at least
  what the ideal one beside it has left (`Covered`), and what it holds plus what it
  granted is at most its fills and the refill up to its time stamp, with what that
  has slipped (`Earned`): the potential that `RateKept` alone does not carry.
  `RefillLemma` compares one refill with the ideal one, `EarnedLemma` with the time
  that has passed, and `ChargeLemma` joins them: a call keeps both, whatever is
  lost and in whatever order clocks come, and one that is refused met a bucket with
  less than a token in the ideal as well. `ForgetLemma` does the same for losing a
  bucket. Memory buckets never slip since their clock is read under the mutex
  (`InOrder`). So `RateHolds` leaves Redis exactly the excess that run
  `limiter_order` shows, and `RefusalsEarned` leaves none for early refusals. The
  products are nonlinear: what is needed of them is `TimesLemma`.
* **`SemanticCacheProofs`**: `IInv`, for both stores and across restarts, is the
  types, `Recent` (the list is bounded, holds nothing older than what was
  dropped, and is full once something was) and, for each caller, `Calling`, `FreshAnswer` and `NearAnswer`.
  `TypeCorrect`, `ServesFresh`, `ServesNear`, `MostRecentAreKept` and
  `ListBounded` are its parts or follow from them. `ServesNear` is what is left of
  the refuted `ServedAlike`: NaN is the only way past the threshold.
  - *The list.* `Place` numbers a list's entries without gap or repetition
    (`PlaceInjective`, `PlaceOnto`, by counting), so that the sort is a
    permutation and trimming drops exactly the entry in the last place
    (`TrimDropsLast`). `PutKeepsRecent` is then `KeepsMostRecent` of one `Put`,
    whether the entry that goes is an old one or the new one.
  - *The scan.* `Nearest` is a fold over the list. `ScanExists` shows that the
    fold is a recursion on the largest position left, `ScanFinds`, by induction on
    the positions passed, that what it holds is a match nearest so far or, if
    there is none, nothing. `ScanFindsNearest` is the action property about every
    lookup in the memory store: with the answer typed, fresh and near enough,
    that is all a scan promises.
  - *Time.* `freshUntil` is computed before the lock or the database is reached,
    and the clock goes on. `Calling` carries that it is at most a TTL before the
    call began, which is what makes `ServedFresh` speak of the beginning and not
    of the end of a call.
  - *The embedder.* `RootExists` and `CosineType` show that `cosineDot` of integer
    vectors of any dimension lies in -100..100, is symmetric, and is positive only
    if both vectors are non-zero in a common place. Hence `EmbedderFits`: the
    assumption that `SemanticCache` makes of `Similarity` holds of the embedder's.
    `HitsShareABucket` is what can be said of words:
    for every hash function and dimension, an answer that is served was given to a
    prompt with a token in the bucket of one of this prompt's tokens, unless
    Postgres compared zero vectors. Its assumption that `Similarity` is the
    table of `cosineDot` over the prompts' tokens is how the embedder is wired in.
* **`LoadGeneratorProofs`**: `MaxIsExact` is inductive with the types and the fact
  that a handler swaps only a maximum smaller than its count (`Local`). It is
  proved of `MockSpec`, and every step of `LoadGenerator` is one of the mock
  backend's or leaves it alone (`LoadUsesMock`), so that it holds there.
  `LoadInv` adds what the two halves of a report have to do with each other.
  `Tallied`: the atomics are the sums over the results in the list *and* those of
  the workers between their `Add`s and their `append` (`All`). `Numbered`: a
  worker's call has no result in the list yet, so that a result counts once.
  `Untouched` and `Answered`: what a worker has read of a call does not change
  between the two writes. `Reported`: the report is written when every worker
  has returned, hence none is between them. `ReportIsOfItsResults` then needs no step of its own.
  `LoadTypeCorrect` takes the type of the atomics from `Tallied` (`SumsType`).
* **`FoldLemmas`**: a fold of the community modules is defined by choosing a
  recursive function over all subsets of a finite set, and the library's
  induction and recursion theorems take an operator as a parameter, which the
  provers cannot instantiate. `FoldExists` shows that the function exists for
  any way of choosing the next element, by induction on the size of subsets
  spelt out with least elements (`AllNaturals`); `AddsAnyOrder` and `AddsAgree`
  that a sum does not depend on the order, which gives a sum over a set with one
  more element.

Every invariant and every action property of a passing run is stated by a theorem.
Out of the provers' reach, and checked by TLC only:

* liveness under fairness: `AcceptedBeforeStopAnswered`, `StopReturns`, `Recovers`,
  `GoesDown`, `DoReturns`, `HandlersReturn`, `StartsAndEnds`, `RunReturns`,
  `MockDrains`;
* `ENABLED`, and with it the absence of deadlock;
* that `tokenize` yields a sequence of tokens: it is a `SelectSeq`, whose
  definition tlapm does not expand. `HitsShareABucket` therefore starts from
  tokens and not from words.

No module uses a `RECURSIVE` operator.

## 6. Not modelled

* The OpenAI embedder beyond its failure: what it answers is not in this code.
* FNV, floating point and rounding: hashing is a constant, refill and
  similarity are integers.
* Postgres inside: `NewPgvectorStore` is one step that may fail. In particular
  `CREATE TABLE IF NOT EXISTS` keeps a table of another dimension, after which
  every insert fails; that is a `Fails` of each call here.
* Defaults, YAML and environment variables: sequential, before anything runs.
* `nonStreamResponse`, `/health` and `/metrics` of the mock backend, the choice of
  prompts, the percentiles and the rendering of the load generator.
* Metrics other than `BackendUp`, the metrics listener, `Router.Close`, logging,
  deployment. Status codes, headers and wording of answers are left out.
* Overlapping probes of one backend where the gauge is concerned.

## 7. Plan

Done: all modules of the table above, with the proofs listed. What would add
most next:

1. `Router` under `Gateway` in place of free answers, with the in-flight count of
   a body that nobody closes (`GatewayProofs` has which those are, `RouterProofs`
   that each is counted once).
2. An abstract two-state health that `BackendHealth` refines while no request
   writes the counter, and a bound on the probes until the flag follows.
3. Overlapping probes and the gauge: what is still true of it once all have
   reported.
4. `RateLimiter` as a refinement of an abstract bucket for calls in order.
