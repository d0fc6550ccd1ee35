------------------------------ MODULE Gateway ------------------------------
(***************************************************************************)
(* internal/gateway/handler.go and stream.go with cmd/velo/main.go around  *)
(* them: concurrent chatHandler goroutines that ask the limiter and the    *)
(* cache, hand a job to the scheduler, wait for its Done or for their      *)
(* client to leave, copy the upstream body, store it and close it; and the *)
(* process under them, from its start, which waits a while for Postgres,   *)
(* to its shutdown.                                                        *)
(*                                                                         *)
(* The scheduler is the line of FifoService, which module Scheduler is     *)
(* proved to implement.  The limiter and the cache decide freely here      *)
(* (RateLimiter and SemanticCache model them); what the cache may answer   *)
(* is what handlers have stored in it.  An upstream answer is a number of  *)
(* chunks, a prompt is taken to match every stored one.                    *)
(***************************************************************************)
EXTENDS Integers, Sequences, FiniteSets, Functions

CONSTANTS
    Requests,       \* the requests that clients send
    Kinds,          \* the kinds they may be of
    MaxBatchSize, QueueCapacity, Workers,   \* the scheduler's settings
    AnswerChunks,   \* chunks of content in a full upstream answer
    MaxOpens        \* how often buildCache tries to open the store: 10

ASSUME RequestsAssumption == IsFiniteSet(Requests)
ASSUME KnobsAssumption == /\ MaxBatchSize \in Nat \ {0}
                          /\ QueueCapacity \in Nat \ {0}
                          /\ Workers \in Nat \ {0}
\* A request may stream, and may forbid the cache by Cache-Control: no-store.
ASSUME KindsAssumption == Kinds \subseteq SUBSET {"stream", "no-store"}

ASSUME ChunksAssumption == AnswerChunks \in Nat \ {0}
ASSUME OpensAssumption == MaxOpens \in Nat \ {0}

VARIABLES
    backlog, running, status,   \* the scheduler: see FifoService.  Under direct
                                \* dispatch running holds dispatchDirect goroutines
    mode,      \* cfg.Scheduler.Enabled: "scheduler" or "direct"
    caching,   \* the cache: "off", over the "memory" store, or over "pgvector",
               \* "opening" until that is connected
    opens,     \* buildCache's failed attempts
    ask,       \* what each request says: one of Kinds
    point,     \* where each handler is
    outcome,   \* how each handler ended
    upstream,  \* the context each job's Do runs under
    size,      \* chunks in the upstream answer; an error body has none
    got,       \* chunks read from the body, or replayed from the cache
    closed,    \* bodies that were closed
    cached,    \* entries stored in the cache
    process    \* the velo process

lineVars == <<backlog, running, status>>
handVars == <<ask, outcome, size, got, closed>>
procVars == <<mode, caching, opens, process>>
vars     == <<lineVars, handVars, point, upstream, cached, procVars>>

Line == INSTANCE FifoService WITH Jobs <- Requests

Point == {"new", "allow", "lookup", "replay", "submit", "waiting",
          "read", "store", "close", "done"}

Outcome == {"none", "refused", "hit", "busy", "left", "failed", "answered"}

Entry == [by : Requests, chunks : 1..AnswerChunks]

\* What config.Load makes of its defaults, the file and the environment.
Loaded ==
    /\ mode \in {"scheduler", "direct"}
    /\ caching \in {"off", "memory", "opening"}

Init ==
    /\ Line!Init
    /\ Loaded
    /\ opens = 0
    /\ ask \in [Requests -> Kinds]
    /\ point = [r \in Requests |-> "new"]
    /\ outcome = [r \in Requests |-> "none"]
    /\ upstream = [r \in Requests |-> "none"]
    /\ size = [r \in Requests |-> 0]
    /\ got = [r \in Requests |-> 0]
    /\ closed = {}
    /\ cached = {}
    /\ process = "starting"

Streams(r)     == "stream" \in ask[r]
BypassCache(r) == "no-store" \in ask[r]

Active(r) == point[r] \notin {"new", "done"}

Goes(r, from, to) == point[r] = from /\ point' = [point EXCEPT ![r] = to]
Ends(r, how)      == outcome' = [outcome EXCEPT ![r] = how]

-----------------------------------------------------------------------------
(* chatHandler up to the wait for the job.                                 *)

\* A connection that was accepted before Shutdown closed the listener may still
\* bring a request, for which Shutdown waits.
Open == process \in {"serving", "closing"}

\* APIKeyAuth: no bearer token, or none of the keys.
Unauthorized(r) ==
    /\ Open
    /\ Goes(r, "new", "done")
    /\ Ends(r, "refused")
    /\ UNCHANGED <<lineVars, ask, size, got, closed, upstream, cached>>

\* A request with a key, for chatHandler.
Arrive(r) ==
    /\ Open
    /\ Goes(r, "new", "allow")
    /\ UNCHANGED <<lineVars, handVars, upstream, cached>>

\* A well-formed request, and Limiter.Allow said yes or failed: an error lets
\* the request pass.
Allowed(r) ==
    /\ Goes(r, "allow", IF BypassCache(r) \/ caching = "off" THEN "submit" ELSE "lookup")
    /\ UNCHANGED <<lineVars, handVars, upstream, cached>>

\* An unreadable body, bad JSON, or Limiter.Allow said no.
Refused(r) ==
    /\ Goes(r, "allow", "done")
    /\ Ends(r, "refused")
    /\ UNCHANGED <<lineVars, ask, size, got, closed, upstream, cached>>

\* Lookup found nothing fresh and near enough, or failed.
Miss(r) ==
    /\ Goes(r, "lookup", "submit")
    /\ UNCHANGED <<lineVars, handVars, upstream, cached>>

Hit(r) ==
    /\ Goes(r, "lookup", "replay")
    /\ \E e \in cached : got' = [got EXCEPT ![r] = e.chunks]
    /\ UNCHANGED <<lineVars, ask, outcome, size, closed, upstream, cached>>

\* serveCacheHit has written the answer or lost its client.
Replayed(r) ==
    /\ Goes(r, "replay", "done")
    /\ Ends(r, "hit")
    /\ UNCHANGED <<lineVars, ask, size, got, closed, upstream, cached>>

\* Submit took the job.
Submitted(r) ==
    /\ mode = "scheduler"
    /\ Goes(r, "submit", "waiting")
    /\ Line!Accept(r)
    /\ UNCHANGED <<handVars, upstream, cached>>

\* ErrQueueFull.
Shed(r) ==
    /\ mode = "scheduler"
    /\ Goes(r, "submit", "done")
    /\ Line!Reject(r)
    /\ Ends(r, "busy")
    /\ UNCHANGED <<ask, size, got, closed, upstream, cached>>

\* No scheduler: a goroutine of its own runs dispatchDirect.
DispatchDirect(r) ==
    /\ mode = "direct"
    /\ Goes(r, "submit", "waiting")
    /\ status' = [status EXCEPT ![r] = "accepted"]
    /\ running' = running \cup {r}
    /\ upstream' = [upstream EXCEPT ![r] = "live"]
    /\ UNCHANGED <<backlog, handVars, cached>>

-----------------------------------------------------------------------------
(* The job: dispatchBatch's goroutine or dispatchDirect's.                 *)

\* cancel() of the job's context, without effect once the deadline passed.
Cancel(r) ==
    upstream' = [upstream EXCEPT ![r] = IF @ = "live" THEN "cancelled" ELSE @]

StartJob ==
    /\ mode = "scheduler"
    /\ Line!Start
    /\ upstream' = [upstream EXCEPT ![Head(backlog)] = "live"]
    /\ UNCHANGED <<handVars, point, cached>>

\* Do returns a body: nothing is answered under a context that ended.
DoSucceeds(r) ==
    /\ upstream[r] = "live"
    /\ Line!Finish(r, "ok")
    /\ \E n \in {0, AnswerChunks} : size' = [size EXCEPT ![r] = n]
    /\ UNCHANGED <<ask, outcome, got, closed, point, upstream, cached>>

\* Mutation: a failed job returns without closing Done.
DoFailsUndone(r) ==
    /\ r \in running /\ status[r] = "accepted"
    /\ running' = running \ {r}
    /\ Cancel(r)
    /\ UNCHANGED <<backlog, status, handVars, point, cached>>

\* Do gives up.  The scheduler cancels the context before it closes Done.
DoFails(r) ==
    /\ Line!Finish(r, "err")
    /\ IF mode = "scheduler" THEN Cancel(r) ELSE UNCHANGED upstream
    /\ UNCHANGED <<handVars, point, cached>>

\* Mutation: the scheduler's goroutine defers cancel().
JobReturnsCancelling(r) ==
    /\ Line!Release(r)
    /\ Cancel(r)
    /\ UNCHANGED <<handVars, point, cached>>

\* The goroutine returns.  dispatchDirect's runs its deferred cancel(); the
\* scheduler's leaves that to the body's Close.
JobReturns(r) ==
    /\ Line!Release(r)
    /\ IF mode = "direct" THEN Cancel(r) ELSE UNCHANGED upstream
    /\ UNCHANGED <<handVars, point, cached>>

\* RequestTimeout.
Expire(r) ==
    /\ upstream[r] = "live"
    /\ upstream' = [upstream EXCEPT ![r] = "expired"]
    /\ UNCHANGED <<lineVars, handVars, point, cached>>

-----------------------------------------------------------------------------
(* chatHandler from the wait on.                                           *)

\* The client has closed its connection, which may be at any time: the select
\* takes r.Context().Done() and the handler forgets the job.
Abandon(r) ==
    /\ Goes(r, "waiting", "done")
    /\ Ends(r, "left")
    /\ UNCHANGED <<lineVars, ask, size, got, closed, upstream, cached>>

\* The select takes job.Done and finds job.Err ...
UpstreamFailed(r) ==
    /\ status[r] = "err"
    /\ Goes(r, "waiting", "done")
    /\ Ends(r, "failed")
    /\ UNCHANGED <<lineVars, ask, size, got, closed, upstream, cached>>

\* ... or a response.
UpstreamAnswered(r) ==
    /\ status[r] = "ok"
    /\ Goes(r, "waiting", "read")
    /\ UNCHANGED <<lineVars, handVars, upstream, cached>>

\* A line that streamProxy reads and writes, or more bytes for ReadAll.  What
\* is buffered still comes after the job's context has ended.
Chunk(r) ==
    /\ point[r] = "read"
    /\ got[r] < size[r]
    /\ got' = [got EXCEPT ![r] = @ + 1]
    /\ UNCHANGED <<lineVars, ask, outcome, size, closed, point, upstream, cached>>

\* io.EOF.
WholeBody(r) ==
    /\ Goes(r, "read", "store")
    /\ got[r] = size[r]
    /\ Ends(r, "answered")
    /\ UNCHANGED <<lineVars, ask, size, got, closed, upstream, cached>>

\* Mutation: the error of ReadAll is not returned on.
BodyBreaksUnnoticed(r) ==
    /\ Goes(r, "read", "store")
    /\ Ends(r, "answered")
    /\ UNCHANGED <<lineVars, ask, size, got, closed, upstream, cached>>

\* Mutation: the body is only closed on the way that succeeds.
BodyBreaksUnclosed(r) ==
    /\ Goes(r, "read", IF Streams(r) THEN "store" ELSE "done")
    /\ Ends(r, IF Streams(r) THEN "answered" ELSE "failed")
    /\ UNCHANGED <<lineVars, ask, size, got, closed, upstream, cached>>

\* A read of the upstream body fails, or streamProxy finds that its client has
\* left, in its context or by a write.  A stream counts as answered with what
\* came of it, an error of ReadAll is a 502.
BodyBreaks(r) ==
    /\ Goes(r, "read", IF Streams(r) THEN "store" ELSE "close")
    /\ Ends(r, IF Streams(r) THEN "answered" ELSE "failed")
    /\ UNCHANGED <<lineVars, ask, size, got, closed, upstream, cached>>

Caches == caching \in {"memory", "pgvector"}

Cacheable(r) == Caches /\ ~BypassCache(r) /\ got[r] > 0

\* Mutation: empty content is stored as well.
StoreEmpty(r) ==
    /\ Goes(r, "store", "close")
    /\ \/ /\ Caches /\ ~BypassCache(r)
          /\ cached' = cached \cup {[by |-> r, chunks |-> got[r]]}
       \/ UNCHANGED cached
    /\ UNCHANGED <<lineVars, handVars, upstream>>

\* Cache.Store, which may fail.
Store(r) ==
    /\ Goes(r, "store", "close")
    /\ \/ /\ Cacheable(r)
          /\ cached' = cached \cup {[by |-> r, chunks |-> got[r]]}
       \/ UNCHANGED cached
    /\ UNCHANGED <<lineVars, handVars, upstream>>

\* The deferred Close: cancelOnClose around the router's countingBody.
CloseBody(r) ==
    /\ Goes(r, "close", "done")
    /\ closed' = closed \cup {r}
    /\ IF mode = "scheduler" THEN Cancel(r) ELSE UNCHANGED upstream
    /\ UNCHANGED <<lineVars, ask, outcome, size, got, cached>>

-----------------------------------------------------------------------------
(* The process: serveCmd up to ListenAndServe, Shutdown with its five      *)
(* seconds, and the deferred Close and Stop calls.                         *)

Starting == process \in {"starting", "interrupted"}

\* config.Load or router.New fails, or ListenAndServe does: log.Fatalf.
Fatal ==
    /\ Starting \/ process = "serving"
    /\ process' = "killed"
    /\ UNCHANGED <<caching, opens>>

\* The store is ready.  Nothing opens under a context that a signal ended.
CacheOpens ==
    /\ process = "starting"
    /\ caching = "opening"
    /\ caching' = "pgvector"
    /\ opens' = 0
    /\ UNCHANGED process

\* Mutation: the attempts are not counted.
CacheFailsUncounted ==
    /\ Starting
    /\ caching = "opening"
    /\ UNCHANGED <<caching, opens, process>>

\* An attempt of buildCache fails.  After the last the gateway has no cache.
CacheFails ==
    /\ Starting
    /\ caching = "opening"
    /\ IF opens + 1 < MaxOpens THEN opens' = opens + 1 /\ UNCHANGED caching
                               ELSE opens' = 0 /\ caching' = "off"
    /\ UNCHANGED process

\* Mutation: a signal that came while the store was opened is forgotten.
ServeUninterrupted ==
    /\ Starting
    /\ caching # "opening"
    /\ process' = "serving"
    /\ UNCHANGED <<caching, opens>>

\* ListenAndServe starts the server and looks at the context then, which a signal
\* may have ended already.
Serve ==
    /\ Starting
    /\ caching # "opening"
    /\ process' = IF process = "interrupted" THEN "closing" ELSE "serving"
    /\ UNCHANGED <<caching, opens>>

\* A signal ends the context.
Signal ==
    /\ process \in {"starting", "serving"}
    /\ process' = IF process = "starting" THEN "interrupted" ELSE "closing"
    /\ UNCHANGED <<caching, opens>>

\* Mutation: the listener is closed without waiting for handlers.
ShutdownAtOnce ==
    /\ process = "closing"
    /\ process' = "stopping"
    /\ UNCHANGED <<caching, opens>>

\* Shutdown returns nil when every handler has returned.
ShutdownDone ==
    /\ process = "closing"
    /\ \A r \in Requests : ~Active(r)
    /\ process' = "stopping"
    /\ UNCHANGED <<caching, opens>>

\* Shutdown's context ends: log.Fatalf.
ShutdownTimeout ==
    /\ process = "closing"
    /\ \E r \in Requests : Active(r)
    /\ process' = "killed"
    /\ UNCHANGED <<caching, opens>>

\* Limiter and cache are closed, Stop waits for the batcher, which has started
\* all jobs when it returns (Scheduler's DrainedAtExit), and main returns.
StopDone ==
    /\ process = "stopping"
    /\ backlog = <<>>
    /\ process' = "exited"
    /\ UNCHANGED <<caching, opens>>

\* The steps of main that wait for nobody but the clock.
MainProceeds ==
    CacheFails \/ Serve \/ ShutdownDone \/ ShutdownTimeout \/ StopDone

ProcessStep ==
    /\ MainProceeds \/ Fatal \/ CacheOpens \/ Signal
    /\ UNCHANGED <<mode, lineVars, handVars, point, upstream, cached>>

-----------------------------------------------------------------------------

\* A Lookup or a Store under way in Postgres.  Neither has a deadline: Lookup runs
\* under the request's context, Store under context.Background(), and a query of
\* pgx waits as long for a connection or an answer.
AwaitsPostgres(r) == caching = "pgvector" /\ point[r] \in {"lookup", "store"}

\* The steps of a handler that wait for nobody, but for AwaitsPostgres.
Proceed(r) ==
    \/ Allowed(r) \/ Miss(r) \/ Replayed(r) \/ Submitted(r) \/ Shed(r)
    \/ DispatchDirect(r) \/ UpstreamFailed(r) \/ UpstreamAnswered(r)
    \/ Store(r) \/ CloseBody(r)

RequestStep(r) ==
    \/ Unauthorized(r) \/ Arrive(r) \/ Refused(r) \/ Hit(r) \/ Proceed(r)
    \/ DoSucceeds(r) \/ DoFails(r) \/ JobReturns(r) \/ Expire(r)
    \/ Abandon(r) \/ Chunk(r) \/ WholeBody(r) \/ BodyBreaks(r)

InProcess == process \notin {"exited", "killed"} /\ UNCHANGED procVars

Next ==
    \/ InProcess /\ \E r \in Requests : RequestStep(r)
    \/ InProcess /\ StartJob
    \/ ProcessStep

Spec == Init /\ [][Next]_vars

\* Goroutines that can run do, deadlines pass, attempts to open the store end,
\* and a read fails once the context of its request has ended.  Backends and
\* Postgres owe nobody an answer, and no context ends a query.
Fairness ==
    /\ WF_vars(ProcessStep /\ MainProceeds)
    /\ WF_vars(InProcess /\ StartJob)
    /\ \A r \in Requests :
          /\ WF_vars(InProcess /\ ~AwaitsPostgres(r) /\ Proceed(r))
          /\ WF_vars(InProcess /\ JobReturns(r))
          /\ WF_vars(InProcess /\ Expire(r))
          /\ WF_vars(InProcess /\ upstream[r] # "live" /\ DoFails(r))
          /\ WF_vars(InProcess /\ upstream[r] # "live" /\ BodyBreaks(r))

FairSpec == Spec /\ Fairness

-----------------------------------------------------------------------------

TypeOK ==
    /\ Line!TypeOK
    /\ mode \in {"scheduler", "direct"}
    /\ caching \in {"off", "memory", "opening", "pgvector"}
    /\ opens \in 0..MaxOpens - 1
    /\ ask \in [Requests -> Kinds]
    /\ point \in [Requests -> Point]
    /\ outcome \in [Requests -> Outcome]
    /\ upstream \in [Requests -> {"none", "live", "expired", "cancelled"}]
    /\ size \in [Requests -> 0..AnswerChunks]
    /\ got \in [Requests -> 0..AnswerChunks]
    /\ closed \in SUBSET Requests
    /\ cached \in SUBSET Entry
    /\ process \in {"starting", "interrupted", "serving", "closing",
                   "stopping", "exited", "killed"}

\* Every body that Do handed out is closed by the time its handler returns,
\* on every way out of it (handler.go's deferred Close, which also takes the
\* request off its backend's in-flight count).  The one exception is a client
\* that left before the answer: its body is never closed by anybody.
OnlyAbandonedStayOpen ==
    \A r \in Requests :
        (status[r] = "ok" /\ point[r] = "done") =>
            (r \in closed \/ outcome[r] = "left")

\* Until the body is closed the context under it ends by its deadline only
\* (comments on dispatchBatch and cancelOnClose), when jobs come from the
\* scheduler.  See ReadsUntilDeadline for both ways of dispatch.
ScheduledReadsUntilDeadline ==
    mode = "scheduler" =>
        \A r \in Requests :
            status[r] = "ok" /\ r \notin closed => upstream[r] # "cancelled"

\* The same for dispatchDirect, "mirroring what the scheduler does".
ReadsUntilDeadline ==
    \A r \in Requests :
        status[r] = "ok" /\ r \notin closed => upstream[r] # "cancelled"

\* No handler is active while main closes limiter, cache and scheduler under it.
\* When main returns no client is left without an answer: no accepted job waits,
\* and jobs cut off are those of clients that had left (Shutdown before the
\* deferred calls, Stop before main's return).
CleanExit ==
    /\ process \in {"stopping", "exited"} => \A r \in Requests : ~Active(r)
    /\ process = "exited" =>
          /\ backlog = <<>>
          /\ \A r \in Requests : status[r] = "accepted" => outcome[r] = "left"

\* What may be served to others: nothing of a request with no-store, nothing
\* of a request that was not answered, and of a request that does not stream
\* only the full answer, whatever broke while it was read.
CacheSound ==
    \A e \in cached :
        /\ ~BypassCache(e.by)
        /\ outcome[e.by] = "answered" /\ status[e.by] = "ok"
        /\ ~Streams(e.by) => e.chunks = AnswerChunks

\* "Store in cache after a successful full stream": what the cache replays as
\* a finished answer is a full one.
CachesFullAnswers == \A e \in cached : e.chunks = AnswerChunks

\* Every handler returns, whatever backends and clients do, unless the process
\* is killed under it or Postgres keeps it for good: a store that hangs costs the
\* gateway no handler but those that wait for the store itself, and with the
\* memory store or none it cannot cost any.
HandlersReturn ==
    \A r \in Requests :
        Active(r) ~> (point[r] = "done" \/ process = "killed" \/ []AwaitsPostgres(r))

\* The gateway starts to serve however long Postgres is away ("Retry briefly so
\* the gateway can start"), and a signal ends it, however early it comes and
\* whatever handlers and Postgres do.
StartsAndEnds ==
    /\ (process = "starting") ~> (process \in {"serving", "closing", "killed"})
    /\ (process \in {"interrupted", "closing"}) ~> (process \in {"exited", "killed"})
=============================================================================
