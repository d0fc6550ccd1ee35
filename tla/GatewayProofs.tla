--------------------------- MODULE GatewayProofs ---------------------------
(***************************************************************************)
(* Proofs about the gateway, for any number of requests of any kinds, any  *)
(* settings of the scheduler and answers of any length.                    *)
(***************************************************************************)
EXTENDS Gateway, TLAPS

\* What a handler's place says of its job and its body.
Life(r) ==
    /\ point[r] \in {"new", "allow", "lookup", "replay", "submit"} => status[r] = "new"
    /\ point[r] = "waiting" => status[r] \in {"accepted", "ok", "err"}
    /\ point[r] \in {"read", "store", "close"} => status[r] = "ok"
    /\ point[r] = "store" =>
          outcome[r] = "answered" /\ (~Streams(r) => got[r] = size[r])
    /\ point[r] = "done" =>
          /\ status[r] = "accepted" => outcome[r] = "left"
          /\ status[r] = "ok" => r \in closed \/ outcome[r] = "left"

\* A scheduled job's context is cancelled when the job has failed or its body
\* is closed, not before.
Held(r) ==
    mode = "scheduler" /\ upstream[r] = "cancelled" => status[r] = "err" \/ r \in closed

\* A handler stores as its last act but one, after which nothing of it changes.
Settled(e) ==
    /\ point[e.by] \in {"close", "done"}
    /\ ~BypassCache(e.by)
    /\ outcome[e.by] = "answered" /\ status[e.by] = "ok"
    /\ ~Streams(e.by) => e.chunks = AnswerChunks

\* Nobody comes in when the server has shut down.
Quiet ==
    /\ process \in {"stopping", "exited"} => \A r \in Requests : ~Active(r)
    /\ process = "exited" => backlog = <<>>

Types == TypeOK /\ \A r \in Requests : size[r] \in {0, AnswerChunks}

IInv ==
    /\ Types
    /\ \A r \in Requests : Life(r) /\ Held(r)
    /\ \A e \in cached : Settled(e)
    /\ Quiet

LEMMA Initial == Init => IInv
<1> SUFFICES ASSUME Init PROVE IInv
  OBVIOUS
<1> USE DEF Init, Loaded, Line!Init
<1>1. Line!TypeOK
  <2>1. <<>> \in Seq(Requests)
    OBVIOUS
  <2>2. QED
    BY <2>1 DEF Line!TypeOK, Line!Status, Line!Answered
<1>2. Types
  <2>1. opens \in 0..MaxOpens - 1
    BY OpensAssumption
  <2>2. size \in [Requests -> 0..AnswerChunks] /\ got \in [Requests -> 0..AnswerChunks]
    BY ChunksAssumption
  <2>3. QED
    BY <1>1, <2>1, <2>2 DEF Types, TypeOK, Point, Outcome
<1>3. \A r \in Requests : Life(r) /\ Held(r)
  BY DEF Life, Held
<1>4. Quiet
  BY DEF Quiet
<1>5. QED
  BY <1>2, <1>3, <1>4 DEF IInv

-----------------------------------------------------------------------------
(* What steps leave alone.                                                 *)

\* The line keeps its types in every step it takes here.
LEMMA LineStep ==
    ASSUME Line!TypeOK, NEW r \in Requests,
           \/ Line!Accept(r) \/ Line!Reject(r) \/ Line!Finish(r, "ok")
           \/ Line!Finish(r, "err") \/ Line!Release(r) \/ Line!Start
    PROVE  Line!TypeOK'
<1> USE DEF Line!TypeOK, Line!Status, Line!Answered
<1>1. CASE Line!Accept(r)
  BY <1>1 DEF Line!Accept
<1>2. CASE Line!Reject(r)
  BY <1>2 DEF Line!Reject
<1>3. CASE Line!Finish(r, "ok") \/ Line!Finish(r, "err")
  BY <1>3 DEF Line!Finish
<1>4. CASE Line!Release(r)
  BY <1>4 DEF Line!Release
<1>5. CASE Line!Start
  <2>1. Head(backlog) \in Requests /\ Tail(backlog) \in Seq(Requests)
    BY <1>5 DEF Line!Start
  <2>2. QED
    BY <1>5, <2>1 DEF Line!Start
<1>6. QED
  BY <1>1, <1>2, <1>3, <1>4, <1>5

LEMMA LineUnchanged ==
    ASSUME Line!TypeOK, UNCHANGED lineVars
    PROVE  Line!TypeOK'
BY DEF Line!TypeOK, lineVars

\* The types of what a handler or a job may write.
LEMMA TypeStep ==
    ASSUME Types, NEW r \in Requests, RequestStep(r), UNCHANGED procVars
    PROVE  Types'
<1> USE DEF Types, TypeOK
<1>1. ASSUME NEW from, NEW to \in Point, Goes(r, from, to)
      PROVE  point' \in [Requests -> Point]
  BY <1>1 DEF Goes
<1>2. ASSUME NEW how \in Outcome, Ends(r, how)
      PROVE  outcome' \in [Requests -> Outcome]
  BY <1>2 DEF Ends
<1>3. ASSUME Cancel(r)
      PROVE  upstream' \in [Requests -> {"none", "live", "expired", "cancelled"}]
  BY <1>3 DEF Cancel
<1>4. UNCHANGED <<mode, caching, opens, process>>
  BY DEF procVars
<1> USE DEF lineVars, handVars
<1>5. CASE Unauthorized(r) \/ Arrive(r) \/ Allowed(r) \/ Refused(r) \/ Miss(r)
  <2>1. Line!TypeOK'
    BY <1>5, LineUnchanged DEF Unauthorized, Arrive, Allowed, Refused, Miss
  <2>2. QED
    BY <1>1, <1>2, <1>4, <1>5, <2>1
       DEF Unauthorized, Arrive, Allowed, Refused, Miss, Point, Outcome
<1>6. CASE Hit(r)
  <2>1. Line!TypeOK'
    BY <1>6, LineUnchanged DEF Hit
  <2>2. PICK e \in cached : got' = [got EXCEPT ![r] = e.chunks]
    BY <1>6 DEF Hit
  <2>3. e.chunks \in 0..AnswerChunks
    BY DEF Entry
  <2>4. QED
    BY <1>1, <1>4, <1>6, <2>1, <2>2, <2>3 DEF Hit, Point
<1>7. CASE Replayed(r) \/ Abandon(r) \/ UpstreamFailed(r) \/ UpstreamAnswered(r)
  <2>1. Line!TypeOK'
    BY <1>7, LineUnchanged DEF Replayed, Abandon, UpstreamFailed, UpstreamAnswered
  <2>2. QED
    BY <1>1, <1>2, <1>4, <1>7, <2>1
       DEF Replayed, Abandon, UpstreamFailed, UpstreamAnswered, Point, Outcome
<1>8. CASE Submitted(r) \/ Shed(r)
  <2>1. Line!TypeOK'
    BY <1>8, LineStep DEF Submitted, Shed
  <2>2. QED
    BY <1>1, <1>2, <1>4, <1>8, <2>1 DEF Submitted, Shed, Point, Outcome
<1>9. CASE DispatchDirect(r)
  <2>1. Line!TypeOK'
    BY <1>9 DEF DispatchDirect, Line!TypeOK, Line!Status, Line!Answered
  <2>2. QED
    BY <1>1, <1>4, <1>9, <2>1 DEF DispatchDirect, Point
<1>10. CASE DoSucceeds(r)
  <2>1. Line!TypeOK'
    BY <1>10, LineStep DEF DoSucceeds
  <2>2. /\ size' \in [Requests -> 0..AnswerChunks]
        /\ \A q \in Requests : size'[q] \in {0, AnswerChunks}
    <3>1. PICK n \in {0, AnswerChunks} : size' = [size EXCEPT ![r] = n]
      BY <1>10 DEF DoSucceeds
    <3>2. n \in 0..AnswerChunks
      BY ChunksAssumption
    <3>3. QED
      BY <3>1, <3>2
  <2>3. QED
    BY <1>4, <1>10, <2>1, <2>2 DEF DoSucceeds
<1>11. CASE DoFails(r) \/ JobReturns(r)
  <2>1. Line!TypeOK'
    BY <1>11, LineStep DEF DoFails, JobReturns
  <2>2. QED
    BY <1>3, <1>4, <1>11, <2>1 DEF DoFails, JobReturns
<1>12. CASE Expire(r)
  <2>1. Line!TypeOK'
    BY <1>12, LineUnchanged DEF Expire
  <2>2. QED
    BY <1>4, <1>12, <2>1 DEF Expire
<1>13. CASE Chunk(r)
  <2>1. Line!TypeOK'
    BY <1>13, LineUnchanged DEF Chunk
  <2>2. got[r] + 1 \in 0..AnswerChunks
    BY <1>13, ChunksAssumption DEF Chunk
  <2>3. QED
    BY <1>4, <1>13, <2>1, <2>2 DEF Chunk
<1>14. CASE WholeBody(r) \/ BodyBreaks(r)
  <2>1. Line!TypeOK'
    BY <1>14, LineUnchanged DEF WholeBody, BodyBreaks
  <2>2. QED
    BY <1>1, <1>2, <1>4, <1>14, <2>1 DEF WholeBody, BodyBreaks, Point, Outcome
<1>15. CASE Store(r)
  <2>1. Line!TypeOK'
    BY <1>15, LineUnchanged DEF Store
  <2>2. Cacheable(r) => [by |-> r, chunks |-> got[r]] \in Entry
    BY ChunksAssumption DEF Cacheable, Entry
  <2>3. cached' \in SUBSET Entry
    BY <1>15, <2>2 DEF Store
  <2>4. QED
    BY <1>1, <1>4, <1>15, <2>1, <2>3 DEF Store, Point
<1>16. CASE CloseBody(r)
  <2>1. Line!TypeOK'
    BY <1>16, LineUnchanged DEF CloseBody
  <2>2. QED
    BY <1>1, <1>3, <1>4, <1>16, <2>1 DEF CloseBody, Point
<1>17. QED
  BY <1>5, <1>6, <1>7, <1>8, <1>9, <1>10, <1>11, <1>12, <1>13, <1>14, <1>15, <1>16
     DEF RequestStep, Proceed

-----------------------------------------------------------------------------
(* What each step does to the handler and the job it is about.             *)

\* A request's step leaves the others where they are.
LEMMA OthersStay ==
    ASSUME Types, NEW r \in Requests, RequestStep(r), NEW q \in Requests, q # r
    PROVE  /\ point'[q] = point[q] /\ outcome'[q] = outcome[q]
           /\ status'[q] = status[q] /\ upstream'[q] = upstream[q]
           /\ size'[q] = size[q] /\ got'[q] = got[q]
           /\ q \in closed' <=> q \in closed
<1> USE DEF Types, TypeOK, Line!TypeOK, Goes, Ends, Cancel, lineVars, handVars
<1>1. CASE \/ Unauthorized(r) \/ Arrive(r) \/ Allowed(r) \/ Refused(r) \/ Miss(r)
           \/ Hit(r) \/ Replayed(r) \/ Abandon(r)
  BY <1>1 DEF Unauthorized, Arrive, Allowed, Refused, Miss, Hit, Replayed, Abandon
<1>2. CASE Submitted(r) \/ Shed(r) \/ DispatchDirect(r)
  BY <1>2 DEF Submitted, Shed, DispatchDirect, Line!Accept, Line!Reject
<1>3. CASE DoSucceeds(r) \/ DoFails(r) \/ JobReturns(r) \/ Expire(r)
  BY <1>3 DEF DoSucceeds, DoFails, JobReturns, Expire, Line!Finish, Line!Release
<1>4. CASE UpstreamFailed(r) \/ UpstreamAnswered(r) \/ Chunk(r) \/ WholeBody(r)
  BY <1>4 DEF UpstreamFailed, UpstreamAnswered, Chunk, WholeBody
<1>5. CASE BodyBreaks(r) \/ Store(r) \/ CloseBody(r)
  BY <1>5 DEF BodyBreaks, Store, CloseBody
<1>6. QED
  BY <1>1, <1>2, <1>3, <1>4, <1>5 DEF RequestStep, Proceed

\* Kinds never change.
LEMMA KindsStay ==
    ASSUME NEW r \in Requests, RequestStep(r)
    PROVE  ask' = ask
BY DEF RequestStep, Proceed, Unauthorized, Arrive, Allowed, Refused, Miss, Hit,
       Replayed, Abandon, Submitted, Shed, DispatchDirect, DoSucceeds, DoFails,
       JobReturns, Expire, UpstreamFailed, UpstreamAnswered, Chunk, WholeBody,
       BodyBreaks, Store, CloseBody, handVars

LEMMA LifeStep ==
    ASSUME Types, NEW r \in Requests, Life(r), RequestStep(r)
    PROVE  Life(r)'
<1> USE DEF Types, TypeOK, Line!TypeOK, Life, Goes, Ends, Streams, lineVars, handVars
<1>1. CASE \/ Unauthorized(r) \/ Arrive(r) \/ Allowed(r) \/ Refused(r) \/ Miss(r)
           \/ Hit(r) \/ Replayed(r)
  BY <1>1 DEF Unauthorized, Arrive, Allowed, Refused, Miss, Hit, Replayed
<1>2. CASE Submitted(r) \/ Shed(r) \/ DispatchDirect(r)
  BY <1>2 DEF Submitted, Shed, DispatchDirect, Line!Accept, Line!Reject
<1>3. CASE DoSucceeds(r) \/ DoFails(r) \/ JobReturns(r) \/ Expire(r)
  BY <1>3 DEF DoSucceeds, DoFails, JobReturns, Expire, Line!Finish, Line!Release
<1>4. CASE UpstreamFailed(r) \/ UpstreamAnswered(r) \/ Abandon(r)
  BY <1>4 DEF UpstreamFailed, UpstreamAnswered, Abandon
<1>5. CASE Chunk(r) \/ WholeBody(r) \/ BodyBreaks(r)
  BY <1>5 DEF Chunk, WholeBody, BodyBreaks
<1>6. CASE Store(r) \/ CloseBody(r)
  BY <1>6 DEF Store, CloseBody
<1>7. QED
  BY <1>1, <1>2, <1>3, <1>4, <1>5, <1>6 DEF RequestStep, Proceed

LEMMA HeldStep ==
    ASSUME Types, NEW r \in Requests, Life(r), Held(r), RequestStep(r), mode' = mode
    PROVE  Held(r)'
<1> USE DEF Types, TypeOK, Line!TypeOK, Life, Held, Goes, Ends, Cancel, lineVars, handVars
<1>1. CASE \/ Unauthorized(r) \/ Arrive(r) \/ Allowed(r) \/ Refused(r) \/ Miss(r)
           \/ Hit(r) \/ Replayed(r) \/ Abandon(r)
  BY <1>1 DEF Unauthorized, Arrive, Allowed, Refused, Miss, Hit, Replayed, Abandon
<1>2. CASE Submitted(r) \/ Shed(r) \/ DispatchDirect(r)
  BY <1>2 DEF Submitted, Shed, DispatchDirect, Line!Accept, Line!Reject
<1>3. CASE DoSucceeds(r) \/ DoFails(r) \/ JobReturns(r) \/ Expire(r)
  BY <1>3 DEF DoSucceeds, DoFails, JobReturns, Expire, Line!Finish, Line!Release
<1>4. CASE UpstreamFailed(r) \/ UpstreamAnswered(r) \/ Chunk(r) \/ WholeBody(r)
  BY <1>4 DEF UpstreamFailed, UpstreamAnswered, Chunk, WholeBody
<1>5. CASE BodyBreaks(r) \/ Store(r) \/ CloseBody(r)
  BY <1>5 DEF BodyBreaks, Store, CloseBody
<1>6. QED
  BY <1>1, <1>2, <1>3, <1>4, <1>5 DEF RequestStep, Proceed

\* Once a handler is past its store, it only closes and returns.
LEMMA PastStore ==
    ASSUME Types, NEW r \in Requests, Life(r), point[r] \in {"close", "done"},
           outcome[r] = "answered", status[r] = "ok", RequestStep(r)
    PROVE  /\ point'[r] \in {"close", "done"}
           /\ outcome'[r] = "answered" /\ status'[r] = "ok"
<1> USE DEF Types, TypeOK, Line!TypeOK, Life, Goes, Ends, lineVars, handVars
<1>1. CASE \/ Unauthorized(r) \/ Arrive(r) \/ Allowed(r) \/ Refused(r) \/ Miss(r)
           \/ Hit(r) \/ Replayed(r) \/ Abandon(r)
  BY <1>1 DEF Unauthorized, Arrive, Allowed, Refused, Miss, Hit, Replayed, Abandon
<1>2. CASE Submitted(r) \/ Shed(r) \/ DispatchDirect(r)
  BY <1>2 DEF Submitted, Shed, DispatchDirect, Line!Accept, Line!Reject
<1>3. CASE DoSucceeds(r) \/ DoFails(r) \/ JobReturns(r) \/ Expire(r)
  BY <1>3 DEF DoSucceeds, DoFails, JobReturns, Expire, Line!Finish, Line!Release
<1>4. CASE UpstreamFailed(r) \/ UpstreamAnswered(r) \/ Chunk(r) \/ WholeBody(r)
  BY <1>4 DEF UpstreamFailed, UpstreamAnswered, Chunk, WholeBody
<1>5. CASE BodyBreaks(r) \/ Store(r) \/ CloseBody(r)
  BY <1>5 DEF BodyBreaks, Store, CloseBody
<1>6. QED
  BY <1>1, <1>2, <1>3, <1>4, <1>5 DEF RequestStep, Proceed

\* Only Store adds an entry, and one that is settled at once: a request that
\* does not stream stores a body it has read to the end.
LEMMA CachedStep ==
    ASSUME Types, NEW r \in Requests, Life(r), RequestStep(r)
    PROVE  \A e \in cached' :
              e \in cached \/ (e.by = r /\ e \in Entry /\ Settled(e)')
<1> USE DEF Types, TypeOK
<1>1. CASE Store(r)
  <2> SUFFICES ASSUME NEW e \in cached', e \notin cached
               PROVE  e.by = r /\ e \in Entry /\ Settled(e)'
    OBVIOUS
  <2>1. Cacheable(r) /\ e = [by |-> r, chunks |-> got[r]]
    BY <1>1 DEF Store
  <2>2. point'[r] = "close" /\ outcome' = outcome /\ status' = status /\ ask' = ask
    BY <1>1 DEF Store, Goes, lineVars, handVars
  <2>3. outcome[r] = "answered" /\ status[r] = "ok"
    BY <1>1 DEF Store, Goes, Life
  <2>4. ~Streams(r) => got[r] = AnswerChunks
    BY <1>1, <2>1 DEF Store, Goes, Life, Cacheable
  <2>5. Settled(e)'
    BY <2>1, <2>2, <2>3, <2>4 DEF Settled, Streams, BypassCache, Cacheable
  <2>6. e \in Entry
    BY <2>1, ChunksAssumption DEF Cacheable, Entry
  <2>7. QED
    BY <2>1, <2>5, <2>6
<1>2. CASE ~Store(r)
  <2>1. cached' = cached
    BY <1>2 DEF RequestStep, Proceed, Unauthorized, Arrive, Allowed, Refused, Miss,
       Hit, Replayed, Abandon, Submitted, Shed, DispatchDirect, DoSucceeds, DoFails,
       JobReturns, Expire, UpstreamFailed, UpstreamAnswered, Chunk, WholeBody,
       BodyBreaks, CloseBody
  <2>2. QED
    BY <2>1
<1>3. QED
  BY <1>1, <1>2

\* Nobody comes in once the process has stopped serving.
LEMMA ActiveStep ==
    ASSUME Types, NEW r \in Requests, RequestStep(r), ~Open, ~Active(r)
    PROVE  ~Active(r)'
<1> USE DEF Types, TypeOK, Active, Goes
<1>1. CASE \/ Unauthorized(r) \/ Arrive(r) \/ Allowed(r) \/ Refused(r) \/ Miss(r)
           \/ Hit(r) \/ Replayed(r) \/ Abandon(r)
  BY <1>1 DEF Unauthorized, Arrive, Allowed, Refused, Miss, Hit, Replayed, Abandon
<1>2. CASE \/ Submitted(r) \/ Shed(r) \/ DispatchDirect(r) \/ UpstreamFailed(r)
           \/ UpstreamAnswered(r) \/ Chunk(r) \/ WholeBody(r) \/ BodyBreaks(r)
           \/ Store(r) \/ CloseBody(r)
  BY <1>2 DEF Submitted, Shed, DispatchDirect, UpstreamFailed, UpstreamAnswered,
              Chunk, WholeBody, BodyBreaks, Store, CloseBody
<1>3. CASE DoSucceeds(r) \/ DoFails(r) \/ JobReturns(r) \/ Expire(r)
  BY <1>3 DEF DoSucceeds, DoFails, JobReturns, Expire
<1>4. QED
  BY <1>1, <1>2, <1>3 DEF RequestStep, Proceed

-----------------------------------------------------------------------------
(* The invariant.                                                          *)

LEMMA RequestKeeps ==
    ASSUME IInv, NEW r \in Requests, RequestStep(r), InProcess
    PROVE  IInv'
<1> USE DEF IInv
<1>1. UNCHANGED procVars /\ process # "exited"
  BY DEF InProcess
<1>2. UNCHANGED <<mode, caching, process>>
  BY <1>1 DEF procVars
<1>3. Types'
  BY <1>1, TypeStep
<1>4. ASSUME NEW q \in Requests PROVE Life(q)' /\ Held(q)'
  <2>1. CASE q = r
    BY <1>2, <2>1, LifeStep, HeldStep
  <2>2. CASE q # r
    <3>1. Life(q)'
      BY <2>2, OthersStay, KindsStay DEF Life, Streams
    <3>2. Held(q)'
      BY <1>2, <2>2, OthersStay DEF Held
    <3>3. QED
      BY <3>1, <3>2
  <2>3. QED
    BY <2>1, <2>2
<1>5. ASSUME NEW e \in cached' PROVE Settled(e)'
  <2>1. CASE e \in cached
    <3>1. e.by \in Requests /\ Settled(e)
      BY <2>1 DEF Types, TypeOK, Entry
    <3>2. /\ point'[e.by] \in {"close", "done"}
          /\ outcome'[e.by] = "answered" /\ status'[e.by] = "ok"
      <4>1. CASE e.by = r
        BY <3>1, <4>1, PastStore DEF Settled
      <4>2. CASE e.by # r
        BY <3>1, <4>2, OthersStay DEF Settled
      <4>3. QED
        BY <4>1, <4>2
    <3>3. QED
      BY <3>1, <3>2, KindsStay DEF Settled, Streams, BypassCache
  <2>2. CASE e \notin cached
    BY <2>2, CachedStep
  <2>3. QED
    BY <2>1, <2>2
<1>6. Quiet'
  <2>1. ASSUME process \in {"stopping", "exited"}, NEW q \in Requests PROVE ~Active(q)'
    <3>1. ~Active(q)
      BY <2>1 DEF Quiet
    <3>2. CASE q = r
      BY <2>1, <3>1, <3>2, ActiveStep DEF Open
    <3>3. CASE q # r
      BY <3>1, <3>3, OthersStay DEF Active
    <3>4. QED
      BY <3>2, <3>3
  <2>2. QED
    BY <1>1, <1>2, <2>1 DEF Quiet
<1>7. QED
  BY <1>3, <1>4, <1>5, <1>6

LEMMA StartKeeps ==
    ASSUME IInv, StartJob, InProcess
    PROVE  IInv'
<1> USE DEF IInv, Types, TypeOK
<1>1. UNCHANGED procVars /\ process # "exited"
  BY DEF InProcess
<1>2. UNCHANGED <<status, ask, outcome, size, got, closed, point, cached>>
  BY DEF StartJob, Line!Start, handVars
<1>3. UNCHANGED <<mode, caching, opens, process>>
  BY <1>1 DEF procVars
<1>4. Head(backlog) \in Requests
  BY DEF StartJob, Line!Start, Line!TypeOK
<1>5. Line!TypeOK'
  BY <1>4, LineStep DEF StartJob
<1>6. /\ upstream' \in [Requests -> {"none", "live", "expired", "cancelled"}]
      /\ \A r \in Requests : upstream'[r] = "cancelled" => upstream[r] = "cancelled"
  BY DEF StartJob
<1>7. Types'
  BY <1>2, <1>3, <1>5, <1>6
<1>8. \A r \in Requests : Life(r)' /\ Held(r)'
  BY <1>2, <1>3, <1>6 DEF Life, Held, Streams
<1>9. \A e \in cached' : Settled(e)'
  BY <1>2 DEF Settled, Streams, BypassCache
<1>10. Quiet'
  BY <1>1, <1>2, <1>3 DEF Quiet, Active
<1>11. QED
  BY <1>7, <1>8, <1>9, <1>10

LEMMA ProcessKeeps ==
    ASSUME IInv, ProcessStep
    PROVE  IInv'
<1> USE DEF IInv, Types, TypeOK
<1>1. UNCHANGED <<mode, lineVars, handVars, point, upstream, cached>>
  BY DEF ProcessStep
<1>2. UNCHANGED <<backlog, running, status, ask, outcome, size, got, closed>>
  BY <1>1 DEF lineVars, handVars
<1>3. /\ caching' \in {"off", "memory", "opening", "pgvector"}
      /\ opens' \in 0..MaxOpens - 1
      /\ process' \in {"starting", "interrupted", "serving", "closing",
                      "stopping", "exited", "killed"}
  BY OpensAssumption DEF ProcessStep, MainProceeds, Fatal, CacheOpens, CacheFails, Serve,
     Signal, ShutdownDone, ShutdownTimeout, StopDone
<1>4. Types'
  BY <1>1, <1>2, <1>3, LineUnchanged DEF lineVars
<1>5. \A r \in Requests : Life(r)' /\ Held(r)'
  BY <1>1, <1>2 DEF Life, Held, Streams
<1>6. \A e \in cached' : Settled(e)'
  BY <1>1, <1>2 DEF Settled, Streams, BypassCache
<1>7. Quiet'
  <2>1. \A r \in Requests : Active(r)' <=> Active(r)
    BY <1>1 DEF Active
  <2>2. process' = "stopping" => \A r \in Requests : ~Active(r)
    BY DEF ProcessStep, MainProceeds, Fatal, CacheOpens, CacheFails, Serve, Signal,
       ShutdownDone, ShutdownTimeout, StopDone, Quiet, Starting
  <2>3. process' = "exited" => backlog = <<>> /\ \A r \in Requests : ~Active(r)
    BY DEF ProcessStep, MainProceeds, Fatal, CacheOpens, CacheFails, Serve, Signal,
       ShutdownDone, ShutdownTimeout, StopDone, Quiet, Starting
  <2>4. QED
    BY <1>2, <2>1, <2>2, <2>3 DEF Quiet
<1>8. QED
  BY <1>4, <1>5, <1>6, <1>7

LEMMA Inductive == IInv /\ [Next]_vars => IInv'
<1> SUFFICES ASSUME IInv, [Next]_vars PROVE IInv'
  OBVIOUS
<1>1. CASE Next
  BY <1>1, RequestKeeps, StartKeeps, ProcessKeeps DEF Next
<1>2. CASE UNCHANGED vars
  <2>1. /\ UNCHANGED <<backlog, running, status, ask, outcome, size, got, closed>>
        /\ UNCHANGED <<point, upstream, cached, mode, caching, opens, process>>
    BY <1>2 DEF vars, lineVars, handVars, procVars
  <2>2. Types'
    BY <2>1, LineUnchanged DEF IInv, Types, TypeOK, lineVars
  <2>3. QED
    BY <2>1, <2>2 DEF IInv, Life, Held, Settled, Quiet, Active, Streams, BypassCache
<1>3. QED
  BY <1>1, <1>2

THEOREM InvariantHolds == Spec => []IInv
BY Initial, Inductive, PTL DEF Spec

\* The types of handlers, jobs, cache and process (handler.go, main.go).
THEOREM TypeCorrect == Spec => []TypeOK
<1>1. IInv => TypeOK
  BY DEF IInv, Types
<1>2. QED
  BY <1>1, InvariantHolds, PTL

\* Every way out of chatHandler that has a body closes it, except that of a
\* client that left before its answer came.
THEOREM BodiesAreClosed == Spec => []OnlyAbandonedStayOpen
<1>1. IInv => OnlyAbandonedStayOpen
  BY DEF IInv, Life, OnlyAbandonedStayOpen
<1>2. QED
  BY <1>1, InvariantHolds, PTL

\* cancelOnClose keeps a scheduled answer readable until its deadline.
THEOREM ScheduledBodiesLive == Spec => []ScheduledReadsUntilDeadline
<1>1. IInv => ScheduledReadsUntilDeadline
  BY DEF IInv, Held, ScheduledReadsUntilDeadline
<1>2. QED
  BY <1>1, InvariantHolds, PTL

\* serveCmd closes nothing under a handler and leaves no client waiting.
THEOREM ExitIsClean == Spec => []CleanExit
<1>1. IInv => CleanExit
  <2> SUFFICES ASSUME IInv PROVE CleanExit
    OBVIOUS
  <2>1. ASSUME process = "exited", NEW r \in Requests, status[r] = "accepted"
        PROVE  outcome[r] = "left"
    <3>1. point[r] \in {"new", "done"}
      BY <2>1 DEF IInv, Quiet, Active
    <3>2. QED
      BY <2>1, <3>1 DEF IInv, Life
  <2>2. QED
    BY <2>1 DEF IInv, Quiet, CleanExit
<1>2. QED
  BY <1>1, InvariantHolds, PTL

\* chatHandler stores nothing that may not be served to others.
THEOREM CacheIsSound == Spec => []CacheSound
<1>1. IInv => CacheSound
  BY DEF IInv, Settled, CacheSound
<1>2. QED
  BY <1>1, InvariantHolds, PTL
-----------------------------------------------------------------------------
(* The scheduler under the handlers: FifoService, and through its theorems *)
(* what it promises them.                                                  *)

\* The line with the theorems of FifoServiceProofs.
Served == INSTANCE FifoServiceProofs WITH Jobs <- Requests

Scheduled == mode = "scheduler"

\* A step of a handler, a job or the process, seen from the scheduler.
LEMMA LineSteps ==
    Scheduled /\ [Next]_vars => Scheduled' /\ [Line!Next]_Line!vars
<1> SUFFICES ASSUME Scheduled, [Next]_vars
             PROVE  Scheduled' /\ [Line!Next]_Line!vars
  OBVIOUS
<1> USE DEF Scheduled, Line!vars, lineVars
<1>1. ASSUME NEW r \in Requests, RequestStep(r), InProcess
      PROVE  Scheduled' /\ [Line!Next]_Line!vars
  <2>1. Scheduled'
    BY <1>1 DEF InProcess, procVars
  <2>2. CASE Submitted(r) \/ Shed(r) \/ JobReturns(r)
    BY <2>1, <2>2 DEF Submitted, Shed, JobReturns, Line!Next
  <2>3. CASE DoSucceeds(r) \/ DoFails(r)
    <3>1. "ok" \in Line!Answered /\ "err" \in Line!Answered
      BY DEF Line!Answered
    <3>2. QED
      BY <2>1, <2>3, <3>1 DEF DoSucceeds, DoFails, Line!Next
  <2>4. CASE \/ Unauthorized(r) \/ Arrive(r) \/ Allowed(r) \/ Refused(r) \/ Miss(r)
             \/ Hit(r) \/ Replayed(r) \/ Expire(r) \/ Abandon(r)
             \/ UpstreamFailed(r) \/ UpstreamAnswered(r) \/ Chunk(r)
             \/ WholeBody(r) \/ BodyBreaks(r) \/ Store(r) \/ CloseBody(r)
    BY <2>1, <2>4
       DEF Unauthorized, Arrive, Allowed, Refused, Miss, Hit, Replayed, Expire,
           Abandon, UpstreamFailed, UpstreamAnswered, Chunk, WholeBody, BodyBreaks,
           Store, CloseBody
  <2>5. ~DispatchDirect(r)
    BY DEF DispatchDirect
  <2>6. QED
    BY <1>1, <2>2, <2>3, <2>4, <2>5 DEF RequestStep, Proceed
<1>2. CASE InProcess /\ StartJob
  BY <1>2 DEF InProcess, procVars, StartJob, Line!Next
<1>3. CASE ProcessStep
  BY <1>3 DEF ProcessStep
<1>4. CASE UNCHANGED vars
  BY <1>4 DEF vars, procVars
<1>5. QED
  BY <1>1, <1>2, <1>3, <1>4 DEF Next

\* With the scheduler on, handlers submit, jobs end and the process stops in
\* steps that the line of FifoService allows, or that it does not see.
THEOREM HandlersUseTheLine == Spec /\ Scheduled => Line!Spec
<1>1. Init => Line!Init
  BY DEF Init
<1>2. QED
  BY <1>1, LineSteps, PTL DEF Spec, Line!Spec

\* Line and Served are the same line.
LEMMA SameLine ==
    Served!JobsAssumption /\ Served!KnobsAssumption /\ (Line!Spec => Served!Spec)
<1>1. \A S : /\ Served!IsFiniteSet(S) = IsFiniteSet(S)
             /\ Line!Cardinality(S) = Served!Cardinality(S)
  BY DEF Served!IsFiniteSet, IsFiniteSet, Line!Cardinality, Served!Cardinality
<1>2. Served!JobsAssumption /\ Served!KnobsAssumption
  BY <1>1, RequestsAssumption, KnobsAssumption
  DEF Served!JobsAssumption, Served!KnobsAssumption
<1>3. Line!Init => Served!Init
  BY DEF Line!Init, Served!Init
<1>4. [Line!Next]_Line!vars => [Served!Next]_Served!vars
  BY <1>1
  DEF Line!Next, Line!vars, Line!Accept, Line!Reject, Line!Release, Line!Start,
      Line!Finish, Line!Answered, Served!Next, Served!vars, Served!Accept,
      Served!Reject, Served!Release, Served!Start, Served!Finish, Served!Answered
<1>5. QED
  BY <1>2, <1>3, <1>4, PTL DEF Line!Spec, Served!Spec

\* Submit, the batcher and Stop between them neither lose nor double a
\* request, whatever its client, the cache and the shutdown do meanwhile.
THEOREM RequestsRunOnce == Spec /\ Scheduled => []Line!ExactlyOnce
<1>1. Served!Spec => []Served!ExactlyOnce
  BY SameLine, Served!JobsExactlyOnce, PTL
<1>2. Served!ExactlyOnce => Line!ExactlyOnce
  BY DEF Line!ExactlyOnce, Served!ExactlyOnce, Line!IsInjective,
         Served!IsInjective, Line!Range, Served!Range, Line!Outstanding,
         Served!Outstanding, Line!Answered, Served!Answered
<1>3. QED
  BY <1>1, <1>2, SameLine, HandlersUseTheLine, PTL

\* However many handlers wait and leave, the jobs they leave behind stay
\* within queue, batch and workers.
THEOREM JobsBounded == Spec /\ Scheduled => []Line!OutstandingBound
<1>1. Served!Spec => []Served!OutstandingBound
  BY SameLine, Served!OutstandingBounded, PTL
<1>2. Served!OutstandingBound => Line!OutstandingBound
  <2>1. Line!Outstanding = Served!Outstanding
    BY DEF Line!Outstanding, Served!Outstanding, Line!Range, Served!Range
  <2>2. \A S : Line!Cardinality(S) = Served!Cardinality(S)
    BY DEF Line!Cardinality, Served!Cardinality
  <2>3. QED
    BY <2>1, <2>2 DEF Line!OutstandingBound, Served!OutstandingBound
<1>3. QED
  BY <1>1, <1>2, SameLine, HandlersUseTheLine, PTL
=============================================================================
