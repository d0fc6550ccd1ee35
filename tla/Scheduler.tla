----------------------------- MODULE Scheduler -----------------------------
(***************************************************************************)
(* internal/scheduler/scheduler.go: callers that Submit jobs to a bounded  *)
(* channel, the one batcher goroutine that groups them by size or by time  *)
(* and hands each batch to the worker semaphore, one goroutine per started *)
(* job, the runtime's timer, and Stop.                                     *)
(*                                                                         *)
(* The batcher's select loop is modelled branch by branch.  flush and      *)
(* dispatchBatch are a loop that blocks on the worker semaphore: while     *)
(* "pending" holds the rest of the batch, the batcher does nothing else.   *)
(*                                                                         *)
(* The timer is time.Timer as go.mod's language version 1.22 gets it: a    *)
(* channel of one tick, filled by the runtime in two steps.  It first      *)
(* takes the timer off its heap (from then on timer.Stop returns FALSE)    *)
(* and sends the tick after that, so that the batcher's "stop, drain,      *)
(* reset" can run between the two and a late tick of an older window may   *)
(* still arrive.                                                           *)
(***************************************************************************)
EXTENDS SchedulerConfig, Sequences, Functions

VARIABLES
    queue,     \* s.queue, the buffered channel
    batch,     \* runBatcher's batch
    pending,   \* what dispatchBatch has still to start of its argument b
    running,   \* jobs whose goroutine holds a slot of s.workers
    status,    \* per job: submitted, shed, or how its Done was closed
    batcher,   \* where the batcher is: select loop, drain loop, or returned
    armed,     \* the timer is on the runtime's heap
    sends,     \* expired timers whose tick the runtime has not sent yet
    tick,      \* timer.C holds a tick
    stop       \* "no", "called" (s.stopCh closed), "returned"

timerVars == <<armed, sends, tick>>
jobVars   == <<queue, batch, pending, running, status>>
vars      == <<queue, batch, pending, running, status, batcher,
               armed, sends, tick, stop>>

Answered == {"ok", "err"}
Status   == {"new", "accepted", "rejected"} \cup Answered

Init ==
    /\ queue = <<>> /\ batch = <<>> /\ pending = <<>>
    /\ running = {}
    /\ status = [j \in Jobs |-> "new"]
    /\ batcher = "select"
    /\ armed = FALSE /\ sends = 0 /\ tick = FALSE
    /\ stop = "no"

-----------------------------------------------------------------------------
(* Submit: a non-blocking send.  Nothing in it looks at stopCh.            *)

\* Mutation: one job more than the channel holds.
AcceptOneTooMany(j) ==
    /\ status[j] = "new"
    /\ Len(queue) <= QueueCapacity
    /\ queue' = Append(queue, j)
    /\ status' = [status EXCEPT ![j] = "accepted"]
    /\ UNCHANGED <<batch, pending, running, batcher, timerVars, stop>>

Accept(j) ==
    /\ status[j] = "new"
    /\ Len(queue) < QueueCapacity
    /\ queue' = Append(queue, j)
    /\ status' = [status EXCEPT ![j] = "accepted"]
    /\ UNCHANGED <<batch, pending, running, batcher, timerVars, stop>>

Reject(j) ==
    /\ status[j] = "new"
    /\ Len(queue) = QueueCapacity
    /\ status' = [status EXCEPT ![j] = "rejected"]
    /\ UNCHANGED <<queue, batch, pending, running, batcher, timerVars, stop>>

-----------------------------------------------------------------------------
(* The runtime's timer.                                                    *)

TimerExpire ==
    /\ armed
    /\ armed' = FALSE
    /\ sends' = sends + 1
    /\ UNCHANGED <<jobVars, batcher, tick, stop>>

\* A tick that finds the channel full is dropped.
TimerSend ==
    /\ sends > 0
    /\ sends' = sends - 1
    /\ tick' = TRUE
    /\ UNCHANGED <<jobVars, batcher, armed, stop>>

\* Mutation: the window is reset only if the timer was still running.
RestartIfRunning ==
    /\ tick' = (armed /\ tick)
    /\ UNCHANGED <<armed, sends>>

\* timer.Stop, the drain of timer.C when Stop was too late, timer.Reset.
RestartTimer ==
    /\ tick' = (armed /\ tick)
    /\ armed' = TRUE
    /\ UNCHANGED sends

-----------------------------------------------------------------------------
(* The batcher.  It is back in its select when dispatchBatch has started   *)
(* every job it was given.                                                 *)

Selecting == batcher = "select" /\ pending = <<>>

\* Mutation: flush dispatches the batch and keeps it.
FlushKeepsBatch == pending' = batch /\ UNCHANGED batch

\* flush hands over the batch, possibly an empty one, and starts a new one.
Flush == pending' = batch /\ batch' = <<>>

\* Mutation: the batch is found full only when one more job comes.
ReceiveLate ==
    /\ Selecting
    /\ queue # <<>>
    /\ queue' = Tail(queue)
    /\ LET grown == Append(batch, Head(queue))
       IN  IF Len(batch) >= MaxBatchSize
           THEN batch' = <<>> /\ pending' = grown
           ELSE batch' = grown /\ UNCHANGED pending
    /\ IF batch = <<>> THEN RestartTimer ELSE UNCHANGED timerVars
    /\ UNCHANGED <<running, status, batcher, stop>>

\* The receive branch: the first job of a batch restarts the timer, a full
\* batch is flushed at once.
Receive ==
    /\ Selecting
    /\ queue # <<>>
    /\ queue' = Tail(queue)
    /\ LET grown == Append(batch, Head(queue))
       IN  IF Len(grown) >= MaxBatchSize
           THEN batch' = <<>> /\ pending' = grown
           ELSE batch' = grown /\ UNCHANGED pending
    /\ IF batch = <<>> THEN RestartTimer ELSE UNCHANGED timerVars
    /\ UNCHANGED <<running, status, batcher, stop>>

\* The timer branch flushes what there is, possibly nothing.
TimerFlush ==
    /\ Selecting
    /\ tick
    /\ tick' = FALSE
    /\ Flush
    /\ UNCHANGED <<queue, running, status, batcher, armed, sends, stop>>

\* Mutation: the stop branch forgets the batch being collected.
StopWithoutFlush ==
    /\ Selecting
    /\ stop # "no"
    /\ batcher' = "drain"
    /\ UNCHANGED <<jobVars, timerVars, stop>>

\* Mutation: Stop is noticed only while a batch is being collected.
StopSeenIfCollecting ==
    /\ Selecting
    /\ stop # "no" /\ batch # <<>>
    /\ batcher' = "drain"
    /\ Flush
    /\ UNCHANGED <<queue, running, status, timerVars, stop>>

\* The stop branch: flush, then drain the queue one job at a time.
StopSeen ==
    /\ Selecting
    /\ stop # "no"
    /\ batcher' = "drain"
    /\ Flush
    /\ UNCHANGED <<queue, running, status, timerVars, stop>>

DrainReceive ==
    /\ batcher = "drain" /\ pending = <<>>
    /\ queue # <<>>
    /\ queue' = Tail(queue)
    /\ pending' = <<Head(queue)>>
    /\ UNCHANGED <<batch, running, status, batcher, timerVars, stop>>

\* The drain loop finds the queue empty: the batcher returns and its defer
\* closes s.stopped.
DrainExit ==
    /\ batcher = "drain" /\ pending = <<>>
    /\ queue = <<>>
    /\ batcher' = "exited"
    /\ UNCHANGED <<jobVars, timerVars, stop>>

\* Mutation: nothing waits for the semaphore.
AcquireUnbounded ==
    /\ pending # <<>>
    /\ running' = running \cup {Head(pending)}
    /\ pending' = Tail(pending)
    /\ UNCHANGED <<queue, batch, status, batcher, timerVars, stop>>

\* dispatchBatch: block until the semaphore has room, then start the job.
Acquire ==
    /\ pending # <<>>
    /\ Cardinality(running) < Workers
    /\ running' = running \cup {Head(pending)}
    /\ pending' = Tail(pending)
    /\ UNCHANGED <<queue, batch, status, batcher, timerVars, stop>>

-----------------------------------------------------------------------------
(* The goroutine of a started job: the dispatcher's Do returns, the result *)
(* is filled in and Done closed, and the deferred receive frees the slot.  *)

Finish(j, outcome) ==
    /\ j \in running
    /\ status[j] = "accepted"
    /\ status' = [status EXCEPT ![j] = outcome]
    /\ UNCHANGED <<queue, batch, pending, running, batcher, timerVars, stop>>

\* Mutation: the error path returns without giving the slot back.
ReleaseOnSuccess(j) ==
    /\ j \in running
    /\ status[j] = "ok"
    /\ running' = running \ {j}
    /\ UNCHANGED <<queue, batch, pending, status, batcher, timerVars, stop>>

Release(j) ==
    /\ j \in running
    /\ status[j] \in Answered
    /\ running' = running \ {j}
    /\ UNCHANGED <<queue, batch, pending, status, batcher, timerVars, stop>>

-----------------------------------------------------------------------------
(* Stop closes stopCh once and waits for the batcher, not for the workers. *)

StopCall ==
    /\ stop = "no"
    /\ stop' = "called"
    /\ UNCHANGED <<jobVars, timerVars, batcher>>

StopReturn ==
    /\ stop = "called"
    /\ batcher = "exited"
    /\ stop' = "returned"
    /\ UNCHANGED <<jobVars, timerVars, batcher>>

-----------------------------------------------------------------------------

Next ==
    \/ \E j \in Jobs : Accept(j) \/ Reject(j) \/ Release(j)
    \/ \E j \in Jobs, outcome \in Answered : Finish(j, outcome)
    \/ TimerExpire \/ TimerSend
    \/ Receive \/ TimerFlush \/ StopSeen \/ DrainReceive \/ DrainExit \/ Acquire
    \/ StopCall \/ StopReturn

Spec == Init /\ [][Next]_vars

\* What the runtime and the code's own timeouts guarantee.  Goroutines that
\* can run do run and timers go off (weak fairness).  A select with several
\* ready cases chooses among them at random, so no ready case loses forever
\* (strong fairness of the branches).  Do returns because its context ends
\* after RequestTimeout.  Nobody has to submit a job or call Stop.
Fairness ==
    /\ WF_vars(TimerExpire) /\ WF_vars(TimerSend)
    /\ SF_vars(Receive) /\ SF_vars(TimerFlush) /\ SF_vars(StopSeen)
    /\ WF_vars(DrainReceive) /\ WF_vars(DrainExit) /\ WF_vars(Acquire)
    /\ WF_vars(StopReturn)
    /\ \A j \in Jobs : /\ WF_vars(\E outcome \in Answered : Finish(j, outcome))
                       /\ WF_vars(Release(j))

FairSpec == Spec /\ Fairness

-----------------------------------------------------------------------------

\* With the bounds of the lists: the channel's buffer, and a batch that is
\* flushed as soon as it is full.
TypeOK ==
    /\ queue \in Seq(Jobs) /\ Len(queue) <= QueueCapacity
    /\ batch \in Seq(Jobs) /\ Len(batch) < MaxBatchSize
    /\ pending \in Seq(Jobs) /\ Len(pending) <= MaxBatchSize
    /\ running \in SUBSET Jobs
    /\ status \in [Jobs -> Status]
    /\ batcher \in {"select", "drain", "exited"}
    /\ armed \in BOOLEAN
    /\ sends \in Nat
    /\ tick \in BOOLEAN
    /\ stop \in {"no", "called", "returned"}

\* The line of accepted jobs that no worker has started, oldest first.
Waiting == pending \o batch \o queue

\* The scheduler as its callers see it: a bounded line served in order.
Fifo == INSTANCE FifoService WITH backlog <- Waiting

\* Every accepted job without an answer sits in exactly one of queue, batch,
\* the rest of a flushed batch, or a worker slot, and in it once: no flush,
\* drain or shutdown loses or doubles a job.
ExactlyOnce == Fifo!ExactlyOnce

\* The callers the scheduler can hold at a time are bounded by its queue, one
\* batch and its worker slots, whatever flushes and the drain interleave.
OutstandingBound == Fifo!OutstandingBound

\* No lost wake-up: while a batch is being collected, its time window is
\* running, has expired, or has a tick waiting, whatever ticks an earlier
\* window left behind when its batch was flushed by size.
WakeupDue == batch # <<>> => armed \/ sends > 0 \/ tick

\* When the batcher returns nothing waits any more, the batch it was
\* collecting when Stop was called included: only jobs submitted after that
\* can be left behind.
DrainedAtExit ==
    [][batcher # "exited" /\ batcher' = "exited" => Waiting' = <<>>]_vars

\* Every behaviour of the scheduler is one of the first come, first served
\* line: jobs start in the order they were accepted, with no more than
\* Workers in Do at once, and are shed only with QueueCapacity jobs waiting.
ImplementsFifo == Fifo!Spec

\* A job accepted before Stop is called is answered, undersized batches,
\* full worker slots and a concurrent shutdown notwithstanding.
AcceptedBeforeStopAnswered ==
    \A j \in Jobs :
        (stop = "no" /\ status[j] = "accepted") ~> (status[j] \in Answered)

\* Stop returns, given that callers submit finitely many jobs.
StopReturns == (stop = "called") ~> (stop = "returned")
=============================================================================
