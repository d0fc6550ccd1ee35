---------------------------- MODULE FifoService ----------------------------
(***************************************************************************)
(* What the scheduler promises its callers, without batches, timers or     *)
(* goroutines: a bounded waiting line served first come, first served by   *)
(* at most Workers concurrent calls.                                       *)
(*                                                                         *)
(* A submission is either accepted or shed at once.  An accepted job       *)
(* starts when it heads the line and a worker slot is free, is answered    *)
(* exactly once, and gives the slot back after that.  Module Scheduler     *)
(* implements this one: see ImplementsFifo there.                          *)
(***************************************************************************)
EXTENDS SchedulerConfig, Sequences, Functions

VARIABLES
    backlog,   \* accepted jobs that have not started, oldest first
    running,   \* jobs that hold a worker slot
    status     \* what each job's caller can know

vars == <<backlog, running, status>>

Answered == {"ok", "err"}
Status   == {"new", "accepted", "rejected"} \cup Answered

Init ==
    /\ backlog = <<>>
    /\ running = {}
    /\ status = [j \in Jobs |-> "new"]

\* The line holds at most a full queue and one batch taken out of it.
Accept(j) ==
    /\ status[j] = "new"
    /\ Len(backlog) < QueueCapacity + MaxBatchSize
    /\ backlog' = Append(backlog, j)
    /\ status' = [status EXCEPT ![j] = "accepted"]
    /\ UNCHANGED running

\* Load is shed only when at least QueueCapacity jobs already wait.
Reject(j) ==
    /\ status[j] = "new"
    /\ Len(backlog) >= QueueCapacity
    /\ status' = [status EXCEPT ![j] = "rejected"]
    /\ UNCHANGED <<backlog, running>>

Start ==
    /\ backlog # <<>>
    /\ Cardinality(running) < Workers
    /\ running' = running \cup {Head(backlog)}
    /\ backlog' = Tail(backlog)
    /\ UNCHANGED status

Finish(j, outcome) ==
    /\ j \in running
    /\ status[j] = "accepted"
    /\ status' = [status EXCEPT ![j] = outcome]
    /\ UNCHANGED <<backlog, running>>

Release(j) ==
    /\ j \in running
    /\ status[j] \in Answered
    /\ running' = running \ {j}
    /\ UNCHANGED <<backlog, status>>

Next ==
    \/ \E j \in Jobs : Accept(j) \/ Reject(j) \/ Release(j)
    \/ \E j \in Jobs, outcome \in Answered : Finish(j, outcome)
    \/ Start

Spec == Init /\ [][Next]_vars

-----------------------------------------------------------------------------

TypeOK ==
    /\ backlog \in Seq(Jobs)
    /\ running \in SUBSET Jobs
    /\ status \in [Jobs -> Status]

\* The jobs accepted and not yet done with: in the line or in a slot.
Outstanding == Range(backlog) \cup running

\* Every accepted job without an answer is in the line or in a slot, in the
\* line at most once and never in both, so that it is started exactly once
\* (scheduler.go: the job moves from queue to batch to worker).
ExactlyOnce ==
    /\ IsInjective(backlog)
    /\ \A j \in Range(backlog) : status[j] = "accepted" /\ j \notin running
    /\ \A j \in running : status[j] \in {"accepted"} \cup Answered
    /\ \A j \in Jobs : status[j] = "accepted" => j \in Outstanding

\* What bounds the memory a burst of callers can pin: at no time are more
\* jobs outstanding than queue, one batch and worker slots together hold.
OutstandingBound ==
    Cardinality(Outstanding) <= QueueCapacity + MaxBatchSize + Workers
=============================================================================
