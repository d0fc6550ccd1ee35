-------------------------- MODULE SchedulerConfig --------------------------
(***************************************************************************)
(* scheduler.Config as New leaves it, and the jobs callers may submit: the *)
(* constants that the scheduler and the line it implements share.          *)
(***************************************************************************)
EXTENDS Integers, FiniteSets

CONSTANTS
    Jobs,            \* the jobs callers may submit, each at most once
    MaxBatchSize,    \* Config.MaxBatchSize
    QueueCapacity,   \* Config.QueueCapacity: the buffer of the queue channel
    Workers          \* Config.Workers: slots of the worker semaphore

ASSUME JobsAssumption == IsFiniteSet(Jobs)

\* New replaces every non-positive setting by a positive default.
ASSUME KnobsAssumption == /\ MaxBatchSize \in Nat \ {0}
                          /\ QueueCapacity \in Nat \ {0}
                          /\ Workers \in Nat \ {0}
=============================================================================
