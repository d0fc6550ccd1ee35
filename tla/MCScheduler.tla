---------------------------- MODULE MCScheduler ----------------------------
(***************************************************************************)
(* Scheduler for TLC.  Jobs are interchangeable: they are taken to be      *)
(* submitted in the order of their names.  Every behaviour of Scheduler is *)
(* one of these with its jobs renamed, and no property tells jobs apart,   *)
(* so that this loses nothing and, unlike a symmetry set, is sound for     *)
(* liveness.                                                               *)
(***************************************************************************)
EXTENDS Scheduler, TLC

CONSTANTS j1, j2, j3, j4, j5

InOrder == <<j1, j2, j3, j4, j5>>

MCJobs == {j1, j2, j3, j4, j5}

SubmitInOrder ==
    \A i \in 1..4 : status'[InOrder[i + 1]] # "new" => status'[InOrder[i]] # "new"

MCNext == Next /\ SubmitInOrder

MCSpec == Init /\ [][MCNext]_vars /\ Fairness
=============================================================================
