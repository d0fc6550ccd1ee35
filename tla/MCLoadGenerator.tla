-------------------------- MODULE MCLoadGenerator --------------------------
(***************************************************************************)
(* LoadGenerator for TLC: two workers with a call each.                    *)
(***************************************************************************)
EXTENDS LoadGenerator

CONSTANTS w1, w2

MCWorkers == {w1, w2}
MCCalls   == MCWorkers \X (1..MaxCalls)
=============================================================================
