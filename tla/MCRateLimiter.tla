--------------------------- MODULE MCRateLimiter ---------------------------
(***************************************************************************)
(* RateLimiter for TLC: two replicas, one of them a tick ahead, or one     *)
(* replica with two callers and a perfect clock.                           *)
(***************************************************************************)
EXTENDS RateLimiter, TLC

CONSTANTS c1, c2, g1, g2

MCCallers  == {c1, c2}
MCReplicas == {g1, g2}
MCHome     == (c1 :> g1) @@ (c2 :> g2)
MCOffset   == (g1 :> 0) @@ (g2 :> 1)

MCOneReplica == {g1}
MCOneHome    == [c \in MCCallers |-> g1]
MCNoOffset   == [g \in MCOneReplica |-> 0]
=============================================================================
