----------------------------- MODULE MCGateway -----------------------------
(***************************************************************************)
(* Gateway for TLC: two requests of different kinds, in either mode.       *)
(* A handler is led by the kind of its own request.  It meets others in    *)
(* the line, where kinds do not count, and in the cache, which a request   *)
(* with no-store passes by: so one of them is tried beside one request of  *)
(* another kind.  Requests are interchangeable, so their kinds are taken   *)
(* in one order.  no-store keeps a request from the cache, whatever the    *)
(* store: it is tried with one of them.                                    *)
(***************************************************************************)
EXTENDS Gateway

CONSTANTS r1, r2

MCRequests == {r1, r2}

KindsInOrder == <<{}, {"stream"}, {"stream", "no-store"}>>

MCKinds == Range(KindsInOrder)

MCInit ==
    /\ Init
    /\ \E i \in 1..2 :
          ask[r1] = KindsInOrder[i] /\ ask[r2] = KindsInOrder[i + 1]
    /\ caching # "memory" => \A r \in Requests : ~BypassCache(r)

MCSpec == MCInit /\ [][Next]_vars /\ Fairness
=============================================================================
