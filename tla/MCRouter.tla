------------------------------ MODULE MCRouter ------------------------------
(***************************************************************************)
(* Router for TLC.  The second request comes when backend 2 is not being   *)
(* probed, and backend 2 keeps the health it has then: one request meets   *)
(* two backends that flap, two requests a backend that flaps beside one    *)
(* that is healthy or not.                                                 *)
(***************************************************************************)
EXTENDS Router, TLC

CONSTANTS r1, r2, p1

MCRequests   == {r1, r2}
MCOneRequest == {r1}
MCProbes     == {p1}

SecondSettled ==
    /\ probe'[2] # probe[2] => point[r2] = "new"
    /\ point'[r2] # "new" => probe[2][p1] = "idle"

MCSpec == Init /\ [][Next /\ SecondSettled]_vars /\ Fairness
=============================================================================
