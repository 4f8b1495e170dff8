--------------------------- MODULE MCQuerySignals ---------------------------
(* Values for model checking QuerySignals: two clients and one handler, or *)
(* one client and two.                                                     *)
EXTENDS QuerySignals, TLC

CONSTANTS c1, c2, r0, r1, r2
MCClient == {c1, c2}
MCRow == {r0, r1, r2}
MCStored == {r0}
MCObject == (c1 :> r1) @@ (c2 :> r2)
MCSettings == {[clients |-> {c1, c2}, handlers |-> 1],
               [clients |-> {c1}, handlers |-> 2]}
=============================================================================
