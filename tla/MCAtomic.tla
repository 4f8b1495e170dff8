------------------------------ MODULE MCAtomic ------------------------------
(* Values for model checking Atomic. *)
EXTENDS Atomic

CONSTANTS r1, r2
MCRow == {r1, r2}

=============================================================================
