------------------------------ MODULE LeftFold ------------------------------
(***************************************************************************)
(* A loop that takes the members of a sequence one after the other: what   *)
(* it holds after each of them.  FoldLeft says the same; this one is a     *)
(* function of the position, so that a step of the loop is an application  *)
(* of Step.                                                                *)
(***************************************************************************)
EXTENDS Naturals, Sequences

CONSTANT Step(_, _)   \* the body of the loop: what it holds, the next member

Held(base, s) ==
    LET held[n \in 0 .. Len(s)] ==
            IF n = 0 THEN base ELSE Step(held[n - 1], s[n])
    IN held

Fold(base, s) == Held(base, s)[Len(s)]

=============================================================================
