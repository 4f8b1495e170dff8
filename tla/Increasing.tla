----------------------------- MODULE Increasing -----------------------------
(* The members of a finite set of numbers from the least to the greatest.   *)
EXTENDS Naturals, FiniteSets

InOrder(S) ==
    [k \in 1 .. Cardinality(S) |->
        CHOOSE i \in S : Cardinality({j \in S : j <= i}) = k]

\* The members of s at the positions S, in their order.
At(s, S) == [k \in 1 .. Cardinality(S) |-> s[InOrder(S)[k]]]

=============================================================================
