------------------------------ MODULE Listing -------------------------------
(***************************************************************************)
(* Sets of numbers listed in ascending order, as the Bot API lists updates *)
(* and the trigger query its rows; and the entries that pass a filter, in  *)
(* their order.                                                            *)
(***************************************************************************)
EXTENDS Integers, FiniteSets

\* the listings of S: one, when S is finite
Ascending(S) ==
    {s \in [1..Cardinality(S) -> S] :
        /\ \A x \in S : \E i \in DOMAIN s : s[i] = x
        /\ \A i, j \in DOMAIN s : i < j => s[i] < s[j]}

\* the entries of the sequence s at the positions P, as a loop with a condition
\* collects them
Picked(s, P) ==
    [k \in 1..Cardinality(P) |-> s[CHOOSE i \in P : Cardinality({j \in P : j <= i}) = k]]
=============================================================================
