------------------------------ MODULE Ordering ------------------------------
(* Finite sets of numbers in ascending order.                              *)
EXTENDS Naturals, FiniteSets

\* The members of S, the least one first.
Ascending(S) == CHOOSE s \in [1..Cardinality(S) -> S] :
                    \A i, j \in 1..Cardinality(S) : i < j => s[i] < s[j]
=============================================================================
