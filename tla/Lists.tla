------------------------------- MODULE Lists -------------------------------
(***************************************************************************)
(* Lists that Python code removes elements from.                           *)
(***************************************************************************)
EXTENDS Naturals, Sequences, FiniteSets

\* What is left of list l when only positions K are kept.
Sublist(l, K) ==
    [n \in 1..Cardinality(K) |-> l[CHOOSE i \in K : Cardinality({j \in K : j <= i}) = n]]
============================================================================
