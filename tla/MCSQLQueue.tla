------------------------------ MODULE MCSQLQueue ------------------------------
(***************************************************************************)
(* Two worker processes, two subscriptions and three messages, two of them *)
(* published together.                                                     *)
(***************************************************************************)
EXTENDS SQLQueue, TLC

CONSTANTS p1, p2, s1, s2, m1, m2, m3

MCBatches == {{m1, m2}, {m3}}

Symmetry ==
    Permutations({p1, p2}) \cup Permutations({s1, s2}) \cup Permutations({m1, m2})
===============================================================================
