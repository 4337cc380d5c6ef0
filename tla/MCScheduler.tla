---------------------------- MODULE MCScheduler ----------------------------
(***************************************************************************)
(* A one-time job and one that repeats twice, and two names.               *)
(***************************************************************************)
EXTENDS Scheduler, TLC

CONSTANTS a, b, once, twice

Symmetry == Permutations(Names)

MCMaxRepeats == [i \in Ids |-> IF i = once THEN 1 ELSE 2]
============================================================================
