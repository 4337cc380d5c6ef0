------------------------------- MODULE MCMDP -------------------------------
(***************************************************************************)
(* Two services, three requests for the first one and one for the second,  *)
(* a ZeroMQ worker for each, and pools that grow from one worker to two.   *)
(***************************************************************************)
EXTENDS MDP, TLC

CONSTANTS s1, s2, r1, r2, r3, r4, c1, c2

Symmetry == Permutations({r1, r2, r3})

MCDictOrder == <<s1, s2>>
MCFor == [r \in Requests |-> IF r = r4 THEN s2 ELSE s1]
MCServes == [c \in Connections |-> IF c = c1 THEN s1 ELSE s2]
============================================================================
