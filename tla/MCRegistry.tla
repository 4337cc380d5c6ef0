------------------------------ MODULE MCRegistry ------------------------------
(***************************************************************************)
(* Server A with one worker and server B with two, the second of which has *)
(* the same PID as the worker of A.                                        *)
(***************************************************************************)
EXTENDS Registry

CONSTANTS A, B, A1, B1, B2, r, w

MCServerOf == [p \in {A1, B1, B2} |-> IF p = A1 THEN A ELSE B]
MCBasePid == [p \in {A1, B1, B2} |-> IF p = B1 THEN 2 ELSE 1]
===============================================================================
