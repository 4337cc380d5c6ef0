----------------------------- MODULE MCDelivery -----------------------------
(* Instances of Delivery for TLC.  Messages are numbers; what differs from *)
(* run to run is which are GD, how they are batched, how their sort keys   *)
(* compare (messages of one publication may well have equal keys), and     *)
(* which failures may happen.                                              *)
EXTENDS Delivery

NoFaults == [f \in Faults |-> 0]
AllFaults == [f \in Faults |-> 1]
StopOnly == [NoFaults EXCEPT !["stop"] = 1]
TransientFaults == [NoFaults EXCEPT !["deliver"] = 1, !["confirm"] = 1]

\* Messages of one publication compare equal, if their priority is the same.
SameKeys == [m \in Msgs |-> 1]
\* The last message compares equal to no other one, and comes first.
LastAlone == [m \in Msgs |-> IF \E n \in Msgs : n > m THEN 1 ELSE 0]
\* Odd messages compare equal, even ones to no other.
OddsEqual == [m \in Msgs |-> IF m % 2 = 1 THEN 3 ELSE m]

Singles == {{m} : m \in Msgs}
OneBatch == {Msgs}
TwoBatches == {{1, 3}, {2, 4}}
ThreeBatches == {{1, 3, 4}, {2}, {5}}

ToolSymmetry == Permutations(Tools)
=============================================================================
