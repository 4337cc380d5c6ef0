--------------------------- MODULE MCInRAMBacklog ---------------------------
(* Instances of InRAMBacklog for TLC: a publication of GD messages only, a *)
(* pair of messages and a single one, any of which may come first.  The    *)
(* pair fills a queue, which has room for two messages.                    *)
EXTENDS InRAMBacklog, TLC

CONSTANTS m1, m2, m3

SomeBatches == {{}, {m1, m2}, {m3}}

SubKeySymmetry == Permutations(SubKeys)
=============================================================================
