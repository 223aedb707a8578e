------------------------- MODULE MC_TimestampLookup -------------------------
(* Instances of TimestampLookup for TLC. *)
EXTENDS TimestampLookup, TLC

CONSTANTS w1, w2, a, b

MCWorkers == {w1, w2}
TwoShards == {a, b}
\* A file grows when it is rewritten.
Growing == [v \in 0..LastVersion |-> v + 1]
MCSymmetry == Permutations(MCWorkers)
=============================================================================
