--------------------------- MODULE MC_NestedQuery ---------------------------
(* Instances of NestedQuery for TLC. *)
EXTENDS NestedQuery, TLC

CONSTANTS q1, q2, q3, c1, c2

ThreeQueries == {q1, q2, q3}
TwoCallers == {c1, c2}
\* Two threads of one caller, and one of another.
Shared == (q1 :> c1) @@ (q2 :> c1) @@ (q3 :> c2)
=============================================================================
