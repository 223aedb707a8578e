---------------------------- MODULE MC_CopyWriter ----------------------------
(* Instances of CopyWriter for TLC. *)
EXTENDS CopyWriter, TLC

CONSTANTS front, wrist, pick, place

OneVideo == {front}
TwoTasks == {pick, place}
SmallOrLarge == {1, 2}
=============================================================================
