--------------------------- MODULE TemporalTargets ---------------------------
(***************************************************************************)
(* The frame at a time before or after another frame                       *)
(* (src/src/function/temporal/lerobot_temporal_targets.cpp): a delta of    *)
(* delta_timestamps is a number of frames, and the episode ends the        *)
(* search.  VideoTargets uses the deltas too, and composes the operator    *)
(* lerobot_temporal_targets with its own.                                  *)
(*                                                                         *)
(* A delta is a number of 1/Scale frames; integers have Width bits.  The   *)
(* doubles of the code have no fraction where they leave the range of the  *)
(* integers, so neither have the deltas there.                             *)
(***************************************************************************)
EXTENDS Integers, Sequences

CONSTANTS
    Width,                \* the bits of the integers of a row
    Scale                 \* parts of a frame that a delta may name

ASSUME WidthAssumption == Width \in Nat \ {0} /\ Scale \in Nat \ {0}

\* Two's complement integers of Width bits.
Wrap(x) == ((x + 2 ^ (Width - 1)) % 2 ^ Width) - 2 ^ (Width - 1)

\* Mutant: halves are rounded up.
RoundHalfUp(delta) == (2 * delta + Scale) \div (2 * Scale)

\* Python's round().
RoundHalfToEven(delta) ==
    LET lower == delta \div Scale
        fraction == delta % Scale
    IN IF 2 * fraction < Scale \/ (2 * fraction = Scale /\ lower % 2 = 0) THEN lower ELSE lower + 1

Error(delta) ==
    LET canonical == RoundHalfToEven(delta) * Scale
    IN IF delta < canonical THEN canonical - delta ELSE delta - canonical

\* GetLerobotTemporalDeltas accepts a delta that fits and is near a frame.
DeltaAccepted(delta, tolerance) ==
    /\ delta >= -(2 ^ (Width - 1)) * Scale /\ delta < 2 ^ (Width - 1) * Scale
    /\ Error(delta) <= tolerance

\* The target of frame frame_index of an episode, or the end that the offset passes.
TemporalTarget(frame_index, offset, length) ==
    LET last == length - 1
    IN IF offset < Wrap(-frame_index) THEN [frame |-> 0, padding |-> TRUE]
       ELSE IF offset > Wrap(last - frame_index) THEN [frame |-> last, padding |-> TRUE]
       ELSE [frame |-> Wrap(frame_index + offset), padding |-> FALSE]
=============================================================================
