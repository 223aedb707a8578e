---------------------------- MODULE NearestFrame ----------------------------
(***************************************************************************)
(* What LerobotShardDecoder promises to its user                           *)
(* (src/src/function/video/lerobot_video_frames.cpp): the targets of a     *)
(* buffer are answered one by one, in the order of their timestamps, each  *)
(* with the frame of the video that is nearest, the earlier one of two at  *)
(* the same distance, and with the pixels of that frame.  A target that no *)
(* frame matches within the tolerance is refused, never answered.          *)
(*                                                                         *)
(* Nothing here says that a file is searched, that frames before the       *)
(* target are decoded, or that a decoder goes on where the last buffer     *)
(* ended.                                                                  *)
(***************************************************************************)
EXTENDS Integers, Sequences

CONSTANTS
    Tolerance,            \* the largest distance of a matching frame
    FrameDuration,        \* 1 / fps of the dataset
    SafetyMargin          \* frames a decoder may decode beyond those its targets span

VARIABLES
    video,     \* the timestamps of the frames, and which of them are keyframes
    asked,     \* the targets of the buffer that have no answer yet
    answer,    \* the last answer
    outcome    \* "ok", or why the decoder gave up

vars == <<video, asked, answer, outcome>>

Distance(f, t) == IF video.pts[f] < t THEN t - video.pts[f] ELSE video.pts[f] - t

\* f is the nearest frame, and the first one at its distance.
IsNearest(f, t) ==
    \A g \in DOMAIN video.pts :
       \/ Distance(f, t) < Distance(g, t)
       \/ Distance(f, t) = Distance(g, t) /\ f <= g

\* A video whose frames are not closer than the frame rate says, and whose keyframes are less
\* than SafetyMargin frames apart: a seek goes back one tick too many, so at a distance of
\* SafetyMargin one frame may be missing.  Only other videos exhaust the budget of a seek.
Regular ==
    /\ \A f \in DOMAIN video.pts : f > 1 => video.pts[f] - video.pts[f - 1] >= FrameDuration
    /\ \A f \in DOMAIN video.pts :
          f >= SafetyMargin => \E k \in (f - SafetyMargin + 2)..f : k \in video.keyframes

Init == asked = <<>> /\ outcome = "ok"

\* The file is any file until a target is asked for: nothing is promised of how it came to be.
Write ==
    /\ asked = <<>> /\ answer.frame = 0
    /\ UNCHANGED <<asked, answer, outcome>>

Ask ==
    /\ asked = <<>> /\ outcome = "ok"
    /\ asked' # <<>> /\ \A i \in 2..Len(asked') : asked'[i - 1] <= asked'[i]
    /\ UNCHANGED <<video, answer, outcome>>

Answer ==
    /\ asked # <<>> /\ outcome = "ok"
    /\ \E f \in DOMAIN video.pts :
          /\ IsNearest(f, Head(asked)) /\ Distance(f, Head(asked)) <= Tolerance
          /\ answer' = [target |-> Head(asked), frame |-> f, pixels |-> f]
    /\ asked' = Tail(asked)
    /\ UNCHANGED <<video, outcome>>

Refuse ==
    /\ asked # <<>> /\ outcome = "ok"
    /\ \A f \in DOMAIN video.pts : Distance(f, Head(asked)) > Tolerance
    /\ outcome' = "unmatched" /\ UNCHANGED <<video, asked, answer>>

\* The file cannot be read, the query is interrupted, or a seek is too far from a keyframe.
GiveUp ==
    /\ outcome = "ok"
    /\ outcome' = "fault" \/ (outcome' = "budget" /\ ~Regular)
    /\ UNCHANGED <<video, asked, answer>>

Next == Write \/ Ask \/ Answer \/ Refuse \/ GiveUp
Spec == Init /\ [][Next]_vars
=============================================================================
