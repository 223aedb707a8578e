-------------------------- MODULE MC_VideoTargets --------------------------
(* An instance of VideoTargets for TLC. *)
EXTENDS VideoTargets

CONSTANTS u1, u2, s1, s2

TwoUsers == {u1, u2}
MCShards == {s1, s2}

Row(shard, pixels, frame, length, delta_index) ==
    [shard |-> shard, pixels |-> pixels, frame |-> frame, length |-> length, delta_index |-> delta_index,
     routed |-> TRUE, found |-> TRUE]

\* Deltas of whole frames, at the ends of four bit integers too, and of a half and one and a
\* half frames, which only a large tolerance accepts.
Whole == <<4, 28, -32, -4, 12>>
MCBinds ==
    [operator : {"lerobot_video_targets", "lerobot_temporal_targets"},
     deltas : {Whole}, tolerance : {1}]
    \cup [operator : {"lerobot_temporal_targets"}, deltas : {<<2, 6, -2, -6, 5>>}, tolerance : {1, 2}]

\* Chunks of one to five rows over both video files, with images of one to three bytes; and
\* chunks with a row that is wrong.
MCChunks ==
    {<<Row(s1, 1, 2, 4, 1), Row(s2, 3, 0, 4, 2), Row(s1, 1, 3, 4, 3), Row(s1, 2, 1, 4, 4)>>,
     <<Row(s1, 1, 6, 7, 2), Row(s2, 2, 6, 7, 3), Row(s1, 1, 0, 7, 3)>>,
     <<Row(s2, 1, 5, 7, 5), [Row(s2, 1, 2, 4, 1) EXCEPT !.found = FALSE]>>,
     <<Row(s2, 1, 5, 5, 5)>>}
=============================================================================
