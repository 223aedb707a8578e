------------------------ MODULE MC_VideoRoundTrip ------------------------
EXTENDS VideoRoundTrip

\* Two episodes, the container of the second one starting late.
MCFrameCounts == <<2, 2>>
MCStartTimes == <<0, 1>>

Video(pts, keyframes, delay) ==
    [pts |-> pts, keyframes |-> keyframes, delay |-> delay, shows |-> <<>>]

\* Regular videos with keyframes every one or two frames, a codec without and with delay, a
\* video of a variable frame rate, one that starts late, one with too few keyframes, and one without frames.
MCVideos ==
    {Video(<<0, 8, 16, 24, 32>>, {1, 3, 5}, 0), Video(<<0, 8, 16, 24, 32>>, {1, 3, 5}, 2),
     Video(<<4, 8, 20, 24, 36>>, {1, 4}, 1), Video(<<12, 20, 28>>, {1, 2}, 1),
     Video(<<0, 8, 16, 24, 32>>, {1}, 1),
     Video(<<>>, {}, 0)}

Times == {0, 6, 9, 12, 17, 20, 24, 26, 34}
MCRequests ==
    UNION {[1..n -> Times] : n \in 1..2} \cup {<<0, 12, 34>>, <<26, 17, 20>>, <<6, 6, 17>>, <<0, 8, 16, 24>>}
==========================================================================
