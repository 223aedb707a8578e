---------------------------- MODULE VideoRoundTrip ----------------------------
(***************************************************************************)
(* A video file from the frames of its episodes to the frames a query gets *)
(* of it: COPY encodes and concatenates the episodes (VisualWriter), and   *)
(* when that succeeded a later query opens the file and looks for targets  *)
(* (ShardDecoder).  The query may also open a file of another program.     *)
(*                                                                         *)
(* A frame of the file that COPY wrote is shown at its timestamp times the *)
(* duration of a frame; every Gop-th frame of an episode is a keyframe.    *)
(***************************************************************************)
EXTENDS VisualWriter, ShardDecoder

CONSTANTS
    Videos,               \* files of other programs
    Gop                   \* options.encoding.rgb_gop

ASSUME GopAssumption == Gop \in Nat \ {0}
ASSUME VideosAssumption == \A v \in Videos : IsVideo(v) /\ v.shows = <<>>
\* The encoder counts time in frames; its container uses that unit or a fraction of it.
ASSUME TimeBaseAssumption == FrameDuration % Tick = 0

VARIABLE query            \* "COPY" or "SELECT"

NoVideo == [pts |-> <<>>, keyframes |-> {}, delay |-> 0, shows |-> <<>>]

vars == <<query, writerVars, decoderVars>>

Init ==
    /\ WriterInit /\ DecoderInit
    /\ \/ query = "COPY" /\ video = NoVideo
       \/ query = "SELECT" /\ video \in Videos

\* The file that ConcatenateVideos wrote, as a demuxer reads it.
WrittenVideo ==
    LET packets == Packets(io[0])
    IN [pts |-> [k \in DOMAIN packets |-> packets[k].pts * FrameDuration],
        keyframes |-> {k \in DOMAIN packets : packets[k].frame[2] % Gop = 0},
        delay |-> Lag,
        shows |-> [k \in DOMAIN packets |-> packets[k].frame]]

\* The dataset is published, and a query opens it.
Publish ==
    /\ query = "COPY" /\ Succeeded(0)
    /\ query' = "SELECT" /\ video' = WrittenVideo
    /\ UNCHANGED writerVars
    /\ UNCHANGED <<pc, buffer, place, stream, frames, seek, converted, answer, outcome, buffers>>

\* COPY failed: every job it started has ended.
CopyFailed ==
    /\ query = "COPY" /\ \E j \in Jobs : job[j].pc = "ended" /\ job[j].thrown # "none"
    /\ \A e \in Episodes : job[e].pc = "ended"
    /\ job[0].pc \in {"start", "ended"}
    /\ UNCHANGED vars

Copy == query = "COPY" /\ WriterNext /\ UNCHANGED <<query, decoderVars>>
Query == query = "SELECT" /\ DecoderNext /\ UNCHANGED <<query, writerVars>>

Next == Copy \/ Publish \/ CopyFailed \/ Query
Spec == Init /\ [][Next]_vars

-----------------------------------------------------------------------------

\* from_timestamp of episode e plus frame_index / fps.
TimestampOf(e, n) == ShownAt(e, n) * FrameDuration

\* A row of the dataset that was written gets back the frame it was written with: number n of
\* episode e, and no other one, is the frame the decoder finds at the timestamp of the row.
RowsShowTheirFrames ==
    (query = "SELECT" /\ video.shows # <<>> /\ answer.frame # 0) =>
       \A e \in Episodes : \A n \in 0..(FrameCounts[e] - 1) :
          answer.target = TimestampOf(e, n) => video.shows[answer.pixels] = <<e, n>>
=============================================================================
