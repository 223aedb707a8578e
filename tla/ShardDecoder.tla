---------------------------- MODULE ShardDecoder ----------------------------
(***************************************************************************)
(* LerobotShardDecoder, one open video file, and the buffers of targets it *)
(* works off (src/src/function/video/lerobot_video_frames.cpp).            *)
(*                                                                         *)
(* A buffer is sorted and cut into clusters of nearby targets.  The        *)
(* decoder seeks to a keyframe before a cluster and decodes forward with   *)
(* two frames in hand; the first cluster of a buffer may go on where the   *)
(* last buffer ended.  FFmpeg is modelled by what the decoder asks of it:  *)
(* packets are read in order, the codec holds some of them back until it   *)
(* is told that there are no more, a seek goes to a keyframe, a flush      *)
(* forgets what the codec holds.                                           *)
(*                                                                         *)
(* Time is a number of units.  A timestamp of the stream is a multiple of  *)
(* Tick units, that of a target need not be one.                           *)
(***************************************************************************)
EXTENDS Integers, Sequences, SequencesExt

CONSTANTS
    Requests,             \* the sequences of targets a user may ask for in one buffer
    MaxBuffers,           \* bound: buffers in a behaviour
    Tick,                 \* the time base of the video stream
    FrameDuration,        \* 1 / fps
    Tolerance, ClusterGap,
    MaxClusterFrameSpan,  \* LEROBOT_MAX_CLUSTER_FRAME_SPAN
    SafetyMargin,         \* LEROBOT_DECODE_FRAME_SAFETY_MARGIN
    ReadFaults            \* reading may fail, and the query may be interrupted

ASSUME TimeAssumption ==
    /\ Tick \in Nat \ {0} /\ FrameDuration \in Nat \ {0}
    /\ Tolerance \in Nat \ {0} /\ ClusterGap \in Nat
ASSUME LimitAssumption ==
    /\ MaxClusterFrameSpan \in Nat \ {0} /\ SafetyMargin \in Nat
    /\ MaxBuffers \in Nat /\ ReadFaults \in BOOLEAN
\* BeginBuffer throws on a buffer without targets.
ASSUME RequestsAssumption == \A request \in Requests : request \in Seq(Nat) /\ request # <<>>

\* A file as the decoder knows it: frames one after the other, at timestamps of the stream.
IsVideo(v) ==
    /\ v.pts \in Seq(Nat) /\ \A f \in 2..Len(v.pts) : v.pts[f - 1] < v.pts[f]
    /\ \A f \in DOMAIN v.pts : v.pts[f] % Tick = 0
    /\ v.keyframes \subseteq DOMAIN v.pts /\ v.delay \in Nat

VARIABLES
    video,       \* the file, a record with pts, keyframes and delay; frames are numbered from 1
    pc,          \* what the decoder is at
    buffer,      \* the sorted targets and their clusters
    place,       \* cluster_position and target_position, from 0
    stream,      \* the demuxer and the codec, and the flags that follow them
    frames,      \* previous_frame and current_frame, 0: have_previous, have_current are false
    seek,        \* last target, first target since the seek (-1: none), frames and their budget
    converted,   \* the frame whose pixels are in converted_pixels, 0: have_converted_frame is false
    answer,      \* what Next returned last
    outcome,     \* "ok", or the exception that Next threw
    buffers      \* bound: buffers so far

decoderVars == <<video, pc, buffer, place, stream, frames, seek, converted, answer, outcome, buffers>>

NoBuffer == [targets |-> <<>>, clusters |-> <<>>]
FreshStream == [packet |-> 1, codec |-> <<>>, draining |-> FALSE,
                demux_eof |-> FALSE, flush_sent |-> FALSE, decoder_eof |-> FALSE]
NoFrames == [previous |-> 0, current |-> 0]
NoSeek == [last |-> -1, start |-> -1, decoded |-> 0, budget |-> 0]

-----------------------------------------------------------------------------
\* The clusters of a buffer.

\* Mutant: a span of no time counts no frame, and the last frame of a longer one is forgotten.
SpanWithoutLastFrame(first, latest) ==
    IF latest <= first THEN 0 ELSE (latest - first + FrameDuration - 1) \div FrameDuration

\* The frames of the timestamps first to latest, rounded up.  (The result is saturated.)
EstimateFrameSpan(first, latest) ==
    IF latest <= first THEN 1 ELSE (latest - first + FrameDuration - 1) \div FrameDuration + 1

DecodeFrameBudget(first, latest) == EstimateFrameSpan(first, latest) + SafetyMargin

\* Target i is too far from the last target of the cluster, or from its first one.
StartsCluster(targets, clusters, i) ==
    \/ clusters = <<>>
    \/ targets[i] - targets[Last(Last(clusters))] > ClusterGap
    \/ EstimateFrameSpan(targets[Head(Last(clusters))], targets[i]) > MaxClusterFrameSpan

AddTarget(targets, clusters, i) ==
    IF StartsCluster(targets, clusters, i)
    THEN Append(clusters, <<i>>)
    ELSE [clusters EXCEPT ![Len(clusters)] = Append(@, i)]

\* The targets are put into clusters one after the other.
ClustersOf(targets) ==
    LET upTo[i \in 0..Len(targets)] == IF i = 0 THEN <<>> ELSE AddTarget(targets, upTo[i - 1], i)
    IN upTo[Len(targets)]

\* Mutant: the targets stay in the order of the requests.
FinalizeUnsorted(request) == [targets |-> request, clusters |-> ClustersOf(request)]

\* The targets by timestamp.  Among equal ones the code orders by episode, frame and request,
\* which no answer depends on.
Sorted(request) ==
    LET order == CHOOSE p \in Injection(DOMAIN request, DOMAIN request) :
                    \A i, k \in DOMAIN request : i <= k => request[p[i]] <= request[p[k]]
    IN [i \in DOMAIN request |-> request[order[i]]]

FinalizeDecodeBuffer(request) ==
    LET targets == Sorted(request)
    IN [targets |-> targets, clusters |-> ClustersOf(targets)]

Cluster == buffer.clusters[place.cluster + 1]
Target == buffer.targets[Cluster[place.target + 1]]

-----------------------------------------------------------------------------
\* Open and Close.

\* A new decoder.  Open may throw in the middle; the constructor then closes what there is.
Open ==
    /\ pc = "closed" /\ outcome = "ok"
    /\ \/ pc' = "ready" /\ UNCHANGED outcome
       \/ ReadFaults /\ pc' = "failed" /\ outcome' = "fault"
    /\ stream' = FreshStream /\ frames' = NoFrames /\ seek' = NoSeek /\ converted' = 0
    /\ UNCHANGED <<video, buffer, place, answer, buffers>>

\* The constructor failed, the user discards a decoder that failed, or the cache evicts an idle one.
Close ==
    /\ pc \in {"ready", "failed"}
    /\ pc' = "closed"
    /\ UNCHANGED <<video, buffer, place, stream, frames, seek, converted, answer, outcome, buffers>>

Fail(why) ==
    /\ pc' = "failed" /\ outcome' = why
    /\ UNCHANGED <<video, buffer, place, stream, frames, seek, converted, answer, buffers>>

-----------------------------------------------------------------------------
\* Seeking.

\* The stream timestamp a cluster seeks to: the nearest tick (half up), and one before it.
SeekTick(earliest) ==
    LET tick == (2 * earliest + Tick) \div (2 * Tick)
    IN IF tick > 0 THEN tick - 1 ELSE 0

\* External: AVSEEK_FLAG_BACKWARD, and the first keyframe for what lies before it.
SeekKeyframe(tick) ==
    LET before == {k \in video.keyframes : video.pts[k] <= tick * Tick}
    IN IF before = {} THEN 1 ELSE CHOOSE k \in before : \A other \in before : other <= k

\* Mutant: the codec that was told of the end is not told again.
StartClusterFlushSent(buf, cluster) ==
    LET first == buf.targets[Head(buf.clusters[cluster])]
        latest == buf.targets[Last(buf.clusters[cluster])]
    IN /\ place' = [cluster |-> cluster - 1, target |-> 0]
       /\ stream' = [FreshStream EXCEPT !.packet = SeekKeyframe(SeekTick(first)),
                                        !.flush_sent = stream.flush_sent]
       /\ frames' = NoFrames /\ converted' = 0
       /\ seek' = [last |-> seek.last, start |-> first,
                   decoded |-> 0, budget |-> DecodeFrameBudget(first, latest)]
       /\ UNCHANGED outcome

\* Everything that belongs to the position in the video is forgotten; have_last_target stays.
StartCluster(buf, cluster) ==
    LET first == buf.targets[Head(buf.clusters[cluster])]
        latest == buf.targets[Last(buf.clusters[cluster])]
    IN /\ place' = [cluster |-> cluster - 1, target |-> 0]
       /\ stream' = [FreshStream EXCEPT !.packet = SeekKeyframe(SeekTick(first))]
       /\ frames' = NoFrames /\ converted' = 0
       /\ seek' = [last |-> seek.last, start |-> first,
                   decoded |-> 0, budget |-> DecodeFrameBudget(first, latest)]
       /\ UNCHANGED outcome

\* Mutant: a buffer before the last target goes on as well.
ContinuesBackwards(buf) ==
    LET first == Head(buf.targets)
        latest == buf.targets[Last(Head(buf.clusters))]
    IN /\ seek.last # -1 /\ seek.start # -1 /\ ~stream.decoder_eof
       /\ first - seek.last <= ClusterGap
       /\ EstimateFrameSpan(seek.start, latest) <= MaxClusterFrameSpan

\* The first cluster lies after the last target, near it and in the span of its cluster, and
\* the video did not end.
ContinueDecode(buf) ==
    LET first == Head(buf.targets)
        latest == buf.targets[Last(Head(buf.clusters))]
    IN /\ seek.last # -1 /\ seek.start # -1 /\ ~stream.decoder_eof
       /\ first >= seek.last /\ first - seek.last <= ClusterGap
       /\ EstimateFrameSpan(seek.start, latest) <= MaxClusterFrameSpan

\* Mutant: the budget of the cluster that is continued stays.
BeginBufferOldBudget(request) ==
    LET buf == FinalizeDecodeBuffer(request)
    IN /\ pc = "ready" /\ outcome = "ok" /\ buffers < MaxBuffers
       /\ buffers' = buffers + 1 /\ buffer' = buf /\ pc' = "next"
       /\ \/ /\ ~ContinueDecode(buf) /\ StartCluster(buf, 1)
          \/ /\ ContinueDecode(buf) /\ place' = [cluster |-> 0, target |-> 0]
             /\ UNCHANGED <<stream, frames, converted, outcome, seek>>
       /\ UNCHANGED <<video, answer>>

BeginBuffer(request) ==
    LET buf == FinalizeDecodeBuffer(request)
    IN /\ pc = "ready" /\ outcome = "ok" /\ buffers < MaxBuffers
       /\ buffers' = buffers + 1 /\ buffer' = buf /\ pc' = "next"
       /\ \/ /\ ~ContinueDecode(buf) /\ StartCluster(buf, 1)
          \/ /\ ContinueDecode(buf) /\ place' = [cluster |-> 0, target |-> 0]
             /\ seek' = [seek EXCEPT !.budget =
                            DecodeFrameBudget(seek.start, buf.targets[Last(Head(buf.clusters))])]
             /\ UNCHANGED <<stream, frames, converted, outcome>>
       /\ UNCHANGED <<video, answer>>

-----------------------------------------------------------------------------
\* Next.

Distance(f, t) == IF video.pts[f] < t THEN t - video.pts[f] ELSE video.pts[f] - t

\* The cluster is done: seek to the next one, or report that the buffer is done.
NextCluster ==
    /\ pc = "next" /\ place.target >= Len(Cluster)
    /\ IF place.cluster + 1 >= Len(buffer.clusters)
       THEN /\ pc' = "ready" /\ buffer' = NoBuffer /\ place' = [cluster |-> 0, target |-> 0]
            /\ UNCHANGED <<stream, frames, seek, converted, outcome>>
       ELSE StartCluster(buffer, place.cluster + 2) /\ UNCHANGED <<pc, buffer>>
    /\ UNCHANGED <<video, answer, buffers>>

\* Mutant: the pixels of the last conversion, whatever frame it was.
ConvertAlways(f) == IF converted # 0 THEN converted ELSE f

\* ConvertFrame: targets that share a frame share its pixels.
ConvertFrame(f) == IF converted # 0 /\ video.pts[f] = video.pts[converted] THEN converted ELSE f

\* ValidateTolerance and ConvertFrame of the selected frame; then the target is done.
Give(f) ==
    IF Distance(f, Target) > Tolerance
    THEN Fail("unmatched")
    ELSE /\ converted' = ConvertFrame(f)
         /\ answer' = [target |-> Target, frame |-> f, pixels |-> converted']
         /\ place' = [place EXCEPT !.target = @ + 1]
         /\ seek' = [seek EXCEPT !.last = Target]
         /\ pc' = "next"
         /\ UNCHANGED <<video, buffer, stream, frames, outcome, buffers>>

Waiting == pc = "next" /\ place.target < Len(Cluster)

\* Mutant: the frame after the target is taken without a look at the one before.
SelectLater ==
    /\ Waiting /\ frames.current # 0 /\ Target <= video.pts[frames.current]
    /\ Give(frames.current)

\* The target is not after the current frame: that one or the previous one is the nearest.
Select ==
    /\ Waiting /\ frames.current # 0 /\ Target <= video.pts[frames.current]
    /\ Give(IF frames.previous # 0 /\ Distance(frames.previous, Target) <= Distance(frames.current, Target)
            THEN frames.previous ELSE frames.current)

\* The target is after the current frame: move on, unless the video has ended.
Advance ==
    /\ Waiting /\ (frames.current # 0 => Target > video.pts[frames.current])
    /\ frames' = IF frames.current = 0 THEN frames ELSE [previous |-> frames.current, current |-> 0]
    /\ pc' = IF stream.decoder_eof THEN "eof" ELSE "read"
    /\ UNCHANGED <<video, buffer, place, stream, seek, converted, answer, outcome, buffers>>

\* The video ended before the target: the last frame is the nearest.
SelectLast ==
    /\ pc = "eof"
    /\ IF frames.previous = 0 THEN Fail("fault") ELSE Give(frames.previous)

\* CheckForInterrupt before a target, the conversion of a frame that cannot be converted, and
\* errors of the codec.
Interrupt == ReadFaults /\ pc \in {"next", "read"} /\ Fail("fault")

-----------------------------------------------------------------------------
\* ReadFrame.

\* External: the codec has a frame once it holds more packets than it delays, or drains.
CodecHasFrame ==
    stream.codec # <<>> /\ (stream.draining \/ Len(stream.codec) > video.delay)

\* Frames without a timestamp, which are skipped, and frames out of order, which are an
\* error, are not in Videos.
Receive ==
    /\ pc = "read" /\ CodecHasFrame
    /\ IF seek.decoded + 1 > seek.budget
       THEN Fail("budget")
       ELSE /\ frames' = [frames EXCEPT !.current = Head(stream.codec)]
            /\ stream' = [stream EXCEPT !.codec = Tail(@)]
            /\ seek' = [seek EXCEPT !.decoded = @ + 1]
            /\ pc' = "next"
            /\ UNCHANGED <<video, buffer, place, converted, answer, outcome, buffers>>

\* AVERROR_EOF: everything was drained.
ReceiveEof ==
    /\ pc = "read" /\ stream.codec = <<>> /\ stream.draining
    /\ stream' = [stream EXCEPT !.decoder_eof = TRUE] /\ pc' = "eof"
    /\ UNCHANGED <<video, buffer, place, frames, seek, converted, answer, outcome, buffers>>

\* Mutant: what the demuxer makes of a failed read, the end of the file, is believed.
ReadPacketBelieved ==
    /\ pc = "read" /\ ~CodecHasFrame /\ ~stream.draining /\ ~stream.demux_eof
    /\ \/ stream' = IF stream.packet <= Len(video.pts)
                    THEN [stream EXCEPT !.codec = Append(@, stream.packet), !.packet = @ + 1]
                    ELSE [stream EXCEPT !.demux_eof = TRUE]
       \/ ReadFaults /\ stream' = [stream EXCEPT !.demux_eof = TRUE]
    /\ UNCHANGED <<video, pc, buffer, place, frames, seek, converted, answer, outcome, buffers>>

\* EAGAIN: the next packet of the video stream goes to the codec, or the file ends.  A read
\* that failed in DuckDB's file system is found by ThrowIOError whatever FFmpeg makes of it.
ReadPacket ==
    /\ pc = "read" /\ ~CodecHasFrame /\ ~stream.draining /\ ~stream.demux_eof
    /\ \/ /\ stream' = IF stream.packet <= Len(video.pts)
                       THEN [stream EXCEPT !.codec = Append(@, stream.packet), !.packet = @ + 1]
                       ELSE [stream EXCEPT !.demux_eof = TRUE]
          /\ UNCHANGED <<video, pc, buffer, place, frames, seek, converted, answer, outcome, buffers>>
       \/ ReadFaults /\ Fail("fault")

\* EAGAIN after the last packet: the codec is told once that there are no more.
Flush ==
    /\ pc = "read" /\ ~CodecHasFrame /\ ~stream.draining /\ stream.demux_eof
    /\ IF stream.flush_sent
       THEN stream' = [stream EXCEPT !.decoder_eof = TRUE] /\ pc' = "eof"
       ELSE stream' = [stream EXCEPT !.flush_sent = TRUE, !.draining = TRUE] /\ UNCHANGED pc
    /\ UNCHANGED <<video, buffer, place, frames, seek, converted, answer, outcome, buffers>>

-----------------------------------------------------------------------------

DecoderInit ==
    /\ pc = "closed" /\ outcome = "ok" /\ buffers = 0
    /\ buffer = NoBuffer /\ place = [cluster |-> 0, target |-> 0]
    /\ stream = FreshStream /\ frames = NoFrames /\ seek = NoSeek /\ converted = 0
    /\ answer = [target |-> -1, frame |-> 0, pixels |-> 0]

ReadFrame == Receive \/ ReceiveEof \/ ReadPacket \/ Flush

\* The query failed, and its decoder is gone.
QueryFailed ==
    /\ pc = "closed" /\ outcome # "ok"
    /\ UNCHANGED decoderVars

DecoderNext ==
    \/ Open \/ Close \/ \E request \in Requests : BeginBuffer(request)
    \/ NextCluster \/ Select \/ Advance \/ SelectLast \/ ReadFrame \/ Interrupt
    \/ QueryFailed

-----------------------------------------------------------------------------

\* The targets that have no answer yet.
Remaining ==
    IF buffer = NoBuffer THEN <<>>
    ELSE [i \in 1..(Len(buffer.targets) - (Head(Cluster) - 1) - place.target) |->
            buffer.targets[Head(Cluster) - 1 + place.target + i]]

Promise == INSTANCE NearestFrame WITH asked <- Remaining

\* The decoder keeps the promise of NearestFrame: wherever it seeks, whatever it goes on
\* from, however far the codec lags behind and although several targets share a frame, each
\* target gets the nearest frame and its pixels, once and in order; it gives up only on a
\* target that nothing matches, on a fault, or on a video of another frame rate.
AnswersNearestFrame == Promise!Spec
=============================================================================
