---------------------------- MODULE VisualWriter ----------------------------
(***************************************************************************)
(* LerobotVisualWriter: the videos of the episodes, encoded by concurrent  *)
(* jobs, and the video file they are concatenated into                     *)
(* (src/src/function/copy/lerobot_video_writer.cpp).                       *)
(*                                                                         *)
(* Job e > 0 is EncodeVideo of episode e, job 0 ConcatenateVideos, which   *)
(* runs when the episodes are encoded.  A job that throws destroys what it *)
(* has: the encoder, the container and the files.                          *)
(*                                                                         *)
(* A file holds a header, frames and an index; a frame is a pair           *)
(* <<episode, number>> with its timestamp, in frames.                      *)
(***************************************************************************)
EXTENDS VideoIO, SequencesExt

CONSTANTS
    FrameCounts,          \* the number of frames of each episode, a sequence
    StartTimes,           \* the start time the container of each fragment has
    Lag,                  \* frames an encoder holds back
    Svt                   \* the episodes encoded by SVT-AV1

Episodes == DOMAIN FrameCounts
Frame(e, n, pts) == [frame |-> <<e, n>>, pts |-> pts]
Header == Frame(0, 0, 0)
Index == Frame(0, 1, 0)
Jobs == 0..Len(FrameCounts)

ASSUME EpisodesAssumption ==
    /\ FrameCounts \in Seq(Nat \ {0}) /\ FrameCounts # <<>>
    /\ StartTimes \in [Episodes -> Int] /\ Lag \in Nat /\ Svt \subseteq Episodes

VARIABLES
    job,         \* the step of each job, and the exception in flight
    encoder,     \* of each episode: frames sent, those it holds, flushed, and the codec context
    concat,      \* the fragment that is read, the packets read of it, and the offset so far
    io,          \* the LerobotVideoIO a job writes with
    input,       \* the LerobotVideoIO of the fragment that is read
    svt_lock,    \* SVTAV1LifecycleLock: the episode that holds it, 0 if it is free
    cancelled    \* the query is cancelled or interrupted

writerVars == <<job, encoder, concat, io, input, svt_lock, cancelled>>

WriterInit ==
    /\ job = [j \in Jobs |-> [pc |-> "start", thrown |-> "none"]]
    /\ encoder = [e \in Episodes |-> [sent |-> 0, codec |-> <<>>, draining |-> FALSE, allocated |-> FALSE]]
    /\ concat = [fragment |-> 1, packets |-> <<>>, read |-> FALSE, offset |-> 0]
    /\ io = [j \in Jobs |-> NewIO] /\ input = NewIO
    /\ svt_lock = 0 /\ cancelled = FALSE

-----------------------------------------------------------------------------

Goto(j, pc) == job' = [job EXCEPT ![j].pc = pc]
Throw(j, why) == job' = [job EXCEPT ![j] = [pc |-> "unwind", thrown |-> why]]

\* ThrowIfError of the file, after a call that leaves it in state o.
ThrowIfError(j, o, pc) ==
    IF Check(o, cancelled) # "none" THEN Throw(j, Check(o, cancelled)) ELSE Goto(j, pc)

\* ThrowOnFFmpegError: the error of the file, or FFmpeg's own one.
ThrowOnFFmpegError(j, o, pc) ==
    \/ ThrowIfError(j, o, pc)
    \/ Faults /\ Check(o, cancelled) = "none" /\ Throw(j, "ffmpeg")

\* FFmpeg may hand its buffer to the file system at any time.
PerhapsWritten(o) == {o} \cup Write(o, cancelled)

\* EncodeVideo: the checks of the arguments and of the size of the spool.
Start(e) ==
    /\ job[e].pc = "start"
    /\ \/ /\ ~cancelled /\ Goto(e, "encoder")
          /\ encoder' = [encoder EXCEPT ![e].allocated = TRUE]
       \/ cancelled /\ Throw(e, "interrupted") /\ UNCHANGED encoder
       \/ Faults /\ Throw(e, "spool") /\ UNCHANGED encoder
    /\ UNCHANGED <<concat, io, input, svt_lock, cancelled>>

\* Opening and freeing an SVT-AV1 encoder excludes the other jobs.
LockSvt(e) ==
    /\ e \in Svt /\ svt_lock = 0
    /\ job[e].pc = "encoder" \/ (job[e].pc = "unwind" /\ encoder[e].allocated)
    /\ svt_lock' = e
    /\ UNCHANGED <<job, encoder, concat, io, input, cancelled>>

Unlocked(e) == IF e \in Svt THEN 0 ELSE svt_lock
MayChangeEncoder(e) == e \in Svt => svt_lock = e

\* Mutant: an encoder that cannot be opened keeps the lock.
OpenEncoderLocked(e) ==
    /\ job[e].pc = "encoder" /\ MayChangeEncoder(e)
    /\ \/ Goto(e, "open") /\ svt_lock' = Unlocked(e) /\ UNCHANGED encoder
       \/ Faults /\ Throw(e, "encoder") /\ UNCHANGED svt_lock /\ encoder' = [encoder EXCEPT ![e].allocated = FALSE]
    /\ UNCHANGED <<concat, io, input, cancelled>>

OpenEncoder(e) ==
    /\ job[e].pc = "encoder" /\ MayChangeEncoder(e)
    /\ Goto(e, "open") \/ (Faults /\ Throw(e, "encoder"))
    /\ svt_lock' = Unlocked(e)
    /\ UNCHANGED <<encoder, concat, io, input, cancelled>>

\* LerobotVideoIO::Open of an output, and its header.
OpenOutput(j, pc) ==
    \E error \in OpenErrors(io[j], cancelled) :
       IF error # "none"
       THEN Throw(j, error) /\ UNCHANGED io
       ELSE \E o \in PerhapsWritten(Buffered(Opened(io[j], "main"), Header)) :
               io' = [io EXCEPT ![j] = o] /\ ThrowOnFFmpegError(j, o, pc)

WriteHeader(e) ==
    /\ job[e].pc = "open" /\ OpenOutput(e, "frame")
    /\ UNCHANGED <<encoder, concat, input, svt_lock, cancelled>>

\* One frame of the spool goes to the encoder.
SendFrame(e) ==
    /\ job[e].pc = "frame" /\ encoder[e].sent < FrameCounts[e]
    /\ \/ /\ ~cancelled /\ Goto(e, "drain")
          /\ encoder' = [encoder EXCEPT ![e].sent = @ + 1, ![e].codec = Append(@, encoder[e].sent)]
       \/ cancelled /\ Throw(e, "interrupted") /\ UNCHANGED encoder
       \/ Faults /\ Throw(e, "spool") /\ UNCHANGED encoder
    /\ UNCHANGED <<concat, io, input, svt_lock, cancelled>>

\* Mutant: the encoder is not told that there are no more frames.
FlushNothing(e) ==
    /\ job[e].pc = "frame" /\ encoder[e].sent = FrameCounts[e]
    /\ IF cancelled THEN Throw(e, "interrupted") ELSE Goto(e, "trailer")
    /\ UNCHANGED <<encoder, concat, io, input, svt_lock, cancelled>>

FlushEncoder(e) ==
    /\ job[e].pc = "frame" /\ encoder[e].sent = FrameCounts[e]
    /\ \/ ~cancelled /\ Goto(e, "drain") /\ encoder' = [encoder EXCEPT ![e].draining = TRUE]
       \/ cancelled /\ Throw(e, "interrupted") /\ UNCHANGED encoder
       \/ Faults /\ Throw(e, "encoder") /\ UNCHANGED encoder
    /\ UNCHANGED <<concat, io, input, svt_lock, cancelled>>

\* External: the encoder lags behind by some frames until it is flushed.
HasPacket(e) == encoder[e].codec # <<>> /\ (encoder[e].draining \/ Len(encoder[e].codec) > Lag)

\* DrainEncoder: a packet goes to the container.
MuxPacket(e) ==
    /\ job[e].pc = "drain" /\ HasPacket(e)
    /\ encoder' = [encoder EXCEPT ![e].codec = Tail(@)]
    /\ LET n == Head(encoder[e].codec)
       IN \E o \in PerhapsWritten(Buffered(io[e], Frame(e, n, n + StartTimes[e]))) :
             io' = [io EXCEPT ![e] = o] /\ ThrowOnFFmpegError(e, o, "drain")
    /\ UNCHANGED <<concat, input, svt_lock, cancelled>>

\* EAGAIN, or the end of the encoder, or its failure.
Drained(e) ==
    /\ job[e].pc = "drain" /\ ~HasPacket(e)
    /\ \/ IF encoder[e].draining /\ cancelled THEN Throw(e, "interrupted")
          ELSE Goto(e, IF encoder[e].draining THEN "trailer" ELSE "frame")
       \/ Faults /\ Throw(e, "encoder")
    /\ UNCHANGED <<encoder, concat, io, input, svt_lock, cancelled>>

\* av_write_trailer: faststart opens the file again ...
Trailer(j) ==
    /\ job[j].pc = "trailer"
    /\ \E o \in UNION {OpenedByFFmpeg(p, cancelled) : p \in Write(io[j], cancelled)} :
          io' = [io EXCEPT ![j] = o] /\ ThrowOnFFmpegError(j, o, "moving")
    /\ UNCHANGED <<encoder, concat, input, svt_lock, cancelled>>

\* ... to move the data behind the index, which goes where they were.
MovedBy(o) == UNION {Seek(p, cancelled) : p \in Read(o, cancelled)}

MoveIndex(j) ==
    /\ job[j].pc = "moving"
    /\ \E o \in UNION {CloseHandle(p, "second", TRUE, cancelled) :
                          p \in UNION {PerhapsWritten(Buffered(q, Index)) : q \in MovedBy(io[j])}} :
          io' = [io EXCEPT ![j] = o] /\ ThrowOnFFmpegError(j, o, "close")
    /\ UNCHANGED <<encoder, concat, input, svt_lock, cancelled>>

\* Mutant: what went wrong while the file was closed is not asked for.
CloseUnasked(j) ==
    /\ job[j].pc = "close"
    /\ \E o \in CloseHandle(io[j], "main", TRUE, cancelled) :
          io' = [io EXCEPT ![j] = o] /\ Goto(j, "unwind")
    /\ UNCHANGED <<encoder, concat, input, svt_lock, cancelled>>

\* The file is closed, and the error of that asked for.
CloseOutput(j) ==
    /\ job[j].pc = "close"
    /\ \E o \in CloseHandle(io[j], "main", TRUE, cancelled) :
          io' = [io EXCEPT ![j] = o] /\ ThrowIfError(j, o, "unwind")
    /\ UNCHANGED <<encoder, concat, input, svt_lock, cancelled>>

\* The destructors, after an exception or at the end: first the encoder ...
FreeEncoder(e) ==
    /\ job[e].pc = "unwind" /\ encoder[e].allocated /\ MayChangeEncoder(e)
    /\ encoder' = [encoder EXCEPT ![e].allocated = FALSE]
    /\ svt_lock' = Unlocked(e)
    /\ UNCHANGED <<job, concat, io, input, cancelled>>

\* ... then the container and the files.
Unwind(j) ==
    /\ job[j].pc = "unwind" /\ (j \in Episodes => ~encoder[j].allocated)
    /\ Goto(j, "ended")
    /\ \E o \in Destroy(io[j], TRUE, cancelled) : io' = [io EXCEPT ![j] = o]
    /\ IF j = 0 THEN input' \in Destroy(input, FALSE, cancelled) ELSE UNCHANGED input
    /\ UNCHANGED <<encoder, concat, svt_lock, cancelled>>

-----------------------------------------------------------------------------
\* ConcatenateVideos.

Succeeded(j) == job[j].pc = "ended" /\ job[j].thrown = "none"

\* External: a demuxer returns what is between the header and the index of a file.
Packets(o) == SubSeq(o.written, 2, Len(o.written) - 1)

\* A fragment is opened.  When that fails, FFmpeg frees the container and leaves the handle.
OpenFragment ==
    /\ \A e \in Episodes : Succeeded(e)
    /\ job[0].pc = "start"
    /\ \E error \in OpenErrors(NewIO, cancelled) :
          IF error # "none"
          THEN Throw(0, error) /\ input' = NewIO
          ELSE \E i \in Read(Opened(NewIO, "main"), cancelled) :
                  input' = i /\ ThrowOnFFmpegError(0, i, IF concat.fragment = 1 THEN "output" ELSE "packets")
    /\ UNCHANGED <<encoder, concat, io, svt_lock, cancelled>>

\* The first fragment gives the stream its parameters.
OpenConcatenated ==
    /\ job[0].pc = "output" /\ OpenOutput(0, "packets")
    /\ UNCHANGED <<encoder, concat, input, svt_lock, cancelled>>

\* Packets are read.  An error of the file is found whatever FFmpeg makes of it.
ReadPackets ==
    /\ job[0].pc = "packets" /\ ~concat.read
    /\ concat' = [concat EXCEPT !.packets = Packets(io[concat.fragment]), !.read = TRUE]
    /\ \E i \in Read(input, cancelled) : input' = i /\ ThrowOnFFmpegError(0, i, "packets")
    /\ UNCHANGED <<encoder, io, svt_lock, cancelled>>

\* Mutant: the start time of the fragment stays in its timestamps.
ShiftedByOffset(packet) == [packet EXCEPT !.pts = @ + concat.offset]

\* The packet in the time of the output.  (Overflow is an error.)
Shifted(packet) == [packet EXCEPT !.pts = @ + concat.offset - StartTimes[concat.fragment]]

CopyPacket ==
    /\ job[0].pc = "packets" /\ concat.packets # <<>>
    /\ concat' = [concat EXCEPT !.packets = Tail(@)]
    /\ \E o \in PerhapsWritten(Buffered(io[0], Shifted(Head(concat.packets)))) :
          io' = [io EXCEPT ![0] = o] /\ ThrowOnFFmpegError(0, o, "packets")
    /\ UNCHANGED <<encoder, input, svt_lock, cancelled>>

\* The end of a fragment: its duration is added, its file closed, the next one opened.
EndFragment ==
    /\ job[0].pc = "packets" /\ concat.packets = <<>> /\ concat.read
    /\ concat' = [fragment |-> concat.fragment + 1, packets |-> <<>>, read |-> FALSE,
                  offset |-> concat.offset + FrameCounts[concat.fragment]]
    /\ \E i \in CloseHandle(input, "main", FALSE, cancelled) :
          input' = i /\ ThrowIfError(0, i, IF concat.fragment = Len(FrameCounts) THEN "trailer" ELSE "start")
    /\ UNCHANGED <<encoder, io, svt_lock, cancelled>>

-----------------------------------------------------------------------------

\* External: another job fails, or the user interrupts the query.
Cancel ==
    /\ Faults /\ ~cancelled /\ cancelled' = TRUE
    /\ UNCHANGED <<job, encoder, concat, io, input, svt_lock>>

Encode(e) ==
    \/ Start(e) \/ LockSvt(e) \/ OpenEncoder(e) \/ WriteHeader(e) \/ SendFrame(e)
    \/ FlushEncoder(e) \/ MuxPacket(e) \/ Drained(e) \/ FreeEncoder(e)

Concatenate == OpenFragment \/ OpenConcatenated \/ ReadPackets \/ CopyPacket \/ EndFragment

WriterNext ==
    \/ \E e \in Episodes : Encode(e)
    \/ Concatenate
    \/ \E j \in Jobs : Trailer(j) \/ MoveIndex(j) \/ CloseOutput(j) \/ Unwind(j)
    \/ Cancel

-----------------------------------------------------------------------------

\* When frame number n of episode e is shown: after the episodes before it.
StartOf[e \in Episodes] == IF e = 1 THEN 0 ELSE StartOf[e - 1] + FrameCounts[e - 1]
ShownAt(e, n) == StartOf[e] + n

\* The frames a file of the episodes has, each with its timestamp.
FramesOf(episodes, start) ==
    FlattenSeq([k \in DOMAIN episodes |->
        [n \in 1..FrameCounts[episodes[k]] |->
            Frame(episodes[k], n - 1, start[episodes[k]] + n - 1)]])

\* A job that succeeds leaves a complete file: every frame the encoder was given, also those
\* it held back, at its time, synced after the last write.  No error of the flush or of the
\* close, which no destructor can throw, was lost.
FilesComplete ==
    \A j \in Jobs : Succeeded(j) =>
       /\ io[j].written = <<Header>> \o
             (IF j = 0 THEN FramesOf([e \in Episodes |-> e], [e \in Episodes |-> ShownAt(e, 0)])
              ELSE FramesOf(<<j>>, StartTimes))
             \o <<Index>>
       /\ io[j].synced = Len(io[j].written) /\ io[j].first = "none"

\* What a job throws for a file is the first thing that went wrong with it, not an error of
\* the flush, the Sync or the close that followed.
FirstErrorThrown ==
    \A j \in Jobs : job[j].thrown \in {"read", "write", "seek", "sync", "close"} =>
       job[j].thrown = io[j].first \/ (j = 0 /\ job[j].thrown = input.first)

\* A job that has ended has no open file, no encoder and no lock, wherever it threw.
EndedJobsHoldNothing ==
    /\ \A j \in Jobs : job[j].pc = "ended" => io[j].handles = {}
    /\ \A e \in Episodes : job[e].pc = "ended" => ~encoder[e].allocated /\ svt_lock # e
    /\ job[0].pc = "ended" => input.handles = {}
=============================================================================
