---------------------------- MODULE VideoTargets ----------------------------
(***************************************************************************)
(* The operator lerobot_video_targets                                      *)
(* (src/src/function/video/lerobot_video_frames.cpp): DuckDB's threads     *)
(* feed it chunks of targets, and each call returns one chunk of frames.   *)
(*                                                                         *)
(* A thread cuts its chunk into batches, resolves each batch to frames of  *)
(* the episodes, groups it by video file into buffers, and decodes buffer  *)
(* after buffer with a decoder of the shared cache.  A call ends when its  *)
(* output is full, in rows or in bytes of pixels, so the batch, the        *)
(* buffer, the decoder and a frame that did not fit are kept for the next  *)
(* call.  DuckDB calls again with the same chunk until the operator asks   *)
(* for a new one.                                                          *)
(*                                                                         *)
(* The operator lerobot_temporal_targets answers the same rows without     *)
(* videos, each chunk in one call; it is composed here because both must   *)
(* find the same frames.                                                   *)
(***************************************************************************)
EXTENDS DecoderCache, TemporalTargets, SequencesExt

CONSTANTS
    Chunks,               \* the chunks of input rows a thread may get
    MaxChunks,            \* bound: chunks of a thread
    OutputBatchSize,      \* output_batch_size
    TargetBufferSize,     \* target_buffer_size
    MaxPendingTargets,    \* max_pending_targets
    MaxOutputBytes,       \* max_output_bytes
    Binds                 \* the calls of a user: records [operator, deltas, tolerance]

ASSUME BatchAssumption ==
    /\ OutputBatchSize \in Nat \ {0} /\ TargetBufferSize \in Nat \ {0}
    /\ MaxPendingTargets \in Nat \ {0} /\ MaxOutputBytes \in Nat \ {0}
ASSUME BoundAssumption == MaxChunks \in Nat

\* A row: the video file and the length of its episode, its frame and delta, and whether it has
\* a route and a timestamp.
InputRow ==
    [shard : Shards, pixels : Nat, frame : 0..(2 ^ (Width - 1) - 1), length : 0..(2 ^ (Width - 1) - 1),
     delta_index : Int, routed : BOOLEAN, found : BOOLEAN]

ASSUME InputAssumption ==
    /\ \A rows \in Chunks : rows \in Seq(InputRow)
    /\ \A b \in Binds : /\ b.deltas \in Seq(Int) /\ b.tolerance \in Nat
                       \* see TemporalTargets: there are no fractions at the end of the range
                       /\ \A i \in DOMAIN b.deltas :
                             b.deltas[i] < 2 ^ (Width - 1) * Scale =>
                                RoundHalfToEven(b.deltas[i]) < 2 ^ (Width - 1)

VARIABLES
    bind,                  \* the operator, delta_timestamps and the tolerance of the deltas
    needs_decode,          \* a column that comes from the video is projected
    next_target_ordinal,
    thread,                \* the step of each thread, and the rows and bytes of its output
    input,                 \* its chunk, how many it had, and input_position
    routes,                \* the routes of its batch: the rows they were found for
    queued,                \* buffers: the buffers that wait
    current,               \* buffer, the position in it, and have_decoded
    delivered              \* the rows of its chunk in the order of the output

targetVars == <<bind, needs_decode, next_target_ordinal, thread, input, routes, queued, current, delivered>>
vars == <<cacheVars, targetVars>>

NoChunk == [rows |-> <<>>, number |-> 0, position |-> 0, initialized |-> FALSE]
NoBuffer == [targets |-> <<>>, position |-> 0, have_decoded |-> FALSE]

-----------------------------------------------------------------------------
\* From a row to its frame.

\* delta.frame_offset
Offset(row) == RoundHalfToEven(bind.deltas[row.delta_index])

\* Mutant: the sum is compared with the ends of the episode, as no bound of it is known.
ClampSum(row) ==
    LET sum == Wrap(row.frame + Offset(row))
    IN IF sum < 0 THEN [frame |-> 0, padding |-> TRUE]
       ELSE IF sum > row.length - 1 THEN [frame |-> row.length - 1, padding |-> TRUE]
       ELSE [frame |-> sum, padding |-> FALSE]

\* The frame at an offset, or the end of the episode the offset passes.
Clamp(row) ==
    LET last_frame == row.length - 1
    IN IF Offset(row) < Wrap(-row.frame) THEN [frame |-> 0, padding |-> TRUE]
       ELSE IF Offset(row) > Wrap(last_frame - row.frame) THEN [frame |-> last_frame, padding |-> TRUE]
       ELSE [frame |-> Wrap(row.frame + Offset(row)), padding |-> FALSE]

\* The checks of a row: its values, the route of its episode, the length of the episode.
RowValid(row) == row.delta_index \in DOMAIN bind.deltas /\ row.routed /\ row.frame < row.length

\* ReadTargetTimestamps finds the frames, and none lies outside of its route.
TimestampsFound(rows) == \A i \in DOMAIN rows : rows[i].found

\* The targets of a batch, whose routes are pushed in the same order.
BatchTargets(rows, first_row, first_ordinal) ==
    {[row |-> first_row + i, ordinal |-> first_ordinal + i - 1, route |-> i,
      shard |-> rows[i].shard, pixels |-> rows[i].pixels,
      frame |-> Clamp(rows[i]).frame, padding |-> Clamp(rows[i]).padding] : i \in DOMAIN rows}

\* The decoder answers the targets of a buffer in the order of FinalizeDecodeBuffer.
Precedes(a, b) == a.frame < b.frame \/ (a.frame = b.frame /\ a.ordinal < b.ordinal)
Sorted(targets) ==
    [n \in 1..Cardinality(targets) |->
        CHOOSE t \in targets : Cardinality({a \in targets : Precedes(a, t)}) = n - 1]

\* The targets of a video file are cut into buffers as they come.
Place(t, targets) == Cardinality({a \in targets : a.ordinal < t.ordinal})
BufferAt(targets, n) == {t \in targets : Place(t, targets) \div TargetBufferSize = n - 1}

\* Mutant: what is left over after full buffers is forgotten.
FullBuffersOf(targets) ==
    [n \in 1..(Cardinality(targets) \div TargetBufferSize) |-> Sorted(BufferAt(targets, n))]

BuffersOf(targets) ==
    [n \in 1..((Cardinality(targets) + TargetBufferSize - 1) \div TargetBufferSize) |->
        Sorted(BufferAt(targets, n))]

\* All buffers of a batch, the video files in any order.
TargetBuffers(targets) ==
    {FlattenSeq([k \in DOMAIN order |-> BuffersOf({t \in targets : t.shard = order[k]})]) :
        order \in SetToSeqs({t.shard : t \in targets})}

-----------------------------------------------------------------------------
\* Calls.

Step(u, pc) == thread' = [thread EXCEPT ![u].pc = pc]
InLoop(u) == thread[u].pc = "loop" /\ thread[u].count < OutputBatchSize
HasBuffer(u) == current[u].targets # <<>>

\* Pixels are bytes of the output only if they are decoded.
PixelBytes(target) == IF needs_decode THEN target.pixels ELSE 0

\* DuckDB calls the operator: with a new chunk if it asked for one.
Call(u) ==
    /\ thread[u].pc = "outside" /\ bind.operator = "lerobot_video_targets"
    /\ \/ /\ input[u].initialized /\ UNCHANGED <<input, delivered>>
       \/ /\ ~input[u].initialized /\ input[u].number < MaxChunks
          /\ \E rows \in Chunks :
                input' = [input EXCEPT ![u] = [rows |-> rows, number |-> @.number + 1,
                                               position |-> 0, initialized |-> TRUE]]
          /\ delivered' = [delivered EXCEPT ![u] = <<>>]
    /\ thread' = [thread EXCEPT ![u] = [pc |-> "loop", count |-> 0, bytes |-> 0]]
    /\ UNCHANGED <<cacheVars, bind, needs_decode, next_target_ordinal, routes, queued, current>>

\* Mutant: the next batch is built as soon as no buffer waits, over the routes of the last one.
BuildEarly(u) ==
    LET rest == Len(input[u].rows) - input[u].position
        count == IF rest < MaxPendingTargets THEN rest ELSE MaxPendingTargets
        rows == SubSeq(input[u].rows, input[u].position + 1, input[u].position + count)
        targets == BatchTargets(rows, input[u].position, next_target_ordinal)
    IN /\ InLoop(u) /\ queued[u] = <<>> /\ rest > 0 /\ ~current[u].have_decoded
       /\ \A i \in DOMAIN rows : RowValid(rows[i]) /\ TimestampsFound(rows)
       /\ next_target_ordinal' = next_target_ordinal + count
       /\ routes' = [routes EXCEPT ![u] = [i \in DOMAIN rows |-> input[u].position + i] @@ @]
       /\ input' = [input EXCEPT ![u].position = @ + count]
       /\ \E buffers \in TargetBuffers(targets) : queued' = [queued EXCEPT ![u] = buffers]
       /\ UNCHANGED <<cacheVars, bind, needs_decode, thread, current, delivered>>

\* BuildTargetBuffers: the ordinals are claimed before the rows are looked at, and the batch is
\* passed before its timestamps are read.  A row that is wrong or has no timestamp fails the query.
Build(u) ==
    LET rest == Len(input[u].rows) - input[u].position
        count == IF rest < MaxPendingTargets THEN rest ELSE MaxPendingTargets
        rows == SubSeq(input[u].rows, input[u].position + 1, input[u].position + count)
        targets == BatchTargets(rows, input[u].position, next_target_ordinal)
    IN /\ InLoop(u) /\ ~HasBuffer(u) /\ queued[u] = <<>> /\ rest > 0
       /\ next_target_ordinal' = next_target_ordinal + count
       /\ routes' = [routes EXCEPT ![u] = [i \in DOMAIN rows |-> input[u].position + i]]
       /\ IF \E i \in DOMAIN rows : ~RowValid(rows[i])
          THEN Step(u, "failed") /\ UNCHANGED <<input, queued>>
          ELSE /\ input' = [input EXCEPT ![u].position = @ + count]
               /\ IF ~TimestampsFound(rows)
                  THEN Step(u, "failed") /\ UNCHANGED queued
                  ELSE /\ UNCHANGED thread
                       /\ \E buffers \in TargetBuffers(targets) : queued' = [queued EXCEPT ![u] = buffers]
       /\ UNCHANGED <<cacheVars, bind, needs_decode, current, delivered>>

\* The next buffer, and a decoder of its video file if one is needed.
TakeBuffer(u) ==
    /\ InLoop(u) /\ ~HasBuffer(u) /\ queued[u] # <<>>
    /\ current' = [current EXCEPT ![u] = [NoBuffer EXCEPT !.targets = Head(queued[u])]]
    /\ queued' = [queued EXCEPT ![u] = Tail(@)]
    /\ IF needs_decode
       THEN Step(u, "acquire") /\ StartAcquire(u, Head(queued[u])[1].shard)
       ELSE UNCHANGED <<thread, cacheVars>>
    /\ UNCHANGED <<bind, needs_decode, next_target_ordinal, input, routes, delivered>>

\* The file could not be opened: there is no decoder to discard.
AcquireFails(u) ==
    /\ thread[u].pc = "acquire" /\ OpenFails(u)
    /\ Step(u, "failed") /\ current' = [current EXCEPT ![u] = NoBuffer]
    /\ UNCHANGED <<bind, needs_decode, next_target_ordinal, input, routes, queued, delivered>>

\* BeginBuffer succeeded.
Begin(u) ==
    /\ thread[u].pc = "acquire" /\ user[u].pc = "using"
    /\ Step(u, "loop")
    /\ UNCHANGED <<cacheVars, bind, needs_decode, next_target_ordinal, input, routes, queued, current, delivered>>

\* Mutant: the buffer goes, its decoder stays with the thread.
DecodeFailsKeeping(u) ==
    /\ thread[u].pc = "acquire" \/ (InLoop(u) /\ HasBuffer(u) /\ ~current[u].have_decoded)
    /\ user[u].pc = "using"
    /\ Step(u, "failed") /\ current' = [current EXCEPT ![u] = NoBuffer]
    /\ UNCHANGED <<cacheVars, bind, needs_decode, next_target_ordinal, input, routes, queued, delivered>>

\* BeginBuffer or Next threw: a decoder that failed is not used again.
DecodeFails(u) ==
    /\ thread[u].pc = "acquire" \/ (InLoop(u) /\ HasBuffer(u) /\ ~current[u].have_decoded)
    /\ Discard(u)
    /\ Step(u, "failed") /\ current' = [current EXCEPT ![u] = NoBuffer]
    /\ UNCHANGED <<bind, needs_decode, next_target_ordinal, input, routes, queued, delivered>>

\* WriteTargetRelationRow: the row, with the route of its batch.
Write(u, target) ==
    /\ delivered' = [delivered EXCEPT ![u] =
          Append(@, [row |-> target.row, ordinal |-> target.ordinal, route |-> routes[u][target.route],
                     frame |-> target.frame, padding |-> target.padding])]
    /\ thread' = [thread EXCEPT ![u].count = @ + 1, ![u].bytes = @ + PixelBytes(target)]

\* Nothing is decoded: the rows of the buffer as far as the output has room.
WriteRow(u) ==
    LET buffer == current[u]
    IN /\ ~needs_decode /\ InLoop(u) /\ HasBuffer(u)
       /\ Write(u, buffer.targets[buffer.position + 1])
       /\ current' = [current EXCEPT ![u] = IF buffer.position + 1 = Len(buffer.targets)
                                            THEN NoBuffer ELSE [buffer EXCEPT !.position = @ + 1]]
       /\ UNCHANGED <<cacheVars, bind, needs_decode, next_target_ordinal, input, routes, queued>>

\* Next returns the frame of the next target.
Decode(u) ==
    /\ needs_decode /\ InLoop(u) /\ HasBuffer(u) /\ ~current[u].have_decoded
    /\ current[u].position < Len(current[u].targets)
    /\ current' = [current EXCEPT ![u].position = @ + 1, ![u].have_decoded = TRUE]
    /\ UNCHANGED <<cacheVars, bind, needs_decode, next_target_ordinal, thread, input, routes, queued, delivered>>

\* Next says that the buffer is done: the decoder is idle again.
BufferDone(u) ==
    /\ needs_decode /\ InLoop(u) /\ HasBuffer(u) /\ ~current[u].have_decoded
    /\ current[u].position = Len(current[u].targets)
    /\ Release(u)
    /\ current' = [current EXCEPT ![u] = NoBuffer]
    /\ UNCHANGED <<bind, needs_decode, next_target_ordinal, thread, input, routes, queued, delivered>>

Decoded(u) == current[u].targets[current[u].position]

\* The frame does not fit.  The first frame of an output always does.
Overflows(u) ==
    /\ thread[u].count > 0
    /\ PixelBytes(Decoded(u)) >
          MaxOutputBytes - (IF thread[u].bytes < MaxOutputBytes THEN thread[u].bytes ELSE MaxOutputBytes)

WriteFrame(u) ==
    /\ needs_decode /\ InLoop(u) /\ current[u].have_decoded /\ ~Overflows(u)
    /\ Write(u, Decoded(u))
    /\ current' = [current EXCEPT ![u].have_decoded = FALSE]
    /\ UNCHANGED <<cacheVars, bind, needs_decode, next_target_ordinal, input, routes, queued>>

\* The loop ends: the output is full, the frame does not fit, or there is no more input.
LoopEnds(u) ==
    /\ thread[u].pc = "loop"
    /\ \/ thread[u].count >= OutputBatchSize
       \/ current[u].have_decoded /\ Overflows(u)
       \/ ~HasBuffer(u) /\ queued[u] = <<>> /\ input[u].position >= Len(input[u].rows)

\* Mutant: the buffer in hand is not asked for.
InputPassed(u) == input[u].position >= Len(input[u].rows) /\ queued[u] = <<>>

InputFinished(u) ==
    input[u].position >= Len(input[u].rows) /\ queued[u] = <<>> /\ ~HasBuffer(u)

\* NEED_MORE_INPUT after FinishInput, or HAVE_MORE_OUTPUT.
Return(u) ==
    /\ LoopEnds(u) /\ Step(u, "outside")
    /\ IF InputFinished(u)
       THEN /\ input' = [input EXCEPT ![u].position = 0, ![u].initialized = FALSE]
            /\ routes' = [routes EXCEPT ![u] = <<>>] /\ queued' = [queued EXCEPT ![u] = <<>>]
            /\ current' = [current EXCEPT ![u] = NoBuffer]
       ELSE UNCHANGED <<input, routes, queued, current>>
    /\ UNCHANGED <<cacheVars, bind, needs_decode, next_target_ordinal, delivered>>

\* LerobotTemporalTargetsFunction: a chunk is answered in the order of its rows.
TemporalCall(u) ==
    /\ thread[u].pc = "outside" /\ bind.operator = "lerobot_temporal_targets"
    /\ input[u].number < MaxChunks
    /\ \E rows \in Chunks :
          /\ input' = [input EXCEPT ![u] = [rows |-> rows, number |-> @.number + 1,
                                            position |-> 0, initialized |-> FALSE]]
          /\ next_target_ordinal' = next_target_ordinal + Len(rows)
          /\ IF \E i \in DOMAIN rows : ~RowValid(rows[i])
             THEN Step(u, "failed") /\ delivered' = [delivered EXCEPT ![u] = <<>>]
             ELSE /\ UNCHANGED thread
                  /\ delivered' = [delivered EXCEPT ![u] =
                        [i \in DOMAIN rows |->
                            LET target == TemporalTarget(rows[i].frame, Offset(rows[i]), rows[i].length)
                            IN [row |-> i, ordinal |-> next_target_ordinal + i - 1, route |-> i,
                                frame |-> target.frame, padding |-> target.padding]]]
    /\ UNCHANGED <<cacheVars, bind, needs_decode, routes, queued, current>>

\* External: the query ends early, between two calls of a thread that holds a decoder.
DropThread(u) ==
    /\ thread[u].pc = "outside" /\ Drop(u)
    /\ Step(u, "dropped")
    /\ UNCHANGED <<bind, needs_decode, next_target_ordinal, input, routes, queued, current, delivered>>

-----------------------------------------------------------------------------

Init ==
    /\ CacheInit
    /\ bind \in Binds /\ needs_decode \in BOOLEAN /\ next_target_ordinal = 0
    /\ LET accepted == \A i \in DOMAIN bind.deltas : DeltaAccepted(bind.deltas[i], bind.tolerance)
       IN thread = [u \in Users |-> [pc |-> IF accepted THEN "outside" ELSE "failed", count |-> 0, bytes |-> 0]]
    /\ input = [u \in Users |-> NoChunk]
    /\ routes = [u \in Users |-> <<>>] /\ queued = [u \in Users |-> <<>>]
    /\ current = [u \in Users |-> NoBuffer] /\ delivered = [u \in Users |-> <<>>]

\* What a thread does by itself: everything but being dropped.
ThreadStep(u) ==
    \/ TemporalCall(u) \/ Call(u) \/ Build(u) \/ TakeBuffer(u) \/ Begin(u) \/ AcquireFails(u) \/ DecodeFails(u)
    \/ WriteRow(u) \/ Decode(u) \/ BufferDone(u) \/ WriteFrame(u) \/ Return(u)
    \/ Acquire(u) /\ UNCHANGED targetVars
    \/ CloseDiscarded(u) /\ UNCHANGED targetVars

OutOfInput(u) == thread[u].pc = "outside" /\ ~input[u].initialized /\ input[u].number = MaxChunks
Ended(u) == thread[u].pc \in {"failed", "dropped"} \/ OutOfInput(u)

\* Every thread has ended, or waits for a decoder that was dropped with the query.
Terminated ==
    /\ \A u \in Users : Ended(u) \/ (user[u].pc = "wait" /\ At("dropped") # {})
    /\ At("closing") = {} /\ UNCHANGED vars

Next ==
    \/ \E u \in Users : ThreadStep(u) \/ DropThread(u)
    \/ Terminated

Spec == Init /\ [][Next]_vars
FairSpec == Spec /\ \A u \in Users : WF_vars(ThreadStep(u))

-----------------------------------------------------------------------------

\* Each row of a chunk is answered once, over batches, buffers, full outputs and frames that
\* did not fit: never twice, and all of them when the operator asks for the next chunk.
RowsAnsweredOnce ==
    \A u \in Users :
       LET rows == [i \in DOMAIN delivered[u] |-> delivered[u][i].row]
       IN /\ IsInjective(rows)
          /\ thread[u].pc = "outside" /\ ~input[u].initialized =>
                ToSet(rows) = DOMAIN input[u].rows

\* A row is written with its own route although the routes of a batch are thrown away by the
\* next one, and its target_ordinal is that of no other row of any thread.
RowsKeepTheirRoute ==
    \A u \in Users : \A i \in DOMAIN delivered[u] :
       /\ delivered[u][i].route = delivered[u][i].row
       /\ \A v \in Users : \A k \in DOMAIN delivered[v] :
             delivered[v][k].ordinal = delivered[u][i].ordinal => u = v /\ i = k

\* Both operators answer a row with the frame that is nearest to the time of its delta, the
\* even offset if two are, or with the nearer end of the episode, which is_padding tells.  A
\* delta that is not near a frame is never answered, and no sum of the code overflows.
FramesInEpisode ==
    \A u \in Users : \A i \in DOMAIN delivered[u] :
       LET row == input[u].rows[delivered[u][i].row]
           delta == bind.deltas[row.delta_index]
       IN \E offset \in -(2 ^ (Width - 1))..(2 ^ (Width - 1) - 1) :
             LET distance == IF offset * Scale < delta THEN delta - offset * Scale ELSE offset * Scale - delta
                 sum == row.frame + offset
                 inside == sum \in 0..(row.length - 1)
             IN /\ 2 * distance < Scale \/ (2 * distance = Scale /\ offset % 2 = 0)
                /\ distance <= bind.tolerance
                /\ delivered[u][i].padding = ~inside
                /\ delivered[u][i].frame = IF inside THEN sum ELSE IF sum < 0 THEN 0 ELSE row.length - 1

\* A thread holds a decoder exactly while it works on a buffer of that video file, across
\* calls too, and none after a failure: a decoder that failed is never given to another thread.
DecoderFollowsBuffer ==
    \A u \in Users :
       /\ user[u].pc \in {"using", "dropped"} => HasBuffer(u) /\ user[u].shard = current[u].targets[1].shard
       /\ needs_decode /\ HasBuffer(u) => user[u].pc \notin {"idle", "closing"}

\* Every thread ends, with all its input answered or with an error, unless the query ended
\* early: no call returns nothing for ever, and nobody waits for a decoder for ever.
ThreadsEnd == \A u \in Users : <>(Ended(u) \/ At("dropped") # {})
=============================================================================
