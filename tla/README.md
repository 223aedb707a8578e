# Verification of the LeRobot extension for DuckDB

This directory models the extension in `src/` (C++: `src/src/**`; DuckDB, FFmpeg and the
operating system are external) in TLA+. TLC checks the modules on small instances; TLAPS
proves most of their safety properties for every value of the constants. `PROJECT.json` lists the
components, the runs, the mutants that show each property to depend on the code, the source
lines of every definition, and the hazards the properties are for.

Paths below are relative to `src/src/`; `VF` is `function/video/lerobot_video_frames.cpp`.

## The system

The extension registers table functions, a scalar function and a copy function. A LeRobot
dataset is a directory: `meta/info.json` is its manifest, `meta/episodes/**` has one row per
episode saying which data file holds its frames and which seconds of which video show them,
`data/**` holds the frames, `videos/**` the videos.

    SQL ── COPY TO ─────────► COPY writer ──► staging directory ──► root
                                 │  EncodeEpisodeVideos, MaterializeVideoShards
                                 ▼
                              codec executor (one per process) ──► visual writer ──► video I/O
    SQL ── lerobot_scan ────► metadata cache ◄── all readers
    SQL ── video_frames ────► frame pipeline: producers ─► buffers ─► consumers
             video_windows        │ nested queries              │ decoder cache ─► shard decoder
    SQL ── video_targets ───► batches ─► timestamp lookup       │ decoder cache
                                  │ nested queries

| Component | State it keeps | Operations | What is hard |
|---|---|---|---|
| Codec executor (`function/copy/lerobot_codec_executor.cpp`) | a queue, a pool, three thread counters, a list of live batches; per batch results, first error, counters, a flag | `Execute`, the workers' loop, the destructor | calls of several queries share the pool; each has its own thread limit; errors, interrupts and thread creation failing race with completion |
| Frame pipeline (`VF` 1928-2900) | partial and ready buffers, busy shards, blocked producers, the count of pending targets, stop and error | producers queue targets, block, resume; consumers claim, emit, finish; stop | two kinds of tasks under one mutex and one condition variable; DuckDB reschedules, cancels and drops them |
| Decoder cache (`VF` 1482-1575) | open count, idle decoders per shard, their recency | acquire, release, discard | opening and closing happen outside the mutex; waiting has no timeout |
| Shard decoder (`VF` 279-407, 789-1480) | FFmpeg's demuxer, codec and position, two frames in hand, the targets of a buffer in clusters | seek, continue, decode, match frames to targets | the codec lags behind its packets and must be flushed; a buffer may go on where the last one ended |
| Video targets operator (`VF` 1631-1925, 3194-3292) | a counter of ordinals; per thread the chunk, the batch, its buffers, the decoder and a frame that did not fit | claim ordinals, resolve timestamps, buffer, decode, return a chunk | one call answers part of a chunk; the next one goes on in the middle of a buffer |
| Timestamp lookup (`storage/lerobot_timestamp_lookup.cpp`) | slots of shards in order of use, indexes under a byte budget | look up, load an index, evict | the mutex is released while files are read; files change |
| Metadata cache (`storage/lerobot_metadata_cache.cpp`) | one entry of dataset metadata and one of video routes per root and access configuration | get, validate, load, invalidate | files, settings and secrets change between the reads of one call; no lock |
| COPY writer (`function/copy/lerobot_copy.cpp`) | data, video and episode files with their names, the current episode, buffered rows, the staging directory | sink, finish an episode, rotate files, finalize, clean up | three kinds of files rotate independently; rows name files that do not exist yet; any step may fail |
| Nested query (`lerobot_query.cpp`) | a list of running queries, one watching thread | register, scan, unregister, fetch | an interrupt may precede the query's start; the thread borrows contexts |
| Video I/O (`function/copy/lerobot_video_io.cpp`) | open handles, the first error | FFmpeg's callbacks | errors cannot pass through C; order of flush, sync and close |
| Visual writer (`function/copy/lerobot_video_writer.cpp`) | per job an encoder, a container and files; one process-wide lock | encode, concatenate, write PNG | errors anywhere, also in destructors; a library with global state |
| Temporal targets (`function/temporal/*.cpp`) | a counter of ordinals | clamp a frame into its episode | integer limits |
| Statistics, options, schema, scans, images, paths | none | pure functions of their input | floating point, formats |

What makes each component correct:

* **Codec executor**: no COPY makes the process use more codec threads than its own limit
  while it encodes; every job is done, discarded or still held by someone; `Execute` comes
  back, with all results or the first error, and nothing it lent is used afterwards.
* **Frame pipeline**: every target of every row is emitted once or the query fails; memory is
  bounded; nobody waits for ever.
* **Decoder cache**: at most `max_cached_decoders` decoders are out or idle; no one waits
  although a slot is free.
* **Shard decoder**: a target gets the nearest frame of the video, or an error; how the decoder
  got to the frame makes no difference.
* **Video and temporal targets**: every row is answered once, with its own route and ordinal, and
  both operators agree on the frame.
* **Visual writer and video I/O**: a job that succeeds has written a complete file; one that
  fails reports the first error and holds nothing; a row gets back the frame it was written with.
* **Timestamp lookup**: all indexes fit the budget; an answer is that of the file as it was
  during the lookup.
* **Metadata cache**: an entry is what its fingerprint says, belongs to its store, and was the
  dataset at one moment, or, of a local root, its manifest with each episode file at one moment.
* **COPY writer**: the root appears with everything, or not at all, and takes the place of nothing but
  an empty directory; every row says where its frames are.
* **Nested query**: an interrupted caller is left; no dead context is touched.

## Modules

| Module | Models | Notes |
|---|---|---|
| `CodecExecutor` | the executor, all of it | one action per critical section or access to the atomic flag |
| `CodecExecutorProofs` | theorems about it | |
| `VideoFrames` | producers, consumers and the shared state | the mutex is a variable where a loop holds it over several targets |
| `VideoFramesProofs` | theorems about it | |
| `DecoderCache` | `LerobotDecoderCache` | offers its operations to `VideoTargets` |
| `TemporalTargets` | deltas, rounding, the clamp of `lerobot_temporal_targets` | operators on integers of limited width |
| `VideoTargets` | the operator `lerobot_video_targets` | composes `DecoderCache` and `TemporalTargets` |
| `VideoTargetsProofs` | theorems about it and about `DecoderCache` | |
| `NearestFrame` | what the shard decoder promises | abstract: a video, the targets left, the last answer |
| `ShardDecoder` | `LerobotShardDecoder` and its buffers | implements `NearestFrame` |
| `VideoIO` | `LerobotVideoIO` | maps the state of a file to the states after a call |
| `VisualWriter` | `EncodeVideo`, `ConcatenateVideos` | extends `VideoIO` |
| `VideoRoundTrip` | a file from its rows to the answers of a query | composes `VisualWriter` and `ShardDecoder` |
| `VideoRoundTripProofs` | theorems about `VisualWriter`, `ShardDecoder` and both together | |
| `DatasetPublication` | what COPY promises | abstract: a root, a result, an outcome |
| `CopyWriter` | sink, finalize and staging directory | implements `DatasetPublication` |
| `CopyWriterProofs` | theorems about it | |
| `TimestampLookup` | `LerobotTimestampLookup` and its workers | |
| `TimestampLookupProofs` | theorems about it | |
| `MetadataCache` | `LerobotDatasetMetadata::Get`, `LerobotVideoMetadata::Get` | |
| `MetadataCacheProofs` | theorems about it | |
| `NestedQuery` | `LerobotNestedQuery` and its monitor | |
| `NestedQueryProofs` | theorems about it | |
| `MC_*` | instances for TLC | |

Every module with actions names its variables as the code names its members. `pc` (or the
`pc` of a record) is the step of a thread between two critical sections, two calls of a
library or two accesses to shared state; everything within one is a single action.
Definitions called *Mutant* are plausible errors in the definition that follows them; no
action uses them.

### CodecExecutor

A *batch* is a call of `Execute`, a *job* a video of it. `batch[b]` is
`LerobotCodecBatchState`; `call[b]` the caller's locals, from `Enqueue` by way of the polling
loop (`Poll` alone discards and cancels) to one of the ends; `worker[w]` the locals of
`WorkerLoop`. The queue is a set: jobs are appended batch by batch and the scan of the queue
takes the first job that fits, so the order follows from the tickets. `TakeJob` is
`TakeJobLocked`: a job that fits its batch's and the process's budgets, or that of a cancelled
batch, which is taken without a reservation. `max_workers`, the codec budget and the host's
thread limit of a call are an arbitrary element of `Requests[b]`; the limit may have changed since
the budget was derived. What an encoder does is `ok` or a failure; any job of a cancelled batch
may fail with an interrupt. `EnqueueFails` is a thread that cannot be created.

### VideoFrames

`producer[p]` is a `LerobotVideoProducerTask`: it opens a source query (`GetQuery`,
`StartQuery`), reads rows, and queues the targets of each row. `QueueTargets` is four actions,
since it holds the mutex over several targets and may block in between: `LockQueue`,
`QueueTarget`, `TargetsQueued`, `BlockProducer`. `consumer[c]` is the local state of a scan
task: it claims a ready buffer whose shard is free, emits the targets and finishes the buffer.
DuckDB's part is external: `Interrupt`, `Cancel` (the executor cancels its tasks after an
error), `DropConsumer` (a LIMIT above the scan ends a pipeline task, which keeps what it
holds), `DestroyScan`. Cluster order within a buffer and the decoder are left out; a buffer is
a set of targets, and `Without` is the removal of a shard from the list of partial buffers.

### DecoderCache

`user[u]` is a thread that uses the cache. The deque of decoders of a shard is the number of its
idle decoders, since they do not differ. Closing an evicted decoder, opening a new one and
closing a discarded one are steps of their own outside the mutex. `StartAcquire`, `Release`,
`Discard` and `Drop` are called by the thread that owns `u`, in `VideoTargets`; the frame
pipeline uses the cache in the same order (acquire for a claimed buffer, then release or
discard).

### VideoTargets and TemporalTargets

`thread[u]`, `input[u]`, `routes[u]`, `queued[u]` and `current[u]` are
`LerobotVideoTargetsLocalState`; the local state is private, so an action is one step of the loop
of `LerobotVideoTargetsFunction`, and threads meet in the cache and in the counter of ordinals. A
row names its video file, the frame, the length of its episode, the bytes of its image, and
whether its route and its timestamp exist: `Build` passes the batch before it looks its timestamps
up, as the code does. The buffers of different files are in any order, since an unordered map
gives it; within a file, `BufferAt` cuts the targets of a batch by their rank in the order that
the code sorts them in (`Precedes`, `Place`). `DropThread` is DuckDB destroying an operator
between two calls. `TemporalCall` answers a whole chunk with the other operator. The arithmetic of
both clamps is two's complement of `Width` bits; a delta is a number of quarters of a frame.

### ShardDecoder and NearestFrame

`pc` is the place in `Next` and `ReadFrame` that the decoder is at; the actions are its
branches. FFmpeg is what the code relies on: a seek goes back to a keyframe, packets come in
order, the codec returns a frame when it holds more packets than it delays (`delay`) or is
drained, and a flush forgets what it holds. Reading, opening and converting may fail at any
time; a failed read that FFmpeg reports as the end of the file is found by `ThrowIOError`
(mutant `ReadPacketBelieved`). `NearestFrame` knows no position: it answers the head of the
list of targets that are left with the nearest frame, or refuses it. The refinement mapping
gives `Remaining`, the targets of the buffer behind the place in its clusters.
The abstract decoder may give up with `budget` only on a video that is not `Regular`, so the
budget of a seek is shown to be enough for every video of the dataset's frame rate whose keyframes
are *less than* `SafetyMargin` frames apart. At a distance of exactly `SafetyMargin` it is not: the
timestamp of a seek is rounded to a tick and then set back by one (`SeekTick`, `VF:1127`), so a
target less than half a tick after a keyframe is sought from the keyframe before, and one frame
more is decoded than the margin has room for. The instance has several units to a tick to meet
this. A file is what `IsVideo` says: timestamps that increase and are multiples of the time base.
`Sorted` and `ClustersOf` are the sort and the loop of `FinalizeDecodeBuffer`, the first as the
order it establishes, the second as a recursive function.

### VideoIO and VisualWriter

Each job runs the steps of `EncodeVideo` (job e) or `ConcatenateVideos` (job 0), with one action
per call of FFmpeg that may reach the file or the lock of SVT-AV1; `unwind` is the destructors, in
their order. A file is a list of data; `buffered` is what FFmpeg has taken and the file system
has not. FFmpeg may write its buffer at any call. `first` is history: the first error of a file,
whatever the code keeps. Jobs run in parallel, as the codec executor runs them; concatenation
starts when all have succeeded.

### VideoRoundTrip

COPY writes a file or fails; when it succeeded, `Publish` turns the packets of the file into a
video for the decoder, and a query asks for targets. A query may also open one of the files
of `Videos`, which other programs wrote. `RowsShowTheirFrames` joins both halves: the decoder
answers the timestamp of a row with the frame of the row. `TimeBaseAssumption` is for the file that
COPY writes: `EncodeVideo` gives the encoder and the stream a time base of one frame, of which the MP4
muxer makes that unit or a fraction of it.

### CopyWriter and DatasetPublication

Three writers (`data`, `metadata`, and per feature a pending video shard) put rows into files
at locations `[chunk, file]`, and `Advance` is `AdvanceFileIndex`. Whether the size of a file
asks for rotation is a free choice for Parquet files, whose sizes come from the encoder, and
follows from the sizes of the fragments for videos. Time is counted in frames: a fragment ends
at `EndOf`, the number of the frames up to it, which is the cardinality of a set of pairs
(fragment, frame). `pc` runs through `Finalize` step by step;
any step may fail (`unwind`, then the destructor) or be the last before a crash. The constructor
looks at `root` and `staging`, whose name holds a random UUID; what is there at that time belongs to
somebody else. `Publish` is a bare `MoveFile`: meanwhile others may have made the root, as a dataset or a
file (`foreign`) or as a directory that is still `empty`. What rename(2) does decides then (`Movable`): it
fails on the former and silently replaces the latter, so `DatasetPublication` promises no more than
that, and a process that made the directory and writes to it by name later writes into the published
dataset. On systems whose rename fails on an empty directory `Publish` is the step `Fail`.
`CreateDirectoriesRecursive` may also make directories above the root, which nobody
removes when the COPY fails; they are not part of the model, and `NothingLeftBehind` speaks of the root and
the staging path only. The refinement mapping reads the files as
a reader of the root would: by way of the episode's row to its data file, its video routes and
the task table.

### TimestampLookup

Versions of a file stand for its fingerprint and its rows; an index is known by the versions
its rows were read from. `slot` holds the slots that are tracked or held by a worker, because
both hold shared pointers; a slot that nobody holds is forgotten. Memory is counted in rows.
`since` records the versions a file had since a lookup began.

### MetadataCache

A store is what a root means under one access configuration. Manifest and episode files have
generations, numbered per store, and each is rewritten by itself. `Get` reads the configuration,
the manifest and *each* episode file in a step of its own. What goes through the files one after
the other in the order of their names is `LoadFiles` (the listing of a remote root) and
`FilesAreValid` (its comparison, `next` is the file it has come to); `LoadEpisodes` and `VideoRead`
are the scans of the nested queries, whose files come in any order. Local roots have no fingerprints
of episode files (`Unlisted`): nothing but the manifest is compared, so the rows of one file from
before and another from after a rewrite are kept, and stay valid until the manifest changes.
`EntryIsSnapshot` says what is left there: each file's rows were the root's together with the
manifest, at a moment of their own. Of a remote root it says that the manifest and all files were
the root's at one moment; the listing before the scan and the comparison after it see to that, although
neither is atomic. `seen` and `met` are history: what the root was during a call, and which
generations existed together. Which episode files there are does not change: a file that appears or
disappears changes the listing of a remote root like a rewritten one, and the rows of a local one.

### NestedQuery

`interrupted` and `child_interrupted` are DuckDB's flags of the caller's and the connection's
context; `Send` clears the latter, as DuckDB does when a query starts. `Scan` is one round of
the monitor's loop. The settings and the transaction a reader inherits are one step that may
fail.

## Runs

| Run | Instance | What it shows |
|---|---|---|
| `codec_mixed_limits` | a call of 2 jobs and one of 1, 2 workers, limits of 1 and 2 threads | budgets, job accounting, results or first error, pool size, in every interleaving |
| `codec_liveness` | 2 calls of one job, only one fits at a time | every call returns, the destructor joins |
| `video_two_producers` | 2 producers, 2 consumers, 2 shards, 3 pending targets | accounting, no target lost or twice, capacity, reason of an error |
| `video_limit_one_thread` | 1 consumer that a LIMIT may end, 2 producers, 3 queries | consumers and producers end |
| `video_limit_two_threads` | 2 consumers that a LIMIT may end, 1 producer that blocks on every target | **violated**: see below |
| `copy_publication` | 4 episodes, 4 frames, 1 video, 2 tasks, 2 files a chunk | where rows and routes point, cleanup, atomic publication |
| `timestamp_lookups` | 2 workers, 2 shards, 1 tracked slot, a budget of 2 rows, files that grow | budget, exact indexes and current answers under eviction and rewriting, one loader |
| `metadata` | 2 episode files; 2 clients on a remote root until a switch or a second rewrite, then 1, and 1 on a local root; 2 stores, one switch, two rewrites | entries match their fingerprints, snapshots, and what a call returns was current during the call |
| `metadata_two_switches` | 1 client, 2 stores, two switches | **violated**: see below |
| `nested_queries` | 3 queries of 2 callers | lifetime of what the monitor borrows; an interrupt ends a query |
| `video_targets` | 2 threads, one decoder slot, 2 files, chunks of 1 to 4 rows | slots and waiting of the cache under its real user; each row once with its route and frame; decoders follow buffers; threads end |
| `video_round_trip` | 2 episodes of 2 frames in parallel, then 3 buffers of targets; or one of 6 other files | complete files or the first error, nothing held; the decoder implements `NearestFrame`; rows show their frames |

A run carries both the safety and the liveness properties of its module where the instance is
small enough; the liveness of the codec executor and of the frame pipeline needs smaller
instances than their safety, so these two have a run for each. The types of variables are
invariants of the proofs and no property of a run.

### Bounds

* `Batches`, `Workers`, `MaxJobs`, `MaxThreads`: two calls with unequal limits are the least in
  which one call's reservation can break another's limit, and two jobs of one call the least in
  which one fails while another runs or waits. Shares that do not divide evenly are beyond this
  instance; the theorems about the executor cover them.
* `Shards`, `FrameQueries`, `MaxPendingTargets`, `TargetBufferSize`: more targets than may be
  pending, rows of two shards, buffers that fill up and buffers that must be flushed, more queries
  than producers.
* `Users`, `MaxCachedDecoders`, `Shards`: one more user than slots, and one more shard than slots,
  so that there is waiting and evicting. With one slot the idle decoder a user evicts is always
  the other shard's or the one of a thread that was dropped.
* `OutputBatchSize`, `TargetBufferSize`, `MaxPendingTargets`, `MaxOutputBytes`: a chunk of 4 rows
  is more than a batch (3), a batch more than a buffer (2), and outputs are full in rows (3) and
  in bytes (3) in the middle of a buffer. `MaxChunks` is 1 for each thread; `Return` resets the
  local state to what it is before the first chunk, except for the counters, which only grow.
* `Width`, `Scale`: 4 bits, with frames, lengths and deltas at both ends; quarters of a frame tell
  a half from what is near it.
* `FrameCounts`, `StartTimes`, `Lag`, `Svt`: two frames and a lag of one are the least in which an
  encoder holds back a frame at the end; both episodes need the lock; the second one starts late.
* `MaxBuffers`, `Requests`: three buffers, so that a buffer may go on from one that went on; the
  targets are before, on, between and after frames, several share a frame, and gaps are within and
  beyond `ClusterGap`, spans within and beyond `MaxClusterFrameSpan`.
* `Tick`, `FrameDuration`: 4 units to a tick and 2 ticks to a frame; targets lie less than half a
  tick, half a tick and more than half a tick after a frame, so that `SeekTick` rounds both ways.
* `Videos`: keyframes at every one to three frames, codecs without and with delay, a variable
  frame rate, a late start, too few keyframes for the budget, no frame at all.
* `MaxEpisodes`, `MaxFrames`, `MaxFiles`: with two files per chunk, three episodes reach the
  second chunk; four leave rows buffered by two across its boundary. `MaxFiles` exceeds
  `MaxEpisodes`, so names never run out.
* `LastVersion`, `LastGeneration`, `MaxRewrites`, `MaxSwitches`, `MaxCalls`, `Files`: bounds on
  rewrites, switches, episode files and the calls under way. Two rewrites and two files make every
  mixture of old and new in a listing, a scan or a comparison, such as the second file rewritten
  before it is read and the first one after; a file of the store that no call looks at has no effect
  on what is checked. With one switch a second call on the new store adds nothing to one on the
  old. Runs with one switch satisfy `KeptUnderItsKey`, the run with two violates it.
* `Limit`, `MaxTracked`, `IndexOnVisit`, `MinRequests` are options or constants of the code with
  small values, so that the budget and the tracking are exceeded at once. `MinRequests` is more
  than `IndexOnVisit`: a shard that is visited often enough by small lookups is not read yet.

The sets of clients, workers and consumers are symmetric in runs without liveness.
`MC_NestedQuery` has three queries, so that one caller has two and an entry is erased from the
middle of the list.

### Fairness

* Threads of the codec pool and callers of `Execute` are scheduled, and encoders return
  (`FairSpec` of `CodecExecutor`). The caller polls with a timeout; workers sleep without one,
  so their wakeups are modelled. No fairness is assumed of interrupts or of the destructor.
* DuckDB schedules producers and consumers, cancels the tasks of a failed query and destroys a
  scan that has ended. Source queries and decoders return; a blocked producer is *not* assumed
  to be resumed by anyone but the code.
* DuckDB calls `lerobot_video_targets` again until it asks for input or the query ends
  (`FairSpec` of `VideoTargets`: a thread that can take a step takes one). Waking a user of the
  decoder cache is up to the code. `VideoRoundTrip` is checked for safety only.
* A nested query's thread runs, DuckDB's executor polls the flag of a running query, and the
  monitor wakes every 10 ms. That DuckDB ever delivers a chunk is not assumed.

Deadlock is checked in every run; systems that may end have an action `Terminated`.
Spurious wakeups of condition variables are left out: every wait is in a loop that looks again.

## Where the code differs from its comments

* **A LIMIT with several scan threads** (`video_limit_two_threads`, `VF:2770`). A pipeline task
  that a LIMIT ends keeps the buffer it claimed, and nothing finishes the buffer for it: its shard
  stays busy. When the ready buffers are all of this shard and the producers are blocked, the
  other consumer finds nothing to claim and nobody is resumed; it waits until the query is
  interrupted. The comment at `VF:2100` says that a consumer can always create capacity. With one
  consumer (`video_limit_one_thread`) the scan ends with the task, and nothing is left waiting.
  `CapacityCanBeCreated` holds without early stops (`video_two_producers`).
* **A configuration switched twice** (`metadata_two_switches`,
  `storage/lerobot_metadata_cache.cpp:809`). `Get` compares the configuration before and after
  loading. If it changes to another store and back in between, and both stores have manifests of
  the same fingerprint, files of one are kept under the key of the other, which the comment at
  line 782 excludes. With a single switch the recheck works: `ReturnedCurrent` holds in
  `metadata`.

## Proofs

Eight modules prove what the runs check on small instances for all values of the constants that
satisfy the assumptions named in the modules. The assumptions say which values an option of the
code can have (buffer sizes, limits and budgets are positive; there are names for one file more
than episodes, and workers for the largest limit), that threads, files and clients are finitely
many, and what the input is made of (`RequestsAssumption`: a buffer has targets, `VF:941`;
`VideosAssumption`: a file is a video; `TimeBaseAssumption`, above); none restricts how many there
are. `InputAssumption` of
`VideoTargets` leaves out deltas that round up to the end of the range of integers, where doubles
have no fractions. The bounds on rewrites, switches and episodes are constants too, so the
theorems hold for every one of them. What each module proves:

| Module | Theorems: properties of the runs, *and others* |
|---|---|
| `CodecExecutorProofs` | `HostBudgetRespected`, `ReservationsAccounted`, `JobsAccounted`, `NothingBorrowedAfterReturn`, `OutcomeIsTrue`, `PoolPrepared`, *`TypeOK`: no counter wraps* |
| `VideoFramesProofs` | `PendingTargetsExact`, `OneConsumerPerShard`, `NoSilentTruncation`, `NoTargetTwice`; `CapacityCanBeCreated` without early stops |
| `VideoTargetsProofs` | of any users of the cache: `SlotsAccounted`, `WaitsForOthers`, *nobody waits when there is a slot for each user*; of the operators: `RowsAnsweredOnce`, `RowsKeepTheirRoute`, `FramesInEpisode`, `DecoderFollowsBuffer`, *the refinement of `DecoderCache`* and thereby both its invariants |
| `VideoRoundTripProofs` | `FilesComplete`, `FirstErrorThrown`, `EndedJobsHoldNothing`, `RowsShowTheirFrames`, for any number of episodes and frames; `AnswersNearestFrame` (the refinement of `NearestFrame`), *`DecoderInv`*, for any file and requests; *`OwnRowsAnswered`*, of a file that COPY wrote |
| `TimestampLookupProofs` | `BudgetKept`, `PublishedIndexExact`, `AnswersCurrent`, `LoadingHasLoader` |
| `MetadataCacheProofs` | `EntryIsSnapshot`, `EntryIsItsFingerprint`, `ReturnedCurrent`, *`KeptUnderItsKey`*, under a condition on the configuration |
| `CopyWriterProofs` | `NothingLeftBehind`, `RowsWhereNamed`, `RouteShowsEpisode`, `PublishesAtOnce` (the refinement of `DatasetPublication`) |
| `NestedQueryProofs` | `BorrowedExists`, *`EntriesWatched`: the monitor has its thread whenever a query is registered* |

Each follows the same plan. An inductive invariant is a conjunction of named parts, which TLC was
given as an invariant on the instance of the module's run before it was proved. There is a lemma
for each action (or for a group of actions that touch the same parts), and most state what an
action leaves alone by way of a *frame* lemma (`QuietStep`, `OthersKeep`, `JobsFrame`), so that
only the disturbed parts are argued anew.

**Codec executor.** `HostBudgetKept` and `Reservations` are not inductive: that a release does
not take more than was reserved depends on what each worker holds. The invariant `IInv` joins

* `Types`, in which the counters are mere integers, so that each subtraction is typed before it
  is known not to be negative;
* `WorkersConsistent`: who has a reservation has a job, and is between taking it and releasing it;
* `IdleCallsAbsent`: a call that has not started has no job and no reservation;
* `CountersExact`: each counter is the cardinality of a set of reservations, written as pairs of
  a worker and the number of one of its threads so that no sum is needed;
* `WithinLimits`, `UnfinishedRegistered` (a batch with jobs left is in the executor's list, so
  its limit is looked at) and `HostBudgetRespected` itself.

Each action either takes one worker into these sets, takes it out, or leaves them alone; three
lemmas say what this does to the cardinalities. That the counters are cardinalities makes them
natural numbers, whence `TypeCorrect`: no unsigned counter wraps.

Jobs have an invariant of their own, `JobsInv`, with one conjunct per call: `Explained` says why
a batch is cancelled (an error that is stored or about to be, an interrupt, or the end of its
call), without which an interrupt could be rethrown that a cancellation provoked; `Placed` says
that each job of a batch that is not cancelled is queued, with a worker or has its result, so
a return without an error has all results; `Back` that nothing is queued or under way for a
call that is over; `Balanced` that the number of jobs is what is completed, what is left,
what is being published and what `Poll` discarded but has not credited yet. `Balanced` is the
equation on which the end of `Execute` depends, and the two amounts in between exist because
the mutex is released there. `PoolPrepared` needs no more than `IInv`: workers are created at
enqueue only, and no later step raises the demand of a live batch (`OtherStepsEase`).

**Frame pipeline.** None of the properties is inductive alone. `TaskInv` says where each producer
is: `Ahead`, the targets it still has to queue, are those of the rest of its row, of the later
rows of its query and of the queries congruent to it. `QueueInv` says that the buffers are
disjoint, that the list of partial buffers names each once, and that the count is the cardinality
of what they hold. `ScanInv` keeps the shards apart, `PlaceInv` says that a target is ahead of one
producer, queued, claimed or emitted, and only one of these. `NoTargetTwice` and
`NoSilentTruncation` are the two halves of this: no target is in two places, and in a scan that
nothing disturbed (`WholeInv`) none is in no place. `BlockedLeavesWork` needs `EarlyStop = FALSE`:
with a LIMIT above the scan it is false, as the run `video_limit_two_threads` shows.

**Decoder cache.** `SlotsAccounted` and `WaitsForOthers` are inductive together. The order of
recency is a list in which a shard occurs as often as it has idle decoders, so a removal of the
first occurrence needs a bijection between places (`Removed`); then each step moves one slot
between users, idle decoders and free slots (`SlotsMove`).

**Targets operators.** `ThreadInv` joins for each thread: its buffers are in line (one per file
and batch, cut at `TargetBufferSize`, the current one from its position); the rows of the chunk
before `position` have an answer or one target left, and not both; what it does agrees with what
it holds of the cache. `OrdinalsUnique` relates the threads. Building a batch is the hard
step: the buffers together hold each row's target once (`Cut`, `Grouped`), for which the
rank of a target replaces the recursion of a sort. The clamp is shown to be right for
every `Width`: no sum of it overflows (`Clamped`, `FrameTyped`). A step of a thread is a step of
`DecoderCache` by its user, or a stutter (`UsesCache`), so the cache's theorems hold under it.

**Visual writer.** The invariant has a part for each thing a job owns. `ErrorOK`: a job runs on
only while its files have no error, and what it throws for a file is the error the file has kept.
`EncodeOK` and `CodecOK`: the encoder holds the last frames it was sent, in order, and the file,
written or still in FFmpeg's buffer (`All`), the ones before; so nothing is left over when the
flushed encoder is empty. `ConcatOK`: the output has the fragments before the current one, shifted to
their place (`Joined`), and of this one what is no longer in its packets; those are the content of the
fragment's file because its job has succeeded. `FileOK` carries the content through the trailer, the
moving of the index and the close, after which a file without an error has nothing buffered and is
synced. `LockOK`: who holds the lock of SVT-AV1 opens or frees an encoder. The operations of
`VideoIO` enter by one relation, `Follows`: an operation keeps the first error, and all data unless it
leaves an error. It is transitive, so the destructors and the trailer, which are chains of operations,
need no case analysis of their own. The contents of files are recursive functions; that they are
what they are defined to be, and that `FlattenSeq` computes them, needs the existence of such
functions (`Recursion`), shown by way of the least number that has no approximation, since the
library's induction theorems are out of reach.

**Shard decoder.** `DecoderInv` says where the decoder is. One number ties its parts together,
`NextFrame`, the next packet less what the codec holds: the codec holds the frames from there
to the packet (`StreamOK`), the frames in hand are the last ones before it, and the frames decoded
since a seek are those from its keyframe on (`FramesOK`). `PlaceOK` follows `pc`, and `Pieces`
says that the clusters are the targets in their order, cut into pieces. `TargetsOK` is what
continuing depends on: the frame before the current one lies before every target that is left
(`Behind`), and between two buffers before the last target, which the next buffer starts at or
after if it goes on (mutant `ContinuesBackwards`). From this a selected frame is nearest in three
cases: the first one after a seek, which starts at or before the target or at the first frame
(`NearestFirst`), one of two neighbours (`NearestOfTwo`), and the last of the file (`NearestLast`).
The pixel cache needs that no two frames share a timestamp (`ConvertIs`). The budget
(`BudgetReaches`): from the keyframe of a seek to a frame whose predecessor is before the last target
there are no more frames than the span and the margin; `Spaced` says that a regular video has
no more frames in a time than the frame rate, and `Division` what its rounding does. That sorting is
possible at all (`Sorting`) and what the recursion of `ClustersOf` gives (`ClustersAre`) are shown,
as for the writer, by the least counterexample.

Each step is then one of `NearestFrame` (`DecoderStep`): `BeginBuffer` is `Ask`; `Select` and
`SelectLast` are `Answer` or `Refuse`; a fault and an exhausted budget are `GiveUp`; all
reading, seeking, moving on and continuing stutters, because `Remaining` does not see it.
`Publish` is `Write`, since no target was asked for.

**Round trip.** `PublishedIs` joins the two halves: by `CompleteFiles` the file that a query opens
is `FileOf` the frames of all episodes at their places. Its timestamps increase (`JoinedAt`, `FileIs`),
so the frame at the timestamp of a row has distance 0 and is the only one that has; the nearest frame
is that one, whence `RowsShowTheirFrames` from `AnswerOK` and the invariant of the query.

`OwnRowsFound` says the converse, that such a row has an answer: a query that asks for a row
of a published file is never told that no frame matches, and never exhausts a budget if `Gop` is
below `SafetyMargin`. Each frame belongs to an episode (`FrameOfEpisode`), an episode starts with a
keyframe and has one every `Gop` frames, so the file is `Regular` (`OwnFileRegular`); the rest follows from
the steps of `NearestFrame` alone. TLC was given `OwnRowsAnswered` on the instance of the run before it
was proved, and reaches queries that are refused for asking between the rows. The condition on
`Gop` is the reader's: the writer accepts every positive 32-bit `rgb_gop`
(`function/copy/lerobot_copy_options.cpp:111`; the default is 2), and the margin is 20000 (`VF:63`), so with
keyframes farther apart than that in an episode nothing here promises that a seek reaches its target.

**Timestamp lookup.** `TrackInv` (the order of use names each tracked shard once), `HoldInv` (a
worker holds a slot exactly while in `GetIndex`), `SlotInv` and `LoaderInv` (one loader, and no
index while it loads), `PrivateInv` (nobody has an index that is still being read), and
`WorkerInv`: what was read lies between the fingerprint taken before and the version now. When
both are equal the index is exact. The budget counts the indexes that workers still read after
their eviction, so a reservation is shown not to forget one (`FewerLive`, `OneMoreIndex`).

**Metadata cache.** The invariant has a part for each stage of `Get` (`CachedInv`, `LoadingInv`,
`GotInv`, `RoutesInv`, `SecondInv`): what a stage read is older than what it is compared with
next, provided the keys are still the configuration's (`Keyed`). `RowsSince` says it of the rows: the
store had each of them together with a manifest not older than the entry's, and the listing is not
newer than the rows. A manifest that is the same afterwards was the same at all these moments
(`SinceIsWith`). The listing needs one moment for all files. `Checked` names it while the comparison goes
from file to file: the moment at which it began. All rows had been read then, and a file that is as
listed afterwards was so at that moment, since generations only grow (`CheckGoesOn`); at the end the
files were as listed and as read, all at once (`CheckEnds`). For the routes of a video
dataset the second `Get` of the dataset does the comparing: what it has found of the manifest and of the files
so far is `SameManifest` and `SameFiles`. That the comparison of keys says
anything about the time between needs the action `NoWayBack` of every step: the configuration does
not become one that a call under way has seen before. It is not an assumption on the code but the
condition under which the code works, and the run `metadata_two_switches` shows that it fails
without. With at most one switch the condition follows, and the corollaries `OneSwitch*` need
nothing else.

**COPY writer.** `RowsInv` relates files, buffers and the query's result: each episode has
one row, the row names a data file that holds its frames and in each shard the fragment that shows
it. It is inductive only with the names a writer has not used (`Unused`): a name that is given
to a row before its file exists must not have been somebody else's, and does not change its
meaning when another writer rotates. `VideoOK` says that the duration of a shard is `EndOf` its
fragments, and lemmas on `EndOf` (`EndOfStep`, `EndOfGrows`, `EndOfPrefix`) that no two fragments
share a time. `StepsInv` says what each step of `Finalize` leaves, which makes the
files readable at `publish`: then `Dataset`, read from the files by way of rows, routes and task
table, is what the query delivered (`DatasetRight`). `StepSimulated` shows each step to be one of
`DatasetPublication` or a stutter.

**Nested query.** The list of the monitor is exactly the set of queries between registration
and its end, each once; those have a connection and a thread. `AppendDistinct` and
`RemoveDistinct` say what registering and erasing do to a list without duplicates. `Borrowed`
and `Watched` follow.

### Only model-checked

* Liveness: it needs fairness and `ENABLED` (`codec_liveness`, `video_limit_one_thread`,
  `nested_queries`, `video_targets`).
* `InterruptEnds`, that an interrupted query ends, is a liveness property of `NestedQuery`.

Every safety property of a passing run, and every refinement, is a theorem. Induction over data,
for which the library's theorems are out of reach here, is done where it is needed by the least
number for which a statement fails.

## Not modelled

* **Shard decoder**: the conversion to RGB or depth, resizing, the arithmetic of the seek
  callback, frames without a timestamp (skipped by the code) and frames out of order (an error).
  The doubles of timestamps are integers here; the tolerance of 1e-9 s between them has no
  counterpart.
* **Visual writer**: PNG and TIFF images, quantization of depth, codec and container options.
* **Video I/O**: positions in a file. That one handle reads while the other one writes the
  same file is modelled by what each reports.
* **Video and temporal targets**: binding, columns of the output, and ordinals beyond 2^63.
  The timestamp lookup is a row that is found or not; its own module has the rest.
* **Statistics, schema, options, scans, images, paths**: pure functions on data, floating point
  and formats; no state. The digest of settings and secrets is one value per configuration in
  `MetadataCache`.
* **Parts of modelled components**: parsing of `info.json`, route tables and Lance snapshots,
  and episode files that appear or disappear (metadata cache); validation of rows, statistics and images (COPY writer); comparison of
  secret catalogs (nested query); order of targets within a decode buffer (frame pipeline, which
  leaves it to `ShardDecoder`).
* **DuckDB's scheduler**: only what it does to the extension's tasks. `WaitsForOthers` therefore
  says that nobody waits for a decoder without somebody who works with one; that DuckDB
  runs that thread is the fairness of `VideoTargets`, and `ThreadsEnd` excepts a query in which
  DuckDB dropped a thread with its decoder.

## Plan

Done: all modules above with their runs; theorems about the codec executor, the frame pipeline,
the decoder cache, the targets operators, the timestamp lookup, the metadata cache, the visual
writer, the shard decoder with its abstract specification and the round trip of a row through a
file, the COPY writer with its abstract specification, and nested queries.

Left as models: an abstract allocator of codec threads that `CodecExecutor` implements, and the
frame pipeline over the decoder cache.
