----------------------------- MODULE CopyWriter -----------------------------
(***************************************************************************)
(* COPY ... TO root (FORMAT lerobot): LerobotCopyGlobalData and its        *)
(* staging directory (src/src/function/copy/lerobot_copy.cpp).             *)
(*                                                                         *)
(* The sink receives the rows of the query in order, one episode after the *)
(* other.  A finished episode is written to the current data file, its     *)
(* encoded videos are appended to the pending shard of each feature, and a *)
(* row that says where everything is goes to a buffer of episode metadata, *)
(* which is written when it is full.  Data files, video shards and episode *)
(* files rotate independently.  Everything is written under a staging      *)
(* directory that Finalize moves to the root as its last step, and that is *)
(* removed when the COPY fails.                                            *)
(*                                                                         *)
(* One sink thread does all of this.  The steps of Finalize are separate   *)
(* actions, since any of them may fail or be the last before a crash.      *)
(***************************************************************************)
EXTENDS Integers, FiniteSets, Sequences

CONSTANTS
    VideoFeatures,         \* the video features of the dataset
    Tasks,                 \* the task strings
    ChunksSize,            \* chunks_size: files per chunk directory
    MetadataBufferSize,    \* metadata_buffer_size
    VideoFileSize,         \* video_file_size_mb
    FragmentSizes,         \* the sizes an encoded episode may have
    MaxEpisodes, MaxFrames, MaxFiles     \* bounds: of the input, and of the file names

ASSUME OptionsAssumption ==
    /\ ChunksSize \in Nat \ {0} /\ MetadataBufferSize \in Nat \ {0}
    /\ VideoFileSize \in Nat \ {0} /\ FragmentSizes \subseteq Nat \ {0}
ASSUME BoundsAssumption ==
    MaxEpisodes \in Nat /\ MaxFrames \in Nat /\ MaxFiles \in Nat /\ MaxFiles > MaxEpisodes

VARIABLES
    pc,               \* the step of the COPY
    root, staging,    \* what is at the dataset root (an "empty" directory is one that somebody
                      \* else made) and at the staging path
    owned,            \* LerobotStagingDirectory::owned
    interrupted,      \* external: the query was interrupted
    data,             \* the data writer: current file name, whether it is open, the files
    videos,           \* for each feature the pending shard and the shards
    metadata,         \* the episode writer, as `data', and the buffered rows
    tasks,            \* the task strings in the order of their indexes
    current,          \* the current episode
    total_episodes, total_frames,
    written,          \* which of tasks.parquet, stats.json and info.json are written
    temporary,        \* whether staging/.tmp holds spools or fragments
    delivered         \* history: the finished episodes of the query's result

writerVars == <<data, videos, metadata, total_episodes, total_frames, delivered>>
episodeVars == <<tasks, current>>
vars == <<pc, root, staging, owned, interrupted, writerVars, episodeVars, written, temporary>>

-----------------------------------------------------------------------------
(* Files *)

\* Mutant: the next chunk is not entered.
StayInChunk(loc) ==
    IF loc.file = ChunksSize - 1 THEN [loc EXCEPT !.file = 0] ELSE [loc EXCEPT !.file = @ + 1]

\* AdvanceFileIndex
Advance(loc) ==
    IF loc.file = ChunksSize - 1 THEN [chunk |-> loc.chunk + 1, file |-> 0]
                                 ELSE [loc EXCEPT !.file = @ + 1]

Locations == [chunk : 0..MaxFiles, file : 0..(ChunksSize - 1)]
FirstLocation == [chunk |-> 0, file |-> 0]
NoFile == [rows |-> <<>>, closed |-> FALSE]

\* A Parquet writer over the files of one kind.  Opening a file discards what it held, and
\* what is flushed can be read when the writer is closed.
NewWriter == [loc |-> FirstLocation, open |-> FALSE, files |-> [l \in Locations |-> NoFile]]
Open(w) == IF w.open THEN w ELSE [w EXCEPT !.open = TRUE, !.files[w.loc] = NoFile]
Flush(w, rows) == [w EXCEPT !.files[w.loc].rows = @ \o rows]
Close(w) == IF w.open THEN [w EXCEPT !.open = FALSE, !.files[w.loc].closed = TRUE] ELSE w

-----------------------------------------------------------------------------
(* An episode *)

NoEpisode == [index |-> -1, frames |-> <<>>, present |-> FALSE]

\* The frames of the current episode, as the tasks of its frames.
Length == Len(current.frames)

IndexOf(task) == CHOOSE i \in DOMAIN tasks : tasks[i] = task

\* GetTaskIndex for the tasks of a run.
WithTask(task) == IF task \in {tasks[i] : i \in DOMAIN tasks} THEN tasks ELSE Append(tasks, task)

\* The data rows of the current episode: what FLUSH writes of them.
DataRows == <<[episode |-> current.index, from |-> total_frames,
               task_indexes |-> [k \in 1..Length |-> IndexOf(current.frames[k])]]>>

\* Mutant: the full file gets no footer.
EnsureWithoutClose(rotate) ==
    Open(IF rotate THEN [data EXCEPT !.open = FALSE, !.loc = Advance(@)] ELSE data)

\* EnsureDataWriter: the writer reports the size of the open file, the projection of which
\* decides whether the next episode starts a new one.
EnsureDataWriter(rotate) ==
    Open(IF rotate THEN [Close(data) EXCEPT !.loc = Advance(data.loc)] ELSE data)

\* A shard of a video feature: where it will be, what it will hold.
NewShard == [initialized |-> FALSE, loc |-> FirstLocation, duration |-> 0, bytes |-> 0,
             fragments |-> <<>>]
NewVideo == [shard |-> NewShard, files |-> [l \in Locations |-> NoFile]]

\* MaterializeVideoShard: the fragments, concatenated in their order, become the shard.
Materialize(v) ==
    IF v.shard.fragments = <<>> THEN v
    ELSE [shard |-> [v.shard EXCEPT !.fragments = <<>>, !.bytes = 0],
          files |-> [v.files EXCEPT ![v.shard.loc] = [rows |-> v.shard.fragments, closed |-> TRUE]]]

\* The shard is full: the next one starts at zero.
NextShard(v) == [Materialize(v) EXCEPT !.shard.loc = Advance(@), !.shard.duration = 0]

\* RegisterEncodedVideo: the shard that takes the episode, before it does.
ShardFor(v, bytes) ==
    IF v.shard.fragments # <<>> /\ v.shard.bytes + bytes >= VideoFileSize
    THEN NextShard(v) ELSE v

WithFragment(v, bytes) ==
    [v EXCEPT !.shard.initialized = TRUE, !.shard.bytes = @ + bytes, !.shard.duration = @ + Length,
              !.shard.fragments = Append(@, [episode |-> current.index, frames |-> Length])]

\* Mutant: the route is the one of the shard before a rotation.
RouteBefore(v, bytes) ==
    [loc |-> v.shard.loc, from |-> v.shard.duration, to |-> v.shard.duration + Length]

\* The route of the current episode: one second of video for each frame.
Route(v, bytes) ==
    LET shard == ShardFor(v, bytes).shard
    IN [loc |-> shard.loc, from |-> shard.duration, to |-> shard.duration + Length]

\* EncodeEpisodeVideos: one fragment for each feature, registered in the order of the features.
\* No feature looks at the shard of another one.
EncodeEpisodeVideos(bytes) ==
    [f \in VideoFeatures |-> WithFragment(ShardFor(videos[f], bytes[f]), bytes[f])]
CurrentVideoRoutes(bytes) == [f \in VideoFeatures |-> Route(videos[f], bytes[f])]

-----------------------------------------------------------------------------
(* Episode metadata *)

\* FlushMetadataBuffer
FlushBuffer(m) ==
    IF m.buffer = <<>> THEN m
    ELSE [Flush(Open(m), m.buffer) EXCEPT !.buffer = <<>>]

\* Mutant: the buffered rows are left for the next file.
RotateUnflushed(m) == [Close(m) EXCEPT !.loc = Advance(@)]

\* MaybeRotateEpisodesWriter: the rows that name the old file are written to it.
Rotate(m) == [Close(FlushBuffer(m)) EXCEPT !.loc = Advance(@)]

\* The row of the current episode.
EpisodeRow(m, data_loc, routes) ==
    [episode |-> current.index, tasks |-> {current.frames[k] : k \in 1..Length},
     length |-> Length, data |-> data_loc, from |-> total_frames, to |-> total_frames + Length,
     routes |-> routes, meta |-> m.loc]

\* AppendEpisodeMetadata
AppendRow(m, row) ==
    LET appended == [m EXCEPT !.buffer = Append(@, row)]
    IN IF Len(appended.buffer) >= MetadataBufferSize THEN FlushBuffer(appended) ELSE appended

-----------------------------------------------------------------------------

\* What is at the root or the staging path when the COPY starts belongs to somebody else.
Init ==
    /\ pc = "create"
    /\ root \in {"absent", "empty", "foreign"} /\ staging \in {"none", "foreign"} /\ owned = FALSE
    /\ interrupted = FALSE
    /\ data = NewWriter
    /\ videos = [f \in VideoFeatures |-> NewVideo]
    /\ metadata = [loc |-> FirstLocation, open |-> FALSE, buffer |-> <<>>,
                   files |-> [l \in Locations |-> NoFile]]
    /\ tasks = <<>> /\ current = NoEpisode
    /\ total_episodes = 0 /\ total_frames = 0
    /\ written = {} /\ temporary = FALSE /\ delivered = <<>>

\* Mutant: ownership is taken before the path is looked at.
CreateOwned ==
    /\ pc = "create" /\ root = "absent"
    /\ owned' = TRUE
    /\ IF staging = "none" THEN staging' = "own" /\ pc' = "sink"
                           ELSE staging' = staging /\ pc' = "unwind"
    /\ UNCHANGED <<root, interrupted, writerVars, episodeVars, written, temporary>>

\* Mutant: an empty directory at the root passes for none.
CreateOverEmpty ==
    /\ pc = "create" /\ root \in {"absent", "empty"} /\ staging = "none"
    /\ staging' = "own" /\ owned' = TRUE /\ pc' = "sink"
    /\ UNCHANGED <<root, interrupted, writerVars, episodeVars, written, temporary>>

\* The constructor, and LerobotStagingDirectory::Create.  The root and the staging path are
\* looked at here and never again.  Directories above the root that are created on the way are
\* not tracked: nobody removes them.
Create ==
    /\ pc = "create" /\ root = "absent" /\ staging = "none"
    /\ staging' = "own" /\ owned' = TRUE /\ pc' = "sink"
    /\ UNCHANGED <<root, interrupted, writerVars, episodeVars, written, temporary>>

\* Mutant: the guard takes ownership of a directory that is reported to exist only.
CreateFailsUnowned ==
    /\ pc = "create" /\ root = "absent" /\ staging = "none"
    /\ staging' \in {"none", "own"} /\ pc' = "unwind"
    /\ UNCHANGED <<owned, root, interrupted, writerVars, episodeVars, written, temporary>>

\* The filesystem reports a failure and may have created the directory nevertheless.
CreateFails ==
    /\ pc = "create" /\ root = "absent" /\ staging = "none"
    /\ staging' \in {"none", "own"} /\ owned' = TRUE /\ pc' = "unwind"
    /\ UNCHANGED <<root, interrupted, writerVars, episodeVars, written, temporary>>

\* FinishEpisode writes the current episode: data, videos, then its row.
FinishEpisode ==
    \E rotate_data \in IF data.open THEN BOOLEAN ELSE {FALSE},
       rotate_metadata \in IF metadata.open THEN BOOLEAN ELSE {FALSE},
       bytes \in [VideoFeatures -> FragmentSizes] :
       LET writer == EnsureDataWriter(rotate_data)
           rows == IF rotate_metadata THEN Rotate(metadata) ELSE metadata
           routes == CurrentVideoRoutes(bytes)
       IN /\ data' = Flush(writer, DataRows)
          /\ videos' = EncodeEpisodeVideos(bytes)
          /\ metadata' = AppendRow(rows, EpisodeRow(rows, writer.loc, routes))
          /\ total_frames' = total_frames + Length
          /\ total_episodes' = total_episodes + 1
          /\ delivered' = Append(delivered, current.frames)

\* AppendRun: frames of the episode whose task they show.
Appended(e, task) == [e EXCEPT !.frames = Append(@, task)]

\* Process: the next row continues the current episode.
ContinueEpisode(task) ==
    /\ pc = "sink" /\ current.present /\ total_frames + Length < MaxFrames
    /\ current' = Appended(current, task)
    /\ tasks' = WithTask(task)
    /\ temporary' = TRUE
    /\ UNCHANGED <<pc, root, staging, owned, interrupted, writerVars, written>>

\* Process: the next row starts an episode, after the current one is finished.  An index
\* other than the next one is an error.
StartEpisode(task) ==
    LET index == IF current.present THEN total_episodes + 1 ELSE total_episodes
    IN /\ pc = "sink" /\ index < MaxEpisodes /\ total_frames + Length < MaxFrames
       /\ IF current.present THEN FinishEpisode ELSE UNCHANGED writerVars
       /\ current' = Appended([index |-> index, frames |-> <<>>, present |-> TRUE], task)
       /\ tasks' = WithTask(task)
       /\ temporary' = TRUE
       /\ UNCHANGED <<pc, root, staging, owned, interrupted, written>>

\* Finalize: the last episode.
FinishLast ==
    /\ pc = "sink" /\ ~interrupted
    /\ IF current.present THEN FinishEpisode ELSE UNCHANGED writerVars
    /\ current' = [current EXCEPT !.present = FALSE]
    /\ pc' = "materialize"
    /\ UNCHANGED <<root, staging, owned, interrupted, tasks, written, temporary>>

MaterializeShards ==
    /\ pc = "materialize"
    /\ videos' = [f \in VideoFeatures |-> Materialize(videos[f])]
    /\ pc' = "flush"
    /\ UNCHANGED <<root, staging, owned, interrupted, data, metadata, total_episodes,
                   total_frames, delivered, episodeVars, written, temporary>>

\* Mutant: rows that do not fill the buffer are forgotten.
CloseOnly ==
    /\ pc = "flush"
    /\ data' = Close(data) /\ metadata' = Close(metadata)
    /\ pc' = "tasks"
    /\ UNCHANGED <<root, staging, owned, interrupted, videos, total_episodes, total_frames,
                   delivered, episodeVars, written, temporary>>

FlushAndClose ==
    /\ pc = "flush"
    /\ data' = Close(data) /\ metadata' = Close(FlushBuffer(metadata))
    /\ pc' = "tasks"
    /\ UNCHANGED <<root, staging, owned, interrupted, videos, total_episodes, total_frames,
                   delivered, episodeVars, written, temporary>>

\* WriteTasks, and the removal of the temporary directory.
WriteTasks ==
    /\ pc = "tasks"
    /\ written' = IF tasks = <<>> THEN written ELSE written \cup {"tasks"}
    /\ temporary' = FALSE
    /\ pc' = "info"
    /\ UNCHANGED <<root, staging, owned, interrupted, writerVars, episodeVars>>

\* stats.json, then info.json
WriteInfo ==
    /\ pc = "info"
    /\ written' = written \cup {"info"} \cup (IF total_episodes > 0 THEN {"stats"} ELSE {})
    /\ pc' = "publish"
    /\ UNCHANGED <<root, staging, owned, interrupted, writerVars, episodeVars, temporary>>

\* Mutant: what is at the root makes room.
PublishOver ==
    /\ pc = "publish" /\ ~interrupted
    /\ root' = "ours" /\ staging' = "none" /\ owned' = FALSE /\ pc' = "done"
    /\ UNCHANGED <<interrupted, writerVars, episodeVars, written, temporary>>

\* rename(2) of a directory: it replaces an empty directory, and fails on anything else.
Movable == root \in {"absent", "empty"}

\* LerobotStagingDirectory::Publish, the move and nothing before it.
Publish ==
    /\ pc = "publish" /\ ~interrupted /\ Movable
    /\ root' = "ours" /\ staging' = "none" /\ owned' = FALSE /\ pc' = "done"
    /\ UNCHANGED <<interrupted, writerVars, episodeVars, written, temporary>>

\* Any operation may fail: a row that is invalid or out of order, an encoder, a write, the
\* move, or the checks for a root, a staging path or an interrupt.
Fail ==
    /\ pc \notin {"unwind", "done", "failed", "crashed"}
    /\ pc' = "unwind"
    /\ UNCHANGED <<root, staging, owned, interrupted, writerVars, episodeVars, written, temporary>>

\* The members are destroyed; the guard removes the directory it owns, if it can.
Unwind ==
    /\ pc = "unwind"
    /\ staging' \in IF owned /\ staging # "none" THEN {"none", "left"} ELSE {staging}
    /\ pc' = "failed"
    /\ UNCHANGED <<root, owned, interrupted, writerVars, episodeVars, written, temporary>>

-----------------------------------------------------------------------------
(* External *)

Interrupt ==
    /\ ~interrupted /\ interrupted' = TRUE
    /\ UNCHANGED <<pc, root, staging, owned, writerVars, episodeVars, written, temporary>>

Crash ==
    /\ pc \notin {"done", "failed", "crashed"} /\ pc' = "crashed"
    /\ UNCHANGED <<root, staging, owned, interrupted, writerVars, episodeVars, written, temporary>>

\* Another COPY or process puts a dataset or a file at the root, or into its empty directory.
OtherPublishes ==
    /\ Movable /\ root' = "foreign"
    /\ UNCHANGED <<pc, staging, owned, interrupted, writerVars, episodeVars, written, temporary>>

\* Another process makes a directory at the root.
OtherCreates ==
    /\ root = "absent" /\ root' = "empty"
    /\ UNCHANGED <<pc, staging, owned, interrupted, writerVars, episodeVars, written, temporary>>

Terminated == pc \in {"done", "failed", "crashed"} /\ UNCHANGED vars

Finalize ==
    FinishLast \/ MaterializeShards \/ FlushAndClose \/ WriteTasks \/ WriteInfo \/ Publish

Next ==
    \/ Create \/ CreateFails
    \/ \E task \in Tasks : ContinueEpisode(task) \/ StartEpisode(task)
    \/ Finalize \/ Fail \/ Unwind
    \/ Interrupt \/ Crash \/ OtherPublishes \/ OtherCreates \/ Terminated

Spec == Init /\ [][Next]_vars

-----------------------------------------------------------------------------
(* Invariants *)

RowsOf(seq) == {seq[i] : i \in DOMAIN seq}
WrittenRows == UNION {RowsOf(metadata.files[l].rows) : l \in Locations}
EpisodeRows == WrittenRows \cup RowsOf(metadata.buffer)

\* A row of episode metadata is in the file it names, or in the buffer for that file, also
\* when the file is full before the buffer is; and the data file that it names holds the
\* frames it counts, whatever rotated since.
RowsWhereNamed ==
    /\ \A l \in Locations : \A r \in RowsOf(metadata.files[l].rows) : r.meta = l
    /\ \A r \in RowsOf(metadata.buffer) : r.meta = metadata.loc
    /\ \A r \in EpisodeRows :
          \E d \in RowsOf(data.files[r.data].rows) :
             /\ d.episode = r.episode /\ d.from = r.from
             /\ Len(d.task_indexes) = r.length /\ r.to = r.from + r.length

\* What the shard of a name will show when the pending fragments are materialized.
ShardContent(f, loc) ==
    IF videos[f].shard.loc = loc /\ videos[f].shard.fragments # <<>>
    THEN videos[f].shard.fragments ELSE videos[f].files[loc].rows

\* The frames of the first i fragments of a shard, and the time at which the i-th one ends.
FramesTo(fragments, i) == UNION {{j} \X (1..fragments[j].frames) : j \in 1..i}
EndOf(fragments, i) == Cardinality(FramesTo(fragments, i))

\* The episodes a reader sees between the timestamps of a route.
ShownBy(f, route) ==
    LET fragments == ShardContent(f, route.loc)
    IN {fragments[i].episode : i \in {k \in DOMAIN fragments :
          EndOf(fragments, k - 1) < route.to /\ EndOf(fragments, k) > route.from}}

\* The route of an episode shows this episode and no other, although its shard is named
\* before it exists and rotates with the episode after it.
RouteShowsEpisode ==
    \A r \in EpisodeRows, f \in VideoFeatures :
       /\ ShownBy(f, r.routes[f]) = {r.episode}
       /\ r.routes[f].to - r.routes[f].from = r.length

\* A COPY that fails leaves nothing of its own at the root and the staging path, unless the
\* removal itself fails, and it never takes a directory of somebody else for its own, which the
\* guard would remove.
NothingLeftBehind ==
    /\ pc = "failed" => root # "ours" /\ staging \in {"none", "foreign", "left"}
    /\ staging = "left" => owned
    /\ owned => staging # "foreign"

-----------------------------------------------------------------------------
(* The dataset a reader finds at the root *)

PublishedRows == UNION {RowsOf(metadata.files[l].rows) : l \in {k \in Locations : metadata.files[k].closed}}

\* The frames of an episode by way of its row, its data file and the task table; or an
\* error when the files do not agree.
ReadEpisode(e) ==
    LET rows == {r \in PublishedRows : r.episode = e}
        row == CHOOSE r \in rows : TRUE
        found == {d \in RowsOf(data.files[row.data].rows) : d.from = row.from}
        frames == CHOOSE d \in found : TRUE
    IN IF /\ Cardinality(rows) = 1 /\ Cardinality(found) = 1 /\ data.files[row.data].closed
          /\ \A f \in VideoFeatures : /\ ShownBy(f, row.routes[f]) = {e}
                                       /\ videos[f].files[row.routes[f].loc].closed
          /\ "tasks" \in written
       THEN [k \in 1..Len(frames.task_indexes) |-> tasks[frames.task_indexes[k]]]
       ELSE <<>>

\* An episode of no frames, which no query delivers.
Damaged == << <<>> >>

Dataset ==
    IF "info" \in written /\ ~temporary /\ Cardinality(PublishedRows) = total_episodes
    THEN [e \in 1..total_episodes |-> ReadEpisode(e - 1)] ELSE Damaged

\* COPY publishes the whole result of the query at once or nothing: readers never find a
\* partial dataset, whatever fails or crashes.  A root that is there when the COPY starts, or
\* that holds anything when it ends, stays; only an empty directory made meanwhile is replaced.
Publication == INSTANCE DatasetPublication WITH
    Episode <- Seq(Tasks),
    root <- [holds |-> root, episodes |-> IF root = "ours" THEN Dataset ELSE <<>>],
    outcome <- CASE pc = "create" -> "starting"
                 [] pc = "done" -> "done"
                 [] pc \in {"unwind", "failed", "crashed"} -> "failed"
                 [] OTHER -> "running"
PublishesAtOnce == Publication!Spec
=============================================================================
