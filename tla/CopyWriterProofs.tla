------------------------- MODULE CopyWriterProofs -------------------------
(***************************************************************************)
(* What COPY ... TO keeps for any features, tasks, sizes and limits,       *)
(* whatever fails or crashes: where the rows of episode metadata point,    *)
(* what the routes of the videos show, who the staging directory belongs   *)
(* to; and that the dataset appears at the root at once, with all that the *)
(* query delivered, or not at all, in the place of nothing or of an empty  *)
(* directory.                                                              *)
(***************************************************************************)
EXTENDS CopyWriter, FiniteSetTheorems, FunctionTheorems, SequenceTheorems, TLAPS

-----------------------------------------------------------------------------
(* Types *)

File(S) == [rows : Seq(S), closed : BOOLEAN]
DataRow == [episode : Nat, from : Nat, task_indexes : Seq(Nat)]
RouteRecord == [loc : Locations, from : Nat, to : Nat]
Row == [episode : Nat, tasks : SUBSET Tasks, length : Nat, data : Locations, from : Nat,
        to : Nat, routes : [VideoFeatures -> RouteRecord], meta : Locations]
Fragment == [episode : Nat, frames : Nat]

DataWriter == [loc : Locations, open : BOOLEAN, files : [Locations -> File(DataRow)]]
EpisodeWriter == [loc : Locations, open : BOOLEAN, buffer : Seq(Row),
                  files : [Locations -> File(Row)]]
Shard == [initialized : BOOLEAN, loc : Locations, duration : Nat, bytes : Nat,
          fragments : Seq(Fragment)]
Video == [shard : Shard, files : [Locations -> File(Fragment)]]

Steps == {"create", "sink", "materialize", "flush", "tasks", "info", "publish", "unwind",
          "done", "failed", "crashed"}

Types ==
    /\ pc \in Steps
    /\ root \in {"absent", "empty", "foreign", "ours"}
    /\ staging \in {"none", "own", "foreign", "left"} /\ owned \in BOOLEAN
    /\ interrupted \in BOOLEAN
    /\ data \in DataWriter /\ metadata \in EpisodeWriter /\ videos \in [VideoFeatures -> Video]
    /\ tasks \in Seq(Tasks)
    /\ current \in [index : Int, frames : Seq(Tasks), present : BOOLEAN]
    /\ total_episodes \in 0..MaxEpisodes /\ total_frames \in Nat
    /\ delivered \in Seq(Seq(Tasks)) /\ Len(delivered) = total_episodes
    /\ written \in SUBSET {"tasks", "stats", "info"} /\ temporary \in BOOLEAN

-----------------------------------------------------------------------------
(* The invariant *)

\* Whom the directories belong to.
StageInv ==
    /\ staging \in {"own", "left"} => owned
    /\ owned => staging # "foreign"
    /\ pc = "failed" => staging # "own"
    /\ root = "ours" <=> pc = "done"

\* Names that a writer has not used yet.
Later(l, loc) == l.chunk > loc.chunk \/ (l.chunk = loc.chunk /\ l.file > loc.file)
Unused(files, loc, open) ==
    \A l \in Locations : Later(l, loc) \/ (l = loc /\ ~open) => files[l].rows = <<>>

\* Only the open file of a writer is without a footer.
ClosedBut(files, loc, open) ==
    \A l \in Locations : files[l].rows # <<>> => files[l].closed \/ (open /\ l = loc)

\* A writer that has finished n episodes has entered n chunks at most.
WriterOK(w, n) ==
    /\ w.loc.chunk <= n
    /\ Unused(w.files, w.loc, w.open) /\ ClosedBut(w.files, w.loc, w.open)

RowsIn(files) == UNION {RowsOf(files[l].rows) : l \in Locations}
AllRows(m) == RowsIn(m.files) \cup RowsOf(m.buffer)

\* The rows are where they say.
Named(m) ==
    /\ \A l \in Locations : \A r \in RowsOf(m.files[l].rows) : r.meta = l
    /\ \A r \in RowsOf(m.buffer) : r.meta = m.loc

\* The shard of a name, with the pending fragments.
Content(v, loc) ==
    IF v.shard.loc = loc /\ v.shard.fragments # <<>> THEN v.shard.fragments ELSE v.files[loc].rows

FilesClosed(files) == \A l \in Locations : files[l].rows # <<>> => files[l].closed

VideoOK(v, n) ==
    /\ v.shard.loc.chunk <= n
    /\ Unused(v.files, v.shard.loc, FALSE)
    /\ v.shard.duration = EndOf(v.shard.fragments, Len(v.shard.fragments))

\* A route is the time of one fragment, the one of the episode.
InShard(content, route, episode, length) ==
    \E k \in 1..Len(content) :
       /\ content[k] = [episode |-> episode, frames |-> length]
       /\ route.from = EndOf(content, k - 1) /\ route.to = EndOf(content, k)

InFile(rows, r) ==
    \E x \in RowsOf(rows) :
       x.episode = r.episode /\ x.from = r.from /\ Len(x.task_indexes) = r.length

\* A row of episode metadata, given the data files, the videos and the query's result.
RowOK(r, files, v, result) ==
    /\ r.episode + 1 \in 1..Len(result)
    /\ r.length = Len(result[r.episode + 1]) /\ r.length > 0 /\ r.to = r.from + r.length
    /\ InFile(files[r.data].rows, r)
    /\ \A f \in VideoFeatures :
          InShard(Content(v[f], r.routes[f].loc), r.routes[f], r.episode, r.length)

\* The data of an episode, given the task table, the result and the number of its frames.
DataOK(x, table, result, frames) ==
    LET n == Len(x.task_indexes)
    IN /\ x.episode + 1 \in 1..Len(result)
       /\ n = Len(result[x.episode + 1]) /\ n > 0 /\ x.from + n <= frames
       /\ \A k \in 1..n : /\ x.task_indexes[k] \in 1..Len(table)
                          /\ table[x.task_indexes[k]] = result[x.episode + 1][k]

\* One row for each episode of the result, one place in the data for each.
Rows(d, v, m, result) ==
    /\ \A r \in AllRows(m) : RowOK(r, d.files, v, result)
    /\ \A r, s \in AllRows(m) : r.episode = s.episode => r = s
    /\ \A e \in 1..Len(result) : \E r \in AllRows(m) : r.episode + 1 = e
Data(d, table, result, frames) ==
    /\ \A x \in RowsIn(d.files) : DataOK(x, table, result, frames)
    /\ \A x, y \in RowsIn(d.files) : x.from = y.from => x = y

RowsInv ==
    /\ Rows(data, videos, metadata, delivered)
    /\ Data(data, tasks, delivered, total_frames)
    /\ Named(metadata)
    /\ \A f \in VideoFeatures : FilesClosed(videos[f].files)

\* The current episode is the next one, and its tasks are in the table.
CurrentInv ==
    current.present =>
       /\ current.index = total_episodes /\ total_episodes < MaxEpisodes
       /\ current.frames # <<>> /\ RowsOf(current.frames) \subseteq RowsOf(tasks)

\* Which steps leave what written.
Finalized == {"tasks", "info", "publish", "done"}
StepsInv ==
    /\ pc \in {"create", "sink"} => CurrentInv
    /\ pc \in {"create", "sink", "materialize"} =>
          \A f \in VideoFeatures : VideoOK(videos[f], total_episodes)
    /\ pc \in {"create", "sink", "materialize", "flush"} =>
          WriterOK(data, total_episodes) /\ WriterOK(metadata, total_episodes)
    /\ pc \in {"flush"} \cup Finalized =>
          \A f \in VideoFeatures : videos[f].shard.fragments = <<>>
    /\ pc \in Finalized =>
          metadata.buffer = <<>> /\ FilesClosed(data.files) /\ FilesClosed(metadata.files)
    /\ pc \in {"info", "publish", "done"} => ~temporary /\ (tasks # <<>> => "tasks" \in written)
    /\ pc \in {"publish", "done"} => "info" \in written

IInv == Types /\ StageInv /\ RowsInv /\ StepsInv

-----------------------------------------------------------------------------
(* Names of files *)

LEMMA AdvanceFacts ==
    ASSUME NEW loc \in Locations, loc.chunk < MaxFiles
    PROVE  /\ Advance(loc) \in Locations
           /\ Advance(loc).chunk \in Nat /\ Advance(loc).chunk <= loc.chunk + 1
           /\ Later(Advance(loc), loc) /\ Advance(loc) # loc
           /\ \A l \in Locations : Later(l, Advance(loc)) => Later(l, loc)
<1>1. /\ loc.chunk \in 0..MaxFiles /\ loc.file \in 0..(ChunksSize - 1)
      /\ MaxFiles \in Nat /\ ChunksSize \in Nat \ {0}
  BY OptionsAssumption, BoundsAssumption DEF Locations
<1>2. CASE loc.file = ChunksSize - 1
  <2>1. Advance(loc) = [chunk |-> loc.chunk + 1, file |-> 0]
    BY <1>2 DEF Advance
  <2>2. Advance(loc) \in Locations
    BY <1>1, <2>1 DEF Locations
  <2>3. ASSUME NEW l \in Locations PROVE l.chunk \in Int /\ l.file \in 0..(ChunksSize - 1)
    BY <1>1 DEF Locations
  <2> QED
    BY <1>1, <1>2, <2>1, <2>2, <2>3 DEF Later
<1>3. CASE loc.file # ChunksSize - 1
  <2>1. Advance(loc) = [loc EXCEPT !.file = @ + 1]
    BY <1>3 DEF Advance
  <2>2. /\ Advance(loc) \in Locations
        /\ Advance(loc).chunk = loc.chunk /\ Advance(loc).file = loc.file + 1
    BY <1>1, <1>3, <2>1 DEF Locations
  <2>3. ASSUME NEW l \in Locations PROVE l.chunk \in Int /\ l.file \in 0..(ChunksSize - 1)
    BY <1>1 DEF Locations
  <2> QED
    BY <1>1, <1>3, <2>2, <2>3 DEF Later
<1> QED
  BY <1>2, <1>3

\* A name is not later than itself.
LEMMA NotLater == ASSUME NEW l \in Locations PROVE ~Later(l, l)
<1>1. l.chunk \in Int /\ l.file \in Int
  BY OptionsAssumption, BoundsAssumption DEF Locations
<1> QED
  BY <1>1 DEF Later

LEMMA FirstName == FirstLocation \in Locations /\ FirstLocation.chunk = 0
BY OptionsAssumption, BoundsAssumption DEF FirstLocation, Locations

-----------------------------------------------------------------------------
(* Sequences of rows *)

LEMMA RowsOfAppended ==
    ASSUME NEW S, NEW q \in Seq(S), NEW x \in S
    PROVE  RowsOf(Append(q, x)) = RowsOf(q) \cup {x}
<1> DEFINE a == Append(q, x)
<1>1. /\ Len(q) \in Nat /\ a \in Seq(S) /\ Len(a) = Len(q) + 1 /\ a[Len(q) + 1] = x
      /\ \A i \in 1..Len(q) : a[i] = q[i]
  OBVIOUS
<1>2. DOMAIN a = 1..(Len(q) + 1) /\ DOMAIN q = 1..Len(q)
  BY <1>1, LenProperties
<1> HIDE DEF a
<1>3. 1..(Len(q) + 1) = (1..Len(q)) \cup {Len(q) + 1}
  BY <1>1
<1> QED
  BY <1>1, <1>2, <1>3 DEF RowsOf, a

LEMMA RowsOfJoined ==
    ASSUME NEW S, NEW p \in Seq(S), NEW q \in Seq(S)
    PROVE  RowsOf(p \o q) = RowsOf(p) \cup RowsOf(q)
<1> DEFINE a == p \o q
<1>1. /\ Len(p) \in Nat /\ Len(q) \in Nat /\ a \in Seq(S) /\ Len(a) = Len(p) + Len(q)
      /\ \A i \in 1..(Len(p) + Len(q)) : a[i] = IF i <= Len(p) THEN p[i] ELSE q[i - Len(p)]
  BY ConcatProperties
<1>2. /\ DOMAIN a = 1..(Len(p) + Len(q)) /\ DOMAIN q = 1..Len(q) /\ DOMAIN p = 1..Len(p)
  BY <1>1, LenProperties
<1> HIDE DEF a
<1>3. ASSUME NEW x \in RowsOf(a) PROVE x \in RowsOf(p) \cup RowsOf(q)
  <2>1. PICK i \in 1..(Len(p) + Len(q)) : x = a[i]
    BY <1>2 DEF RowsOf
  <2>2. CASE i <= Len(p)
    <3>1. i \in 1..Len(p)
      BY <1>1, <2>1, <2>2
    <3> QED
      BY <1>1, <1>2, <2>1, <2>2, <3>1 DEF RowsOf
  <2>3. CASE ~(i <= Len(p))
    <3>1. i - Len(p) \in 1..Len(q)
      BY <1>1, <2>1, <2>3
    <3> QED
      BY <1>1, <1>2, <2>1, <2>3, <3>1 DEF RowsOf
  <2> QED
    BY <2>2, <2>3
<1>4. ASSUME NEW x \in RowsOf(p) PROVE x \in RowsOf(a)
  <2>1. PICK i \in 1..Len(p) : x = p[i]
    BY <1>2 DEF RowsOf
  <2>2. i \in 1..(Len(p) + Len(q)) /\ i <= Len(p)
    BY <1>1
  <2> QED
    BY <1>1, <1>2, <2>1, <2>2 DEF RowsOf
<1>5. ASSUME NEW x \in RowsOf(q) PROVE x \in RowsOf(a)
  <2>1. PICK i \in 1..Len(q) : x = q[i]
    BY <1>2 DEF RowsOf
  <2>2. i + Len(p) \in 1..(Len(p) + Len(q)) /\ ~(i + Len(p) <= Len(p))
        /\ (i + Len(p)) - Len(p) = i
    BY <1>1
  <2>3. a[i + Len(p)] = q[i]
    BY <1>1, <2>2
  <2> QED
    BY <1>1, <1>2, <2>1, <2>2, <2>3 DEF RowsOf
<1>6. RowsOf(a) = RowsOf(p) \cup RowsOf(q)
  BY <1>3, <1>4, <1>5
<1> QED
  BY <1>6 DEF a

LEMMA NoRows ==
    /\ RowsOf(<<>>) = {}
    /\ \A S : \A q \in Seq(S) : RowsOf(q) = {} => q = <<>>
<1>1. RowsOf(<<>>) = {}
  BY DEF RowsOf
<1>2. ASSUME NEW S, NEW q \in Seq(S), q # <<>> PROVE RowsOf(q) # {}
  <2>1. Len(q) \in Nat \ {0} /\ DOMAIN q = 1..Len(q)
    BY <1>2, EmptySeq, LenProperties
  <2>2. 1 \in DOMAIN q
    BY <2>1
  <2> QED
    BY <2>2 DEF RowsOf
<1> QED
  BY <1>1, <1>2

-----------------------------------------------------------------------------
(* The operations of a writer on its files *)

Emptied(files, l) == [files EXCEPT ![l] = NoFile]
Extended(files, l, rows) ==
    [files EXCEPT ![l] = [rows |-> files[l].rows \o rows, closed |-> files[l].closed]]
Footed(files, l) == [files EXCEPT ![l] = [rows |-> files[l].rows, closed |-> TRUE]]

\* These are functions over the names.
LEMMA FilesKeepType ==
    ASSUME NEW S, NEW files \in [Locations -> File(S)], NEW l \in Locations
    PROVE  /\ Emptied(files, l) \in [Locations -> File(S)]
           /\ \A rows \in Seq(S) : Extended(files, l, rows) \in [Locations -> File(S)]
           /\ Footed(files, l) \in [Locations -> File(S)]
<1>1. NoFile \in File(S)
  BY EmptySeq DEF NoFile, File
<1>2. files[l] \in File(S)
  OBVIOUS
<1>3. files[l].rows \in Seq(S) /\ files[l].closed \in BOOLEAN
  BY <1>2 DEF File
<1>4. [rows |-> files[l].rows, closed |-> TRUE] \in File(S)
  BY <1>3 DEF File
<1>5. ASSUME NEW rows \in Seq(S)
      PROVE  [rows |-> files[l].rows \o rows, closed |-> files[l].closed] \in File(S)
  <2>1. files[l].rows \o rows \in Seq(S)
    BY <1>3, ConcatProperties
  <2> QED
    BY <1>3, <2>1 DEF File
<1> QED
  BY <1>1, <1>4, <1>5 DEF Emptied, Extended, Footed

LEMMA FileSets ==
    ASSUME NEW S, NEW file \in File(S), NEW rows
    PROVE  /\ [file EXCEPT !.closed = TRUE] = [rows |-> file.rows, closed |-> TRUE]
           /\ [file EXCEPT !.rows = @ \o rows]
                 = [rows |-> file.rows \o rows, closed |-> file.closed]
<1> DEFINE joined == file.rows \o rows
<1>1. ASSUME NEW c PROVE [file EXCEPT !.closed = c] = [rows |-> file.rows, closed |-> c]
  BY DEF File
<1>2. [file EXCEPT !.rows = @ \o rows] = [file EXCEPT !.rows = joined]
  BY DEF File
<1> HIDE DEF joined
<1>3. [file EXCEPT !.rows = joined] = [rows |-> joined, closed |-> file.closed]
  BY DEF File
<1> QED
  BY <1>1, <1>2, <1>3 DEF joined

\* What the operations change, for the data writer and for the episode writer.
LEMMA DataOpens ==
    ASSUME NEW w \in DataWriter
    PROVE  /\ Open(w) \in DataWriter /\ Open(w).loc = w.loc /\ Open(w).open = TRUE
           /\ Open(w).files = (IF w.open THEN w.files ELSE Emptied(w.files, w.loc))
<1> DEFINE files == Emptied(w.files, w.loc)
<1>1. /\ w.loc \in Locations /\ w.files \in [Locations -> File(DataRow)] /\ w.open \in BOOLEAN
      /\ files \in [Locations -> File(DataRow)]
  BY FilesKeepType DEF DataWriter
<1>2. CASE w.open
  BY <1>1, <1>2 DEF Open
<1>3. CASE ~w.open
  <2>1. Open(w) = [w EXCEPT !.open = TRUE, !.files = files]
    BY <1>3 DEF Open, Emptied
  <2> DEFINE new == [w EXCEPT !.loc = w.loc, !.open = TRUE, !.files = files]
  <2>2. Open(w) = new
    BY <2>1 DEF DataWriter
  <2> HIDE DEF files
  <2>3. /\ new \in DataWriter /\ new.loc = w.loc /\ new.open = TRUE /\ new.files = files
    BY <1>1 DEF DataWriter
  <2> HIDE DEF new
  <2> QED
    BY <1>3, <2>2, <2>3 DEF files
<1> QED
  BY <1>2, <1>3

LEMMA DataCloses ==
    ASSUME NEW w \in DataWriter
    PROVE  /\ Close(w) \in DataWriter /\ Close(w).loc = w.loc /\ Close(w).open = FALSE
           /\ Close(w).files = (IF w.open THEN Footed(w.files, w.loc) ELSE w.files)
<1> DEFINE files == Footed(w.files, w.loc)
<1>1. /\ w.loc \in Locations /\ w.files \in [Locations -> File(DataRow)] /\ w.open \in BOOLEAN
      /\ files \in [Locations -> File(DataRow)]
  BY FilesKeepType DEF DataWriter
<1>2. CASE ~w.open
  BY <1>1, <1>2 DEF Close
<1>3. CASE w.open
  <2>1. w.files[w.loc] \in File(DataRow)
    BY <1>1
  <2>2. [w.files[w.loc] EXCEPT !.closed = TRUE] = [rows |-> w.files[w.loc].rows, closed |-> TRUE]
    BY <2>1, FileSets
  <2>3. [w.files EXCEPT ![w.loc].closed = TRUE] = files
    BY <1>1, <2>2 DEF Footed
  <2>4. Close(w) = [w EXCEPT !.open = FALSE, !.files = files]
    BY <1>3, <2>3 DEF Close, DataWriter
  <2> DEFINE new == [w EXCEPT !.loc = w.loc, !.open = FALSE, !.files = files]
  <2>5. Close(w) = new
    BY <2>4 DEF DataWriter
  <2> HIDE DEF files
  <2>6. /\ new \in DataWriter /\ new.loc = w.loc /\ new.open = FALSE /\ new.files = files
    BY <1>1 DEF DataWriter
  <2> HIDE DEF new
  <2> QED
    BY <1>3, <2>5, <2>6 DEF files
<1> QED
  BY <1>2, <1>3

LEMMA DataFlushes ==
    ASSUME NEW w \in DataWriter, NEW rows \in Seq(DataRow)
    PROVE  /\ Flush(w, rows) \in DataWriter /\ Flush(w, rows).loc = w.loc
           /\ Flush(w, rows).open = w.open
           /\ Flush(w, rows).files = Extended(w.files, w.loc, rows)
<1> DEFINE files == Extended(w.files, w.loc, rows)
<1>1. /\ w.loc \in Locations /\ w.files \in [Locations -> File(DataRow)] /\ w.open \in BOOLEAN
      /\ files \in [Locations -> File(DataRow)]
  BY FilesKeepType DEF DataWriter
<1>2. w.files[w.loc] \in File(DataRow)
  BY <1>1
<1>3. [w.files[w.loc] EXCEPT !.rows = @ \o rows]
          = [rows |-> w.files[w.loc].rows \o rows, closed |-> w.files[w.loc].closed]
  BY <1>2, FileSets
<1>4. [w.files EXCEPT ![w.loc].rows = @ \o rows] = files
  BY <1>1, <1>3 DEF Extended
<1>5. Flush(w, rows) = [w EXCEPT !.files = files]
  BY <1>4 DEF Flush, DataWriter
<1> DEFINE new == [w EXCEPT !.loc = w.loc, !.open = w.open, !.files = files]
<1>6. Flush(w, rows) = new
  BY <1>5 DEF DataWriter
<1> HIDE DEF files
<1>7. /\ new \in DataWriter /\ new.loc = w.loc /\ new.open = w.open /\ new.files = files
  BY <1>1 DEF DataWriter
<1> HIDE DEF new
<1> QED
  BY <1>6, <1>7 DEF files

LEMMA EpisodesOpens ==
    ASSUME NEW w \in EpisodeWriter
    PROVE  /\ Open(w) \in EpisodeWriter /\ Open(w).loc = w.loc /\ Open(w).open = TRUE
           /\ Open(w).files = (IF w.open THEN w.files ELSE Emptied(w.files, w.loc))
           /\ Open(w).buffer = w.buffer
<1> DEFINE files == Emptied(w.files, w.loc)
<1>1. /\ w.loc \in Locations /\ w.files \in [Locations -> File(Row)] /\ w.open \in BOOLEAN
      /\ files \in [Locations -> File(Row)]
  BY FilesKeepType DEF EpisodeWriter
<1>2. CASE w.open
  BY <1>1, <1>2 DEF Open
<1>3. CASE ~w.open
  <2>1. Open(w) = [w EXCEPT !.open = TRUE, !.files = files]
    BY <1>3 DEF Open, Emptied
  <2> DEFINE new == [w EXCEPT !.loc = w.loc, !.open = TRUE, !.files = files]
  <2>2. Open(w) = new
    BY <2>1 DEF EpisodeWriter
  <2> HIDE DEF files
  <2>3. /\ new \in EpisodeWriter /\ new.loc = w.loc /\ new.open = TRUE /\ new.files = files
        /\ new.buffer = w.buffer
    BY <1>1 DEF EpisodeWriter
  <2> HIDE DEF new
  <2> QED
    BY <1>3, <2>2, <2>3 DEF files
<1> QED
  BY <1>2, <1>3

LEMMA EpisodesCloses ==
    ASSUME NEW w \in EpisodeWriter
    PROVE  /\ Close(w) \in EpisodeWriter /\ Close(w).loc = w.loc /\ Close(w).open = FALSE
           /\ Close(w).files = (IF w.open THEN Footed(w.files, w.loc) ELSE w.files)
           /\ Close(w).buffer = w.buffer
<1> DEFINE files == Footed(w.files, w.loc)
<1>1. /\ w.loc \in Locations /\ w.files \in [Locations -> File(Row)] /\ w.open \in BOOLEAN
      /\ files \in [Locations -> File(Row)]
  BY FilesKeepType DEF EpisodeWriter
<1>2. CASE ~w.open
  BY <1>1, <1>2 DEF Close
<1>3. CASE w.open
  <2>1. w.files[w.loc] \in File(Row)
    BY <1>1
  <2>2. [w.files[w.loc] EXCEPT !.closed = TRUE] = [rows |-> w.files[w.loc].rows, closed |-> TRUE]
    BY <2>1, FileSets
  <2>3. [w.files EXCEPT ![w.loc].closed = TRUE] = files
    BY <1>1, <2>2 DEF Footed
  <2>4. Close(w) = [w EXCEPT !.open = FALSE, !.files = files]
    BY <1>3, <2>3 DEF Close, EpisodeWriter
  <2> DEFINE new == [w EXCEPT !.loc = w.loc, !.open = FALSE, !.files = files]
  <2>5. Close(w) = new
    BY <2>4 DEF EpisodeWriter
  <2> HIDE DEF files
  <2>6. /\ new \in EpisodeWriter /\ new.loc = w.loc /\ new.open = FALSE /\ new.files = files
        /\ new.buffer = w.buffer
    BY <1>1 DEF EpisodeWriter
  <2> HIDE DEF new
  <2> QED
    BY <1>3, <2>5, <2>6 DEF files
<1> QED
  BY <1>2, <1>3

LEMMA EpisodesFlushes ==
    ASSUME NEW w \in EpisodeWriter, NEW rows \in Seq(Row)
    PROVE  /\ Flush(w, rows) \in EpisodeWriter /\ Flush(w, rows).loc = w.loc
           /\ Flush(w, rows).open = w.open
           /\ Flush(w, rows).files = Extended(w.files, w.loc, rows)
           /\ Flush(w, rows).buffer = w.buffer
<1> DEFINE files == Extended(w.files, w.loc, rows)
<1>1. /\ w.loc \in Locations /\ w.files \in [Locations -> File(Row)] /\ w.open \in BOOLEAN
      /\ files \in [Locations -> File(Row)]
  BY FilesKeepType DEF EpisodeWriter
<1>2. w.files[w.loc] \in File(Row)
  BY <1>1
<1>3. [w.files[w.loc] EXCEPT !.rows = @ \o rows]
          = [rows |-> w.files[w.loc].rows \o rows, closed |-> w.files[w.loc].closed]
  BY <1>2, FileSets
<1>4. [w.files EXCEPT ![w.loc].rows = @ \o rows] = files
  BY <1>1, <1>3 DEF Extended
<1>5. Flush(w, rows) = [w EXCEPT !.files = files]
  BY <1>4 DEF Flush, EpisodeWriter
<1> DEFINE new == [w EXCEPT !.loc = w.loc, !.open = w.open, !.files = files]
<1>6. Flush(w, rows) = new
  BY <1>5 DEF EpisodeWriter
<1> HIDE DEF files
<1>7. /\ new \in EpisodeWriter /\ new.loc = w.loc /\ new.open = w.open /\ new.files = files
      /\ new.buffer = w.buffer
  BY <1>1 DEF EpisodeWriter
<1> HIDE DEF new
<1> QED
  BY <1>6, <1>7 DEF files

-----------------------------------------------------------------------------
(* What they keep *)

FilesOK(files, loc, open) == Unused(files, loc, open) /\ ClosedBut(files, loc, open)

\* Opening a file discards nothing.
LEMMA EmptiedKeeps ==
    ASSUME NEW S, NEW files \in [Locations -> File(S)], NEW loc \in Locations,
           FilesOK(files, loc, FALSE)
    PROVE  /\ FilesOK(Emptied(files, loc), loc, TRUE)
           /\ \A l \in Locations : Emptied(files, loc)[l].rows = files[l].rows
<1> DEFINE new == Emptied(files, loc)
<1>1. files[loc].rows = <<>> /\ NoFile.rows = <<>>
  BY DEF FilesOK, Unused, NoFile
<1>2. new[loc] = NoFile /\ \A l \in Locations : l # loc => new[l] = files[l]
  BY DEF Emptied
<1> HIDE DEF new
<1>3. \A l \in Locations : new[l].rows = files[l].rows
  BY <1>1, <1>2
<1>4. Unused(new, loc, TRUE)
  BY <1>3 DEF FilesOK, Unused
<1>5. ClosedBut(new, loc, TRUE)
  BY <1>2, <1>3 DEF FilesOK, ClosedBut
<1> QED
  BY <1>3, <1>4, <1>5 DEF FilesOK, new

\* Rows that one file has got.
Got(files, new, loc, rows) ==
    \A l \in Locations :
       RowsOf(new[l].rows) = RowsOf(files[l].rows) \cup (IF l = loc THEN rows ELSE {})

LEMMA ExtendedKeeps ==
    ASSUME NEW S, NEW files \in [Locations -> File(S)], NEW loc \in Locations,
           NEW rows \in Seq(S), FilesOK(files, loc, TRUE)
    PROVE  /\ FilesOK(Extended(files, loc, rows), loc, TRUE)
           /\ Got(files, Extended(files, loc, rows), loc, RowsOf(rows))
<1> DEFINE new == Extended(files, loc, rows)
<1>1. files[loc] \in File(S) /\ files[loc].rows \in Seq(S)
  BY DEF File
<1>2. /\ new[loc].rows = files[loc].rows \o rows
      /\ \A l \in Locations : l # loc => new[l] = files[l]
  BY DEF Extended
<1> HIDE DEF new
<1>3. RowsOf(new[loc].rows) = RowsOf(files[loc].rows) \cup RowsOf(rows)
  BY <1>1, <1>2, RowsOfJoined
<1>4. Unused(new, loc, TRUE)
  <2>1. ASSUME NEW l \in Locations, Later(l, loc) PROVE new[l].rows = <<>>
    <3>1. l # loc
      BY <2>1, NotLater
    <3> QED
      BY <1>2, <2>1, <3>1 DEF FilesOK, Unused
  <2> QED
    BY <2>1 DEF Unused
<1>5. ClosedBut(new, loc, TRUE)
  BY <1>2 DEF FilesOK, ClosedBut
<1> QED
  BY <1>2, <1>3, <1>4, <1>5 DEF FilesOK, Got, new

LEMMA FootedKeeps ==
    ASSUME NEW S, NEW files \in [Locations -> File(S)], NEW loc \in Locations,
           FilesOK(files, loc, TRUE)
    PROVE  /\ FilesClosed(Footed(files, loc))
           /\ \A l \in Locations : Footed(files, loc)[l].rows = files[l].rows
<1>1. /\ Footed(files, loc)[loc].rows = files[loc].rows /\ Footed(files, loc)[loc].closed = TRUE
      /\ \A l \in Locations : l # loc => Footed(files, loc)[l] = files[l]
  BY DEF Footed
<1> QED
  BY <1>1 DEF FilesOK, ClosedBut, FilesClosed

\* The next name is free.
LEMMA NextNameFree ==
    ASSUME NEW S, NEW files \in [Locations -> File(S)], NEW loc \in Locations,
           loc.chunk < MaxFiles, NEW open, Unused(files, loc, open), FilesClosed(files)
    PROVE  FilesOK(files, Advance(loc), FALSE)
<1>1. \A l \in Locations : Later(l, Advance(loc)) \/ l = Advance(loc) => Later(l, loc)
  BY AdvanceFacts
<1>2. Unused(files, Advance(loc), FALSE)
  BY <1>1 DEF Unused
<1>3. ClosedBut(files, Advance(loc), FALSE)
  BY DEF FilesClosed, ClosedBut
<1> QED
  BY <1>2, <1>3 DEF FilesOK

\* Rows in the same places.
SameRows(files, other) == \A l \in Locations : other[l].rows = files[l].rows

LEMMA UnusedByRows ==
    ASSUME NEW files, NEW other, SameRows(files, other), NEW loc, NEW open, Unused(files, loc, open)
    PROVE  Unused(other, loc, open)
BY DEF SameRows, Unused

LEMMA SameRowsIn == \A files, other : SameRows(files, other) => RowsIn(other) = RowsIn(files)
<1>1. SUFFICES ASSUME NEW files, NEW other, SameRows(files, other)
               PROVE  RowsIn(other) = RowsIn(files)
  OBVIOUS
<1>2. {RowsOf(other[l].rows) : l \in Locations} = {RowsOf(files[l].rows) : l \in Locations}
  BY <1>1 DEF SameRows
<1> QED
  BY <1>2 DEF RowsIn

-----------------------------------------------------------------------------
(* The data writer *)

\* A writer that is closed and moved to the next name.
LEMMA DataMoves ==
    ASSUME NEW w \in DataWriter, NEW n \in Nat, n < MaxFiles, WriterOK(w, n), w.open
    PROVE  LET moved == [Close(w) EXCEPT !.loc = Advance(w.loc)]
           IN /\ moved \in DataWriter /\ WriterOK(moved, n + 1) /\ moved.open = FALSE
              /\ SameRows(w.files, moved.files)
<1> DEFINE files == Footed(w.files, w.loc)
           moved == [Close(w) EXCEPT !.loc = Advance(w.loc)]
<1>1. /\ w.loc \in Locations /\ w.files \in [Locations -> File(DataRow)]
      /\ FilesOK(w.files, w.loc, TRUE) /\ w.loc.chunk <= n
  BY DEF WriterOK, FilesOK, DataWriter
<1>2. w.loc.chunk \in Nat /\ w.loc.chunk < MaxFiles
  BY <1>1, BoundsAssumption DEF Locations
<1>3. /\ files \in [Locations -> File(DataRow)] /\ FilesClosed(files)
      /\ SameRows(w.files, files)
  BY <1>1, FilesKeepType, FootedKeeps DEF SameRows
<1>4. /\ Close(w) \in DataWriter /\ Close(w).open = FALSE /\ Close(w).files = files
  BY DataCloses
<1>5. /\ Advance(w.loc) \in Locations /\ Advance(w.loc).chunk \in Nat
      /\ Advance(w.loc).chunk <= w.loc.chunk + 1
  BY <1>1, <1>2, AdvanceFacts
<1>6. /\ moved \in DataWriter /\ moved.loc = Advance(w.loc) /\ moved.open = FALSE
      /\ moved.files = files
  BY <1>4, <1>5 DEF DataWriter
<1>7. Unused(files, w.loc, TRUE)
  BY <1>1, <1>3, UnusedByRows DEF FilesOK
<1> HIDE DEF files, moved
<1>8. FilesOK(files, Advance(w.loc), FALSE)
  BY <1>1, <1>2, <1>3, <1>7, NextNameFree
<1>9. Advance(w.loc).chunk <= n + 1
  BY <1>1, <1>2, <1>5
<1>10. WriterOK(moved, n + 1)
  BY <1>6, <1>8, <1>9 DEF WriterOK, FilesOK
<1> QED
  BY <1>3, <1>6, <1>10 DEF moved

\* A writer that is opened, and then gets rows.
LEMMA DataTakes ==
    ASSUME NEW w \in DataWriter, NEW n, WriterOK(w, n), NEW rows \in Seq(DataRow)
    PROVE  /\ Open(w).loc = w.loc
           /\ Flush(Open(w), rows) \in DataWriter /\ WriterOK(Flush(Open(w), rows), n)
           /\ Got(w.files, Flush(Open(w), rows).files, w.loc, RowsOf(rows))
<1>1. /\ w.loc \in Locations /\ w.files \in [Locations -> File(DataRow)] /\ w.open \in BOOLEAN
      /\ FilesOK(w.files, w.loc, w.open) /\ w.loc.chunk <= n
  BY DEF WriterOK, FilesOK, DataWriter
<1> DEFINE open == Open(w)
           full == Flush(open, rows)
<1>2. /\ open \in DataWriter /\ open.loc = w.loc /\ open.open = TRUE
      /\ open.files = (IF w.open THEN w.files ELSE Emptied(w.files, w.loc))
  BY DataOpens
<1> HIDE DEF open
<1>3. /\ FilesOK(open.files, w.loc, TRUE) /\ open.files \in [Locations -> File(DataRow)]
      /\ \A l \in Locations : open.files[l].rows = w.files[l].rows
  <2>1. CASE w.open
    <3>1. w.open = TRUE /\ open.files = w.files
      BY <1>1, <1>2, <2>1
    <3> QED
      BY <1>1, <3>1
  <2>2. CASE ~w.open
    <3>1. w.open = FALSE /\ open.files = Emptied(w.files, w.loc)
      BY <1>1, <1>2, <2>2
    <3>2. FilesOK(w.files, w.loc, FALSE)
      BY <1>1, <3>1
    <3>3. /\ FilesOK(Emptied(w.files, w.loc), w.loc, TRUE)
          /\ \A l \in Locations : Emptied(w.files, w.loc)[l].rows = w.files[l].rows
      BY <1>1, <3>2, EmptiedKeeps
    <3>4. Emptied(w.files, w.loc) \in [Locations -> File(DataRow)]
      BY <1>1, FilesKeepType
    <3> QED
      BY <3>1, <3>3, <3>4
  <2> QED
    BY <2>1, <2>2
<1>4. /\ full \in DataWriter /\ full.loc = w.loc /\ full.open = TRUE
      /\ full.files = Extended(open.files, w.loc, rows)
  BY <1>2, DataFlushes
<1> HIDE DEF full
<1>5. FilesOK(full.files, w.loc, TRUE) /\ Got(open.files, full.files, w.loc, RowsOf(rows))
  BY <1>1, <1>3, <1>4, ExtendedKeeps
<1>6. WriterOK(full, n)
  BY <1>1, <1>4, <1>5 DEF WriterOK, FilesOK
<1>7. Got(w.files, full.files, w.loc, RowsOf(rows))
  BY <1>3, <1>5 DEF Got
<1> QED
  BY <1>2, <1>4, <1>6, <1>7 DEF full, open

LEMMA OkWithMore ==
    ASSUME NEW w, NEW n \in Nat, w.loc.chunk \in Nat, WriterOK(w, n)
    PROVE  WriterOK(w, n + 1)
BY DEF WriterOK

\* EnsureDataWriter, and the row of the episode.
LEMMA DataWritten ==
    ASSUME data \in DataWriter, NEW n \in Nat, n < MaxFiles, WriterOK(data, n),
           NEW rotate \in BOOLEAN, rotate => data.open, NEW row \in DataRow
    PROVE  LET w == EnsureDataWriter(rotate)
               new == Flush(w, <<row>>)
           IN /\ w.loc \in Locations /\ new \in DataWriter /\ WriterOK(new, n + 1)
              /\ Got(data.files, new.files, w.loc, {row})
<1> DEFINE moved == [Close(data) EXCEPT !.loc = Advance(data.loc)]
           w == IF rotate THEN moved ELSE data
<1>1. EnsureDataWriter(rotate) = Open(w)
  BY DEF EnsureDataWriter
<1>2. w \in DataWriter /\ WriterOK(w, n + 1) /\ SameRows(data.files, w.files)
  <2>1. CASE rotate
    <3>1. moved \in DataWriter /\ WriterOK(moved, n + 1) /\ SameRows(data.files, moved.files)
      BY <2>1, DataMoves
    <3> HIDE DEF moved
    <3> QED
      BY <2>1, <3>1
  <2>2. CASE ~rotate
    <3>1. data.loc.chunk \in Nat
      BY BoundsAssumption DEF DataWriter, Locations
    <3> QED
      BY <2>2, <3>1, OkWithMore DEF SameRows
  <2> QED
    BY <2>1, <2>2
<1> HIDE DEF w
<1>3. <<row>> \in Seq(DataRow) /\ RowsOf(<<row>>) = {row}
  BY DEF RowsOf
<1>4. /\ Open(w).loc = w.loc /\ Flush(Open(w), <<row>>) \in DataWriter
      /\ WriterOK(Flush(Open(w), <<row>>), n + 1)
      /\ Got(w.files, Flush(Open(w), <<row>>).files, w.loc, {row})
  BY <1>2, <1>3, DataTakes
<1>5. w.loc \in Locations
  BY <1>2 DEF DataWriter
<1>6. Got(data.files, Flush(Open(w), <<row>>).files, w.loc, {row})
  BY <1>2, <1>4 DEF Got, SameRows
<1> QED
  BY <1>1, <1>4, <1>5, <1>6

-----------------------------------------------------------------------------
(* The episode writer *)

\* The same of the episode writer, whose buffer is kept.
LEMMA EpisodesMove ==
    ASSUME NEW w \in EpisodeWriter, NEW n \in Nat, n < MaxFiles, WriterOK(w, n), w.open
    PROVE  LET moved == [Close(w) EXCEPT !.loc = Advance(w.loc)]
           IN /\ moved \in EpisodeWriter /\ WriterOK(moved, n + 1) /\ moved.open = FALSE
              /\ SameRows(w.files, moved.files)
              /\ moved.loc = Advance(w.loc) /\ moved.buffer = w.buffer
<1> DEFINE files == Footed(w.files, w.loc)
           moved == [Close(w) EXCEPT !.loc = Advance(w.loc)]
<1>1. /\ w.loc \in Locations /\ w.files \in [Locations -> File(Row)]
      /\ FilesOK(w.files, w.loc, TRUE) /\ w.loc.chunk <= n
  BY DEF WriterOK, FilesOK, EpisodeWriter
<1>2. w.loc.chunk \in Nat /\ w.loc.chunk < MaxFiles
  BY <1>1, BoundsAssumption DEF Locations
<1>3. /\ files \in [Locations -> File(Row)] /\ FilesClosed(files)
      /\ SameRows(w.files, files)
  BY <1>1, FilesKeepType, FootedKeeps DEF SameRows
<1>4. /\ Close(w) \in EpisodeWriter /\ Close(w).open = FALSE /\ Close(w).files = files
      /\ Close(w).buffer = w.buffer
  BY EpisodesCloses
<1>5. /\ Advance(w.loc) \in Locations /\ Advance(w.loc).chunk \in Nat
      /\ Advance(w.loc).chunk <= w.loc.chunk + 1
  BY <1>1, <1>2, AdvanceFacts
<1>6. /\ moved \in EpisodeWriter /\ moved.loc = Advance(w.loc) /\ moved.open = FALSE
      /\ moved.files = files /\ moved.buffer = w.buffer
  BY <1>4, <1>5 DEF EpisodeWriter
<1>7. Unused(files, w.loc, TRUE)
  BY <1>1, <1>3, UnusedByRows DEF FilesOK
<1> HIDE DEF files, moved
<1>8. FilesOK(files, Advance(w.loc), FALSE)
  BY <1>1, <1>2, <1>3, <1>7, NextNameFree
<1>9. Advance(w.loc).chunk <= n + 1
  BY <1>1, <1>2, <1>5
<1>10. WriterOK(moved, n + 1)
  BY <1>6, <1>8, <1>9 DEF WriterOK, FilesOK
<1> QED
  BY <1>3, <1>6, <1>10 DEF moved

LEMMA EpisodesTake ==
    ASSUME NEW w \in EpisodeWriter, NEW n, WriterOK(w, n), NEW rows \in Seq(Row)
    PROVE  /\ Open(w).loc = w.loc
           /\ Flush(Open(w), rows).loc = w.loc /\ Flush(Open(w), rows).buffer = w.buffer
           /\ Flush(Open(w), rows) \in EpisodeWriter /\ WriterOK(Flush(Open(w), rows), n)
           /\ Got(w.files, Flush(Open(w), rows).files, w.loc, RowsOf(rows))
<1>1. /\ w.loc \in Locations /\ w.files \in [Locations -> File(Row)] /\ w.open \in BOOLEAN
      /\ FilesOK(w.files, w.loc, w.open) /\ w.loc.chunk <= n
  BY DEF WriterOK, FilesOK, EpisodeWriter
<1> DEFINE open == Open(w)
           full == Flush(open, rows)
<1>2. /\ open \in EpisodeWriter /\ open.loc = w.loc /\ open.open = TRUE /\ open.buffer = w.buffer
      /\ open.files = (IF w.open THEN w.files ELSE Emptied(w.files, w.loc))
  BY EpisodesOpens
<1> HIDE DEF open
<1>3. /\ FilesOK(open.files, w.loc, TRUE) /\ open.files \in [Locations -> File(Row)]
      /\ \A l \in Locations : open.files[l].rows = w.files[l].rows
  <2>1. CASE w.open
    <3>1. w.open = TRUE /\ open.files = w.files
      BY <1>1, <1>2, <2>1
    <3> QED
      BY <1>1, <3>1
  <2>2. CASE ~w.open
    <3>1. w.open = FALSE /\ open.files = Emptied(w.files, w.loc)
      BY <1>1, <1>2, <2>2
    <3>2. FilesOK(w.files, w.loc, FALSE)
      BY <1>1, <3>1
    <3>3. /\ FilesOK(Emptied(w.files, w.loc), w.loc, TRUE)
          /\ \A l \in Locations : Emptied(w.files, w.loc)[l].rows = w.files[l].rows
      BY <1>1, <3>2, EmptiedKeeps
    <3>4. Emptied(w.files, w.loc) \in [Locations -> File(Row)]
      BY <1>1, FilesKeepType
    <3> QED
      BY <3>1, <3>3, <3>4
  <2> QED
    BY <2>1, <2>2
<1>4. /\ full \in EpisodeWriter /\ full.loc = w.loc /\ full.open = TRUE /\ full.buffer = w.buffer
      /\ full.files = Extended(open.files, w.loc, rows)
  BY <1>2, EpisodesFlushes
<1> HIDE DEF full
<1>5. FilesOK(full.files, w.loc, TRUE) /\ Got(open.files, full.files, w.loc, RowsOf(rows))
  BY <1>1, <1>3, <1>4, ExtendedKeeps
<1>6. WriterOK(full, n)
  BY <1>1, <1>4, <1>5 DEF WriterOK, FilesOK
<1>7. Got(w.files, full.files, w.loc, RowsOf(rows))
  BY <1>3, <1>5 DEF Got
<1> QED
  BY <1>2, <1>4, <1>6, <1>7 DEF full, open

LEMMA GotRowsIn ==
    ASSUME NEW files, NEW new, NEW loc \in Locations, NEW rows, Got(files, new, loc, rows)
    PROVE  RowsIn(new) = RowsIn(files) \cup rows
<1>1. ASSUME NEW x \in RowsIn(new) PROVE x \in RowsIn(files) \cup rows
  <2>1. PICK l \in Locations : x \in RowsOf(new[l].rows)
    BY DEF RowsIn
  <2>2. RowsOf(new[l].rows) = RowsOf(files[l].rows) \cup (IF l = loc THEN rows ELSE {})
    BY DEF Got
  <2>3. x \in RowsOf(files[l].rows) \/ x \in rows
    BY <2>1, <2>2
  <2> QED
    BY <2>3 DEF RowsIn
<1>2. ASSUME NEW l \in Locations PROVE RowsOf(files[l].rows) \subseteq RowsOf(new[l].rows)
  BY DEF Got
<1>3. rows \subseteq RowsOf(new[loc].rows)
  BY DEF Got
<1> QED
  BY <1>1, <1>2, <1>3 DEF RowsIn

EpisodesOK(m, n) == m \in EpisodeWriter /\ WriterOK(m, n) /\ Named(m)

\* FlushMetadataBuffer moves rows from the buffer to the file they name.
LEMMA BufferFlushed ==
    ASSUME NEW m, NEW n, EpisodesOK(m, n)
    PROVE  /\ EpisodesOK(FlushBuffer(m), n) /\ FlushBuffer(m).loc = m.loc
           /\ FlushBuffer(m).buffer = <<>> /\ AllRows(FlushBuffer(m)) = AllRows(m)
<1>1. m \in EpisodeWriter /\ m.loc \in Locations /\ m.buffer \in Seq(Row)
  BY DEF EpisodesOK, EpisodeWriter
<1>2. CASE m.buffer = <<>>
  BY <1>1, <1>2 DEF FlushBuffer
<1>3. CASE m.buffer # <<>>
  <2> DEFINE full == Flush(Open(m), m.buffer)
             new == [full EXCEPT !.buffer = <<>>]
  <2>1. FlushBuffer(m) = new
    BY <1>3 DEF FlushBuffer
  <2>2. /\ full \in EpisodeWriter /\ full.loc = m.loc /\ WriterOK(full, n)
        /\ Got(m.files, full.files, m.loc, RowsOf(m.buffer))
    BY <1>1, EpisodesTake DEF EpisodesOK
  <2> HIDE DEF full
  <2>3. /\ new \in EpisodeWriter /\ new.loc = full.loc /\ new.files = full.files
        /\ new.open = full.open /\ new.buffer = <<>>
    BY <2>2, EmptySeq DEF EpisodeWriter
  <2> HIDE DEF new
  <2>4. WriterOK(new, n)
    BY <2>2, <2>3 DEF WriterOK
  <2>5. Named(new)
    <3>1. ASSUME NEW l \in Locations, NEW r \in RowsOf(new.files[l].rows) PROVE r.meta = l
      <4>1. r \in RowsOf(m.files[l].rows) \/ (l = m.loc /\ r \in RowsOf(m.buffer))
        BY <2>2, <2>3, <3>1 DEF Got
      <4> QED
        BY <4>1 DEF EpisodesOK, Named
    <3>2. RowsOf(new.buffer) = {}
      BY <2>3, NoRows
    <3> QED
      BY <3>1, <3>2 DEF Named
  <2>6. AllRows(new) = AllRows(m)
    <3>1. RowsIn(new.files) = RowsIn(m.files) \cup RowsOf(m.buffer)
      BY <1>1, <2>2, <2>3, GotRowsIn
    <3>2. RowsOf(new.buffer) = {}
      BY <2>3, NoRows
    <3> QED
      BY <3>1, <3>2 DEF AllRows
  <2> QED
    BY <2>1, <2>2, <2>3, <2>4, <2>5, <2>6 DEF EpisodesOK
<1> QED
  BY <1>2, <1>3

\* MaybeRotateEpisodesWriter, with the rows that wait for the old file.
LEMMA EpisodesRotate ==
    ASSUME NEW m, NEW n \in Nat, n < MaxFiles, EpisodesOK(m, n), m.open
    PROVE  EpisodesOK(Rotate(m), n + 1) /\ AllRows(Rotate(m)) = AllRows(m)
<1> DEFINE b == FlushBuffer(m)
           new == [Close(b) EXCEPT !.loc = Advance(b.loc)]
<1>1. /\ EpisodesOK(b, n) /\ b.loc = m.loc /\ b.buffer = <<>> /\ AllRows(b) = AllRows(m)
  BY BufferFlushed
<1>2. b.open
  <2>1. CASE m.buffer = <<>>
    BY <2>1 DEF FlushBuffer
  <2>2. CASE m.buffer # <<>>
    <3> DEFINE full == Flush(Open(m), m.buffer)
    <3>1. m \in EpisodeWriter /\ m.buffer \in Seq(Row)
      BY DEF EpisodesOK, EpisodeWriter
    <3>2. full \in EpisodeWriter /\ full.open = TRUE
      BY <3>1, EpisodesOpens, EpisodesFlushes
    <3> HIDE DEF full
    <3>3. [full EXCEPT !.buffer = <<>>].open = TRUE
      BY <3>2 DEF EpisodeWriter
    <3> QED
      BY <2>2, <3>3 DEF FlushBuffer, full
  <2> QED
    BY <2>1, <2>2
<1> HIDE DEF b
<1>3. b \in EpisodeWriter /\ WriterOK(b, n)
  BY <1>1 DEF EpisodesOK
<1>4. /\ new \in EpisodeWriter /\ WriterOK(new, n + 1) /\ SameRows(b.files, new.files)
      /\ new.buffer = <<>>
  BY <1>1, <1>2, <1>3, EpisodesMove
<1>5. Rotate(m) = new
  <2>1. Close(b) \in EpisodeWriter /\ Close(b).loc = b.loc
    BY <1>3, EpisodesCloses
  <2>2. [Close(b) EXCEPT !.loc = Advance(@)] = new
    BY <2>1 DEF EpisodeWriter
  <2> QED
    BY <2>2 DEF Rotate, b
<1> HIDE DEF new
<1>6. RowsOf(new.buffer) = {} /\ RowsOf(b.buffer) = {}
  BY <1>1, <1>4, NoRows
<1>7. Named(new)
  BY <1>1, <1>4, <1>6 DEF EpisodesOK, Named, SameRows
<1>8. AllRows(new) = AllRows(b)
  BY <1>4, <1>6, SameRowsIn DEF AllRows
<1> QED
  BY <1>1, <1>4, <1>5, <1>7, <1>8 DEF EpisodesOK

\* AppendEpisodeMetadata
LEMMA RowAppended ==
    ASSUME NEW m, NEW n, EpisodesOK(m, n), NEW row \in Row, row.meta = m.loc
    PROVE  EpisodesOK(AppendRow(m, row), n) /\ AllRows(AppendRow(m, row)) = AllRows(m) \cup {row}
<1> DEFINE new == [m EXCEPT !.buffer = Append(m.buffer, row)]
           longer == Append(m.buffer, row)
<1>1. m \in EpisodeWriter /\ m.buffer \in Seq(Row)
  BY DEF EpisodesOK, EpisodeWriter
<1>2. longer \in Seq(Row) /\ RowsOf(longer) = RowsOf(m.buffer) \cup {row}
  BY <1>1, RowsOfAppended
<1>3. new = [m EXCEPT !.buffer = longer]
  OBVIOUS
<1> HIDE DEF longer
<1>4. /\ new \in EpisodeWriter /\ new.loc = m.loc /\ new.open = m.open /\ new.files = m.files
      /\ new.buffer = longer
  BY <1>1, <1>2, <1>3 DEF EpisodeWriter
<1>5. /\ [m EXCEPT !.buffer = Append(@, row)] = new
  BY <1>1 DEF EpisodeWriter
<1> HIDE DEF new
<1>6. EpisodesOK(new, n)
  BY <1>2, <1>4 DEF EpisodesOK, WriterOK, Named
<1>7. AllRows(new) = AllRows(m) \cup {row}
  BY <1>2, <1>4 DEF AllRows
<1>8. AppendRow(m, row) = IF Len(new.buffer) >= MetadataBufferSize THEN FlushBuffer(new) ELSE new
  BY <1>5 DEF AppendRow
<1>9. CASE Len(new.buffer) >= MetadataBufferSize
  BY <1>6, <1>7, <1>8, <1>9, BufferFlushed
<1>10. CASE ~(Len(new.buffer) >= MetadataBufferSize)
  BY <1>6, <1>7, <1>8, <1>10
<1> QED
  BY <1>9, <1>10

\* The end of both writers.
LEMMA EpisodesEnd ==
    ASSUME NEW m, NEW n, EpisodesOK(m, n)
    PROVE  LET new == Close(FlushBuffer(m))
           IN /\ new \in EpisodeWriter /\ Named(new) /\ AllRows(new) = AllRows(m)
              /\ new.buffer = <<>> /\ FilesClosed(new.files)
<1> DEFINE b == FlushBuffer(m)
           new == Close(b)
<1>1. /\ b \in EpisodeWriter /\ WriterOK(b, n) /\ Named(b) /\ b.buffer = <<>>
      /\ AllRows(b) = AllRows(m)
  BY BufferFlushed DEF EpisodesOK
<1> HIDE DEF b
<1>2. /\ new \in EpisodeWriter /\ new.loc = b.loc /\ new.buffer = <<>>
      /\ new.files = (IF b.open THEN Footed(b.files, b.loc) ELSE b.files)
  BY <1>1, EpisodesCloses
<1>3. b.open \in BOOLEAN /\ b.loc \in Locations /\ b.files \in [Locations -> File(Row)]
  BY <1>1 DEF EpisodeWriter
<1> HIDE DEF new
<1>4. FilesClosed(new.files) /\ SameRows(b.files, new.files)
  <2>1. CASE b.open
    <3>1. FilesOK(b.files, b.loc, TRUE) /\ new.files = Footed(b.files, b.loc)
      BY <1>1, <1>2, <1>3, <2>1 DEF WriterOK, FilesOK
    <3> QED
      BY <1>3, <3>1, FootedKeeps DEF SameRows
  <2>2. CASE ~b.open
    BY <1>1, <1>2, <1>3, <2>2 DEF WriterOK, ClosedBut, FilesClosed, SameRows
  <2> QED
    BY <2>1, <2>2
<1>5. Named(new)
  BY <1>1, <1>2, <1>4 DEF Named, SameRows
<1>6. AllRows(new) = AllRows(b)
  BY <1>1, <1>2, <1>4, SameRowsIn DEF AllRows
<1> QED
  BY <1>1, <1>2, <1>4, <1>5, <1>6 DEF new, b

LEMMA DataEnd ==
    ASSUME NEW w \in DataWriter, NEW n, WriterOK(w, n)
    PROVE  /\ Close(w) \in DataWriter /\ FilesClosed(Close(w).files)
           /\ SameRows(w.files, Close(w).files)
<1>1. Close(w).files = (IF w.open THEN Footed(w.files, w.loc) ELSE w.files)
  BY DataCloses
<1>2. w.open \in BOOLEAN /\ w.loc \in Locations /\ w.files \in [Locations -> File(DataRow)]
  BY DEF DataWriter
<1>3. CASE w.open
  <2>1. FilesOK(w.files, w.loc, TRUE) /\ Close(w).files = Footed(w.files, w.loc)
    BY <1>1, <1>2, <1>3 DEF WriterOK, FilesOK
  <2>2. /\ FilesClosed(Footed(w.files, w.loc))
        /\ \A l \in Locations : Footed(w.files, w.loc)[l].rows = w.files[l].rows
    BY <1>2, <2>1, FootedKeeps
  <2> QED
    BY <2>1, <2>2, DataCloses DEF SameRows
<1>4. CASE ~w.open
  BY <1>1, <1>2, <1>4, DataCloses DEF WriterOK, ClosedBut, FilesClosed, SameRows
<1> QED
  BY <1>3, <1>4

-----------------------------------------------------------------------------
(* The times of fragments *)

LEMMA UpTo == \A n \in Nat : IsFiniteSet(1..n) /\ Cardinality(1..n) = n
<1>1. ASSUME NEW n \in Nat PROVE IsFiniteSet(1..n) /\ Cardinality(1..n) = n
  BY FS_Interval
<1> QED
  BY <1>1

LEMMA FramesFinite ==
    ASSUME NEW q \in Seq(Fragment), NEW i \in 0..Len(q)
    PROVE  IsFiniteSet(FramesTo(q, i)) /\ EndOf(q, i) \in Nat
<1> DEFINE part == [j \in 1..i |-> {j} \X (1..q[j].frames)]
           parts == {{j} \X (1..q[j].frames) : j \in 1..i}
<1>1. IsFiniteSet(1..i)
  BY FS_Interval
<1>2. ASSUME NEW j \in 1..i PROVE IsFiniteSet({j} \X (1..q[j].frames))
  <2>1. q[j] \in Fragment
    BY <1>2
  <2>2. q[j].frames \in Nat
    BY <2>1 DEF Fragment
  <2>3. IsFiniteSet({j}) /\ IsFiniteSet(1..q[j].frames)
    BY <2>2, FS_Singleton, UpTo
  <2> QED
    BY <2>3, FS_Product
<1>3. part \in [1..i -> parts] /\ \A t \in parts : \E j \in 1..i : part[j] = t
  OBVIOUS
<1>4. part \in Surjection(1..i, parts)
  BY <1>3, Fun_IsSurj
<1>5. IsFiniteSet(parts)
  BY <1>1, <1>4, FS_Surjection
<1>6. \A t \in parts : IsFiniteSet(t)
  BY <1>2
<1>7. IsFiniteSet(UNION parts)
  BY <1>5, <1>6, FS_UNION
<1> QED
  BY <1>7, FS_CardinalityType DEF FramesTo, EndOf

\* What is in the set, pair by pair.
LEMMA InFrames ==
    \A q, i, j, k : <<j, k>> \in FramesTo(q, i) <=> j \in 1..i /\ k \in 1..q[j].frames
BY DEF FramesTo

LEMMA FramesArePairs ==
    \A q, i : \A p \in FramesTo(q, i) : \E j \in 1..i : \E k \in 1..q[j].frames : p = <<j, k>>
<1>1. ASSUME NEW q, NEW i, NEW p \in FramesTo(q, i)
      PROVE  \E j \in 1..i : \E k \in 1..q[j].frames : p = <<j, k>>
  <2>1. PICK j \in 1..i : p \in {j} \X (1..q[j].frames)
    BY <1>1 DEF FramesTo
  <2>2. p = <<j, p[2]>> /\ p[2] \in 1..q[j].frames
    BY <2>1
  <2> QED
    BY <2>2
<1> QED
  BY <1>1

LEMMA EndOfNone == \A q : EndOf(q, 0) = 0
<1>1. ASSUME NEW q PROVE FramesTo(q, 0) = {}
  BY FramesArePairs
<1> QED
  BY <1>1, FS_EmptySet DEF EndOf

LEMMA EndOfStep ==
    ASSUME NEW q \in Seq(Fragment), NEW i \in 1..Len(q)
    PROVE  EndOf(q, i) = EndOf(q, i - 1) + q[i].frames
<1> DEFINE last == {i} \X (1..q[i].frames)
<1>1. i - 1 \in 0..Len(q) /\ i \in 0..Len(q) /\ 1..i = (1..(i - 1)) \cup {i} /\ i \notin 1..(i - 1)
  OBVIOUS
<1>2. q[i] \in Fragment
  OBVIOUS
<1>3. q[i].frames \in Nat
  BY <1>2 DEF Fragment
<1>4. IsFiniteSet(last) /\ Cardinality(last) = q[i].frames
  <2>1. IsFiniteSet({i}) /\ Cardinality({i}) = 1
    BY FS_Singleton
  <2>2. IsFiniteSet(1..q[i].frames) /\ Cardinality(1..q[i].frames) = q[i].frames
    BY <1>3, UpTo
  <2>3. IsFiniteSet(last) /\ Cardinality(last) = 1 * q[i].frames
    BY <2>1, <2>2, FS_Product
  <2> QED
    BY <1>3, <2>3
<1>5. FramesTo(q, i) = FramesTo(q, i - 1) \cup last
  <2>1. ASSUME NEW p \in FramesTo(q, i) PROVE p \in FramesTo(q, i - 1) \cup last
    <3>1. PICK j \in 1..i : \E k \in 1..q[j].frames : p = <<j, k>>
      BY <2>1, FramesArePairs
    <3>2. CASE j = i
      BY <3>1, <3>2
    <3>3. CASE j # i
      <4>1. j \in 1..(i - 1)
        BY <1>1, <3>3
      <4> QED
        BY <3>1, <4>1, InFrames
    <3> QED
      BY <3>2, <3>3
  <2>2. ASSUME NEW p \in FramesTo(q, i - 1) PROVE p \in FramesTo(q, i)
    <3>1. PICK j \in 1..(i - 1) : \E k \in 1..q[j].frames : p = <<j, k>>
      BY <2>2, FramesArePairs
    <3> QED
      BY <1>1, <3>1, InFrames
  <2>3. ASSUME NEW p \in last PROVE p \in FramesTo(q, i)
    <3>1. p = <<i, p[2]>> /\ p[2] \in 1..q[i].frames
      BY <2>3
    <3>2. i \in 1..i
      OBVIOUS
    <3> QED
      BY <3>1, <3>2, InFrames
  <2> QED
    BY <2>1, <2>2, <2>3
<1>6. FramesTo(q, i - 1) \cap last = {}
  <2>1. ASSUME NEW p \in FramesTo(q, i - 1), p \in last PROVE FALSE
    <3>1. PICK j \in 1..(i - 1) : \E k \in 1..q[j].frames : p = <<j, k>>
      BY <2>1, FramesArePairs
    <3>2. p[1] = i
      BY <2>1
    <3> QED
      BY <1>1, <3>1, <3>2
  <2> QED
    BY <2>1
<1>7. IsFiniteSet(FramesTo(q, i - 1)) /\ EndOf(q, i - 1) \in Nat
  BY <1>1, FramesFinite
<1>8. Cardinality(FramesTo(q, i))
          = Cardinality(FramesTo(q, i - 1)) + Cardinality(last) - Cardinality({})
  BY <1>4, <1>5, <1>6, <1>7, FS_Union
<1> QED
  BY <1>3, <1>4, <1>7, <1>8, FS_EmptySet DEF EndOf

LEMMA EndOfGrows ==
    ASSUME NEW q \in Seq(Fragment), NEW i \in 0..Len(q), NEW k \in 0..Len(q), i <= k
    PROVE  EndOf(q, i) <= EndOf(q, k)
<1>1. FramesTo(q, i) \subseteq FramesTo(q, k)
  <2>1. ASSUME NEW p \in FramesTo(q, i) PROVE p \in FramesTo(q, k)
    <3>1. PICK j \in 1..i : \E n \in 1..q[j].frames : p = <<j, n>>
      BY <2>1, FramesArePairs
    <3>2. j \in 1..k
      BY <3>1
    <3> QED
      BY <3>1, <3>2, InFrames
  <2> QED
    BY <2>1
<1> QED
  BY <1>1, FramesFinite, FS_Subset DEF EndOf

\* Fragments that follow change nothing.
LEMMA EndOfPrefix ==
    ASSUME NEW q, NEW other, NEW i \in Nat, \A j \in 1..i : q[j] = other[j]
    PROVE  EndOf(q, i) = EndOf(other, i)
<1>1. {{j} \X (1..q[j].frames) : j \in 1..i} = {{j} \X (1..other[j].frames) : j \in 1..i}
  OBVIOUS
<1> QED
  BY <1>1 DEF EndOf, FramesTo

LEMMA InShardKept ==
    ASSUME NEW q \in Seq(Fragment), NEW x \in Fragment,
           NEW route, NEW episode, NEW length, InShard(q, route, episode, length)
    PROVE  InShard(Append(q, x), route, episode, length)
<1> DEFINE a == Append(q, x)
<1>1. Len(q) \in Nat /\ Len(a) = Len(q) + 1 /\ \A j \in 1..Len(q) : a[j] = q[j]
  OBVIOUS
<1>2. PICK k \in 1..Len(q) :
         /\ q[k] = [episode |-> episode, frames |-> length]
         /\ route.from = EndOf(q, k - 1) /\ route.to = EndOf(q, k)
  BY DEF InShard
<1> HIDE DEF a
<1>3. /\ k \in 1..Len(a) /\ a[k] = q[k] /\ k \in Nat /\ k - 1 \in Nat
      /\ \A j \in 1..k : q[j] = a[j]
      /\ \A j \in 1..(k - 1) : q[j] = a[j]
  BY <1>1
<1>4. EndOf(q, k) = EndOf(a, k) /\ EndOf(q, k - 1) = EndOf(a, k - 1)
  BY <1>3, EndOfPrefix
<1> QED
  BY <1>2, <1>3, <1>4 DEF InShard, a

\* A fragment that is appended starts where the others end.
LEMMA FragmentAppended ==
    ASSUME NEW q \in Seq(Fragment), NEW x \in Fragment
    PROVE  /\ Append(q, x) \in Seq(Fragment) /\ Len(Append(q, x)) = Len(q) + 1
           /\ Append(q, x)[Len(q) + 1] = x
           /\ EndOf(q, Len(q)) \in Nat
           /\ EndOf(Append(q, x), Len(q)) = EndOf(q, Len(q))
           /\ EndOf(Append(q, x), Len(q) + 1) = EndOf(q, Len(q)) + x.frames
<1> DEFINE a == Append(q, x)
<1>1. /\ Len(q) \in Nat /\ a \in Seq(Fragment) /\ Len(a) = Len(q) + 1 /\ a[Len(q) + 1] = x
      /\ \A j \in 1..Len(q) : q[j] = a[j]
  OBVIOUS
<1> HIDE DEF a
<1>2. EndOf(q, Len(q)) = EndOf(a, Len(q))
  BY <1>1, EndOfPrefix
<1>3. Len(q) + 1 \in 1..Len(a) /\ (Len(q) + 1) - 1 = Len(q)
  BY <1>1
<1>4. EndOf(a, Len(q) + 1) = EndOf(a, Len(q)) + a[Len(q) + 1].frames
  BY <1>1, <1>3, EndOfStep
<1>5. EndOf(q, Len(q)) \in Nat
  BY <1>1, FramesFinite
<1> QED
  BY <1>1, <1>2, <1>4, <1>5 DEF a

LEMMA InShardNew ==
    ASSUME NEW q \in Seq(Fragment), NEW episode \in Nat, NEW length \in Nat, NEW route,
           route.from = EndOf(q, Len(q)), route.to = EndOf(q, Len(q)) + length
    PROVE  InShard(Append(q, [episode |-> episode, frames |-> length]), route, episode, length)
<1> DEFINE x == [episode |-> episode, frames |-> length]
           a == Append(q, x)
<1>1. x \in Fragment /\ x.frames = length
  BY DEF Fragment
<1>2. Len(q) \in Nat
  OBVIOUS
<1> HIDE DEF x
<1>3. /\ Len(a) = Len(q) + 1 /\ a[Len(q) + 1] = x
      /\ EndOf(a, Len(q)) = EndOf(q, Len(q))
      /\ EndOf(a, Len(q) + 1) = EndOf(q, Len(q)) + length
  BY <1>1, FragmentAppended
<1> HIDE DEF a
<1>4. Len(q) + 1 \in 1..Len(a) /\ (Len(q) + 1) - 1 = Len(q)
  BY <1>2, <1>3
<1>5. /\ a[Len(q) + 1] = x
      /\ route.from = EndOf(a, (Len(q) + 1) - 1) /\ route.to = EndOf(a, Len(q) + 1)
  BY <1>3, <1>4
<1> QED
  BY <1>4, <1>5 DEF InShard, a, x

\* The time of a fragment that has frames meets no other fragment.
LEMMA OneFragment ==
    ASSUME NEW q \in Seq(Fragment), NEW route, NEW episode, NEW length \in Nat, length > 0,
           InShard(q, route, episode, length)
    PROVE  /\ {q[i].episode : i \in {k \in 1..Len(q) :
                  EndOf(q, k - 1) < route.to /\ EndOf(q, k) > route.from}} = {episode}
           /\ route.to - route.from = length
<1>1. PICK n \in 1..Len(q) :
         /\ q[n] = [episode |-> episode, frames |-> length]
         /\ route.from = EndOf(q, n - 1) /\ route.to = EndOf(q, n)
  BY DEF InShard
<1>2. \A i \in 0..Len(q) : EndOf(q, i) \in Nat
  BY FramesFinite
<1>3. n \in 0..Len(q) /\ n - 1 \in 0..Len(q) /\ Len(q) \in Nat
  OBVIOUS
<1>4. q[n].frames = length /\ q[n].episode = episode
  BY <1>1
<1>5. EndOf(q, n) = EndOf(q, n - 1) + length
  BY <1>4, EndOfStep
<1>6. route.from \in Nat /\ route.to \in Nat /\ route.to = route.from + length
  BY <1>1, <1>2, <1>3, <1>5
<1>7. ASSUME NEW k \in 1..Len(q), EndOf(q, k - 1) < route.to, EndOf(q, k) > route.from
      PROVE  k = n
  <2>1. /\ k \in 0..Len(q) /\ k - 1 \in 0..Len(q)
        /\ EndOf(q, k) \in Nat /\ EndOf(q, k - 1) \in Nat
    BY <1>2, <1>3
  <2>2. CASE k < n
    <3>1. k <= n - 1
      BY <1>3, <2>1, <2>2
    <3>2. EndOf(q, k) <= EndOf(q, n - 1)
      BY <1>3, <2>1, <3>1, EndOfGrows
    <3> QED
      BY <1>1, <1>6, <1>7, <2>1, <3>2
  <2>3. CASE n < k
    <3>1. n <= k - 1
      BY <1>3, <2>1, <2>3
    <3>2. EndOf(q, n) <= EndOf(q, k - 1)
      BY <1>3, <2>1, <3>1, EndOfGrows
    <3> QED
      BY <1>1, <1>6, <1>7, <2>1, <3>2
  <2> QED
    BY <1>3, <2>1, <2>2, <2>3
<1>8. EndOf(q, n - 1) < route.to /\ EndOf(q, n) > route.from
  BY <1>1, <1>6
<1>9. {k \in 1..Len(q) : EndOf(q, k - 1) < route.to /\ EndOf(q, k) > route.from} = {n}
  BY <1>7, <1>8
<1>10. {q[i].episode : i \in {n}} = {episode}
  BY <1>4
<1>11. route.to - route.from = length
  BY <1>6
<1> QED
  BY <1>9, <1>10, <1>11

-----------------------------------------------------------------------------
(* The shards of a video feature *)

LEMMA ShardSets ==
    ASSUME NEW s \in Shard, NEW l \in Locations, NEW time \in Nat, NEW size \in Nat,
           NEW q \in Seq(Fragment), NEW b \in BOOLEAN
    PROVE  [initialized |-> b, loc |-> l, duration |-> time, bytes |-> size, fragments |-> q]
              \in Shard
BY DEF Shard

\* MaterializeVideoShard
LEMMA MaterializeKeeps ==
    ASSUME NEW v \in Video, FilesClosed(v.files)
    PROVE  /\ Materialize(v) \in Video /\ FilesClosed(Materialize(v).files)
           /\ Materialize(v).shard.loc = v.shard.loc /\ Materialize(v).shard.fragments = <<>>
           /\ Materialize(v).shard.duration = v.shard.duration
           /\ \A l \in Locations : Content(Materialize(v), l) = Content(v, l)
           /\ \A l \in Locations :
                 l # v.shard.loc => Materialize(v).files[l] = v.files[l]
<1>1. /\ v.shard \in Shard /\ v.files \in [Locations -> File(Fragment)]
  BY DEF Video
<1>2. /\ v.shard.loc \in Locations /\ v.shard.fragments \in Seq(Fragment)
  BY <1>1 DEF Shard
<1>3. CASE v.shard.fragments = <<>>
  BY <1>3 DEF Materialize
<1>4. CASE v.shard.fragments # <<>>
  <2> DEFINE full == [rows |-> v.shard.fragments, closed |-> TRUE]
             shard == [v.shard EXCEPT !.fragments = <<>>, !.bytes = 0]
             files == [v.files EXCEPT ![v.shard.loc] = full]
             new == [shard |-> shard, files |-> files]
  <2>1. Materialize(v) = new
    BY <1>4 DEF Materialize
  <2>2. full \in File(Fragment) /\ full.rows = v.shard.fragments /\ full.closed = TRUE
    BY <1>2 DEF File
  <2>3. /\ shard \in Shard /\ shard.loc = v.shard.loc /\ shard.fragments = <<>>
        /\ shard.duration = v.shard.duration
    BY <1>1, EmptySeq DEF Shard
  <2> HIDE DEF full, shard
  <2>4. /\ files \in [Locations -> File(Fragment)] /\ files[v.shard.loc] = full
        /\ \A l \in Locations : l # v.shard.loc => files[l] = v.files[l]
    BY <1>1, <1>2, <2>2
  <2> HIDE DEF files
  <2>5. new \in Video /\ new.shard = shard /\ new.files = files
    BY <2>3, <2>4 DEF Video
  <2> HIDE DEF new
  <2>6. FilesClosed(new.files)
    BY <2>2, <2>4, <2>5 DEF FilesClosed
  <2>7. ASSUME NEW l \in Locations PROVE Content(new, l) = Content(v, l)
    <3>1. Content(new, l) = new.files[l].rows
      BY <2>3, <2>5 DEF Content
    <3>2. CASE l = v.shard.loc
      BY <1>4, <2>2, <2>4, <2>5, <3>1, <3>2 DEF Content
    <3>3. CASE l # v.shard.loc
      BY <2>4, <2>5, <3>1, <3>3 DEF Content
    <3> QED
      BY <3>2, <3>3
  <2> QED
    BY <2>1, <2>3, <2>4, <2>5, <2>6, <2>7
<1> QED
  BY <1>3, <1>4

\* The shard that takes the next episode.
LEMMA ShardForKeeps ==
    ASSUME NEW v \in Video, NEW n \in Nat, n < MaxFiles, VideoOK(v, n), FilesClosed(v.files),
           NEW bytes
    PROVE  /\ ShardFor(v, bytes) \in Video /\ VideoOK(ShardFor(v, bytes), n + 1)
           /\ FilesClosed(ShardFor(v, bytes).files)
           /\ \A l \in Locations : Content(ShardFor(v, bytes), l) = Content(v, l)
<1>1. v.shard \in Shard /\ v.shard.loc \in Locations /\ v.shard.loc.chunk \in Nat
  BY BoundsAssumption DEF Video, Shard, Locations
<1>2. v.shard.loc.chunk <= n
  BY DEF VideoOK
<1>3. CASE ShardFor(v, bytes) = v
  <2>1. v.shard.loc.chunk <= n + 1
    BY <1>1, <1>2
  <2>2. VideoOK(v, n + 1)
    BY <2>1 DEF VideoOK
  <2> QED
    BY <1>3, <2>2
<1>4. CASE ShardFor(v, bytes) = NextShard(v)
  <2> DEFINE m == Materialize(v)
             shard == [m.shard EXCEPT !.loc = Advance(m.shard.loc), !.duration = 0]
             new == [m EXCEPT !.shard = shard]
  <2>1. /\ m \in Video /\ FilesClosed(m.files) /\ m.shard.loc = v.shard.loc
        /\ m.shard.fragments = <<>> /\ \A l \in Locations : Content(m, l) = Content(v, l)
        /\ \A l \in Locations : l # v.shard.loc => m.files[l] = v.files[l]
    BY MaterializeKeeps
  <2>2. NextShard(v) = [m EXCEPT !.shard.loc = Advance(@), !.shard.duration = 0]
    BY DEF NextShard
  <2> HIDE DEF m
  <2>3. m.shard \in Shard /\ m.files \in [Locations -> File(Fragment)]
    BY <2>1 DEF Video
  <2>4. NextShard(v) = new
    BY <2>1, <2>2, <2>3 DEF Video, Shard
  <2>5. /\ Advance(v.shard.loc) \in Locations /\ Advance(v.shard.loc).chunk \in Nat
        /\ Advance(v.shard.loc).chunk <= v.shard.loc.chunk + 1
        /\ Later(Advance(v.shard.loc), v.shard.loc)
        /\ \A l \in Locations : Later(l, Advance(v.shard.loc)) => Later(l, v.shard.loc)
    <3>1. v.shard.loc.chunk < MaxFiles
      BY <1>1, <1>2, BoundsAssumption
    <3> QED
      BY <1>1, <3>1, AdvanceFacts
  <2>6. /\ shard \in Shard /\ shard.loc = Advance(v.shard.loc) /\ shard.duration = 0
        /\ shard.fragments = <<>>
    BY <2>1, <2>3, <2>5 DEF Shard
  <2> HIDE DEF shard
  <2>7. new \in Video /\ new.shard = shard /\ new.files = m.files
    BY <2>1, <2>6 DEF Video
  <2> HIDE DEF new
  <2>8. Unused(m.files, Advance(v.shard.loc), FALSE)
    <3>1. ASSUME NEW l \in Locations, Later(l, Advance(v.shard.loc)) \/ l = Advance(v.shard.loc)
          PROVE  m.files[l].rows = <<>>
      <4>1. Later(l, v.shard.loc)
        BY <2>5, <3>1
      <4>2. l # v.shard.loc
        BY <4>1, NotLater
      <4> QED
        BY <2>1, <4>1, <4>2 DEF VideoOK, Unused
    <3> QED
      BY <3>1 DEF Unused
  <2>9. EndOf(shard.fragments, Len(shard.fragments)) = 0
    BY <2>6, EmptySeq, EndOfNone
  <2>10. Advance(v.shard.loc).chunk <= n + 1
    BY <1>1, <1>2, <2>5
  <2>11. VideoOK(new, n + 1)
    BY <2>6, <2>7, <2>8, <2>9, <2>10 DEF VideoOK
  <2>12. \A l \in Locations : Content(new, l) = Content(m, l)
    BY <2>1, <2>6, <2>7 DEF Content
  <2> QED
    BY <1>4, <2>1, <2>4, <2>7, <2>11, <2>12
<1> QED
  BY <1>3, <1>4 DEF ShardFor

\* The pending fragments are all that the shard will hold.
LEMMA PendingContent ==
    ASSUME NEW v \in Video, NEW n, VideoOK(v, n)
    PROVE  Content(v, v.shard.loc) = v.shard.fragments
<1>1. v.shard.loc \in Locations
  BY DEF Video, Shard
<1> QED
  BY <1>1 DEF Content, VideoOK, Unused

\* The episode is appended to it.
LEMMA FragmentTaken ==
    ASSUME NEW v \in Video, NEW n, VideoOK(v, n), NEW bytes \in Nat,
           Length \in Nat, current.index \in Nat
    PROVE  LET new == WithFragment(v, bytes)
               x == [episode |-> current.index, frames |-> Length]
           IN /\ new \in Video /\ VideoOK(new, n) /\ new.files = v.files
              /\ \A l \in Locations :
                    Content(new, l) = IF l = v.shard.loc THEN Append(Content(v, l), x)
                                                        ELSE Content(v, l)
<1> DEFINE x == [episode |-> current.index, frames |-> Length]
           longer == Append(v.shard.fragments, x)
           shard == [v.shard EXCEPT !.initialized = TRUE, !.bytes = v.shard.bytes + bytes,
                                    !.duration = v.shard.duration + Length, !.fragments = longer]
           new == [v EXCEPT !.shard = shard]
<1>1. /\ v.shard \in Shard /\ v.files \in [Locations -> File(Fragment)]
  BY DEF Video
<1>2. /\ v.shard.loc \in Locations /\ v.shard.fragments \in Seq(Fragment)
      /\ v.shard.bytes \in Nat /\ v.shard.duration \in Nat
  BY <1>1 DEF Shard
<1>3. x \in Fragment /\ x.frames = Length
  BY DEF Fragment
<1>4. WithFragment(v, bytes) = new
  BY <1>1 DEF WithFragment, Video, Shard
<1> HIDE DEF x
<1>5. /\ longer \in Seq(Fragment) /\ Len(longer) = Len(v.shard.fragments) + 1
      /\ EndOf(longer, Len(longer)) = EndOf(v.shard.fragments, Len(v.shard.fragments)) + Length
      /\ longer # <<>>
  BY <1>2, <1>3, FragmentAppended
<1> HIDE DEF longer
<1>6. v.shard.bytes + bytes \in Nat /\ v.shard.duration + Length \in Nat
  BY <1>2
<1>7. /\ shard \in Shard /\ shard.loc = v.shard.loc /\ shard.fragments = longer
      /\ shard.duration = v.shard.duration + Length
  BY <1>1, <1>5, <1>6 DEF Shard
<1> HIDE DEF shard
<1>8. new \in Video /\ new.shard = shard /\ new.files = v.files
  BY <1>7 DEF Video
<1> HIDE DEF new
<1>9. VideoOK(new, n)
  BY <1>5, <1>7, <1>8 DEF VideoOK
<1>10. ASSUME NEW l \in Locations
       PROVE  Content(new, l) = IF l = v.shard.loc THEN Append(Content(v, l), x)
                                                  ELSE Content(v, l)
  <2>1. CASE l = v.shard.loc
    <3>1. Content(new, l) = longer
      BY <1>5, <1>7, <1>8, <2>1 DEF Content
    <3>2. Content(v, l) = v.shard.fragments
      BY <2>1, PendingContent
    <3> QED
      BY <2>1, <3>1, <3>2 DEF longer
  <2>2. CASE l # v.shard.loc
    BY <1>7, <1>8, <2>2 DEF Content
  <2> QED
    BY <2>1, <2>2
<1> QED
  BY <1>4, <1>8, <1>9, <1>10 DEF x

-----------------------------------------------------------------------------
(* What one more episode adds *)

LEMMA RowsOfType == ASSUME NEW S, NEW q \in Seq(S) PROVE RowsOf(q) \subseteq S
<1>1. DOMAIN q = 1..Len(q)
  BY LenProperties
<1> QED
  BY <1>1, ElementOfSeq DEF RowsOf

LEMMA RowsInType ==
    ASSUME NEW S, NEW files \in [Locations -> File(S)]
    PROVE  RowsIn(files) \subseteq S
<1>1. ASSUME NEW l \in Locations PROVE RowsOf(files[l].rows) \subseteq S
  <2>1. files[l] \in File(S)
    OBVIOUS
  <2>2. files[l].rows \in Seq(S)
    BY <2>1 DEF File
  <2> QED
    BY <2>2, RowsOfType
<1> QED
  BY <1>1 DEF RowsIn

LEMMA AllRowsType == ASSUME NEW m \in EpisodeWriter PROVE AllRows(m) \subseteq Row
<1>1. m.files \in [Locations -> File(Row)] /\ m.buffer \in Seq(Row)
  BY DEF EpisodeWriter
<1> QED
  BY <1>1, RowsOfType, RowsInType DEF AllRows

LEMMA ResultGrows ==
    ASSUME NEW S, NEW result \in Seq(S), NEW x \in S
    PROVE  /\ Append(result, x) \in Seq(S) /\ Len(Append(result, x)) = Len(result) + 1
           /\ 1..Len(Append(result, x)) = (1..Len(result)) \cup {Len(result) + 1}
           /\ Append(result, x)[Len(result) + 1] = x /\ Len(result) \in Nat
           /\ \A i \in 1..Len(result) : Append(result, x)[i] = result[i]
OBVIOUS

\* What keeps the routes of the rows right.
RoutesKept(v, other) ==
    \A f \in VideoFeatures : \A l \in Locations : \A route, episode, length :
       InShard(Content(v[f], l), route, episode, length)
          => InShard(Content(other[f], l), route, episode, length)
RowsKept(d, other) ==
    \A l \in Locations : RowsOf(d.files[l].rows) \subseteq RowsOf(other.files[l].rows)

LEMMA RowKept ==
    ASSUME NEW r \in Row, NEW d, NEW d2, NEW v, NEW v2, NEW result, NEW result2,
           RowOK(r, d.files, v, result), RowsKept(d, d2), RoutesKept(v, v2),
           r.episode + 1 \in 1..Len(result2), result2[r.episode + 1] = result[r.episode + 1]
    PROVE  RowOK(r, d2.files, v2, result2)
<1>1. r.data \in Locations /\ \A f \in VideoFeatures : r.routes[f].loc \in Locations
  <2>1. r.routes \in [VideoFeatures -> RouteRecord] /\ r.data \in Locations
    BY DEF Row
  <2>2. \A f \in VideoFeatures : r.routes[f] \in RouteRecord
    BY <2>1
  <2> QED
    BY <2>1, <2>2 DEF RouteRecord
<1>2. InFile(d2.files[r.data].rows, r)
  BY <1>1 DEF RowOK, InFile, RowsKept
<1>3. \A f \in VideoFeatures :
         InShard(Content(v2[f], r.routes[f].loc), r.routes[f], r.episode, r.length)
  BY <1>1 DEF RowOK, RoutesKept
<1> QED
  BY <1>2, <1>3 DEF RowOK

LEMMA RowsGrow ==
    ASSUME NEW m \in EpisodeWriter, NEW m2 \in EpisodeWriter, NEW row \in Row,
           NEW d, NEW d2, NEW v, NEW v2, NEW S, NEW result \in Seq(S), NEW frames \in S,
           Rows(d, v, m, result), RowsKept(d, d2), RoutesKept(v, v2),
           AllRows(m2) = AllRows(m) \cup {row}, row.episode = Len(result),
           RowOK(row, d2.files, v2, Append(result, frames))
    PROVE  Rows(d2, v2, m2, Append(result, frames))
<1> DEFINE more == Append(result, frames)
<1>1. /\ Len(more) = Len(result) + 1 /\ 1..Len(more) = (1..Len(result)) \cup {Len(result) + 1}
      /\ more[Len(result) + 1] = frames /\ Len(result) \in Nat
      /\ \A i \in 1..Len(result) : more[i] = result[i]
  BY ResultGrows
<1> HIDE DEF more
<1>2. AllRows(m) \subseteq Row
  BY AllRowsType
<1>3. ASSUME NEW r \in AllRows(m)
      PROVE  RowOK(r, d2.files, v2, more) /\ r.episode + 1 \in 1..Len(result)
  <2>1. r \in Row /\ RowOK(r, d.files, v, result)
    BY <1>2 DEF Rows
  <2>2. r.episode + 1 \in 1..Len(result)
    BY <2>1 DEF RowOK
  <2>3. r.episode + 1 \in 1..Len(more) /\ more[r.episode + 1] = result[r.episode + 1]
    BY <1>1, <2>2
  <2> QED
    BY <2>1, <2>2, <2>3, RowKept
<1>4. \A r \in AllRows(m2) : RowOK(r, d2.files, v2, more)
  BY <1>3 DEF more
<1>5. ASSUME NEW r \in AllRows(m2), NEW s \in AllRows(m2), r.episode = s.episode PROVE r = s
  <2>1. ASSUME NEW t \in AllRows(m) PROVE t.episode # Len(result)
    <3>1. t.episode \in Nat /\ t.episode + 1 \in 1..Len(result)
      BY <1>2, <1>3 DEF Row
    <3> QED
      BY <1>1, <3>1
  <2> QED
    BY <1>5, <2>1 DEF Rows
<1>6. ASSUME NEW e \in 1..Len(more) PROVE \E r \in AllRows(m2) : r.episode + 1 = e
  <2>1. CASE e \in 1..Len(result)
    BY <2>1 DEF Rows
  <2>2. CASE e = Len(result) + 1
    BY <2>2
  <2> QED
    BY <1>1, <2>1, <2>2
<1> QED
  BY <1>4, <1>5, <1>6 DEF Rows, more

LEMMA DataGrow ==
    ASSUME NEW d, NEW d2, NEW x \in DataRow, NEW table, NEW S, NEW result \in Seq(S),
           NEW frames \in S, NEW n \in Nat, NEW n2 \in Nat, n <= n2,
           RowsIn(d.files) \subseteq DataRow, RowsIn(d2.files) = RowsIn(d.files) \cup {x},
           Data(d, table, result, n), DataOK(x, table, Append(result, frames), n2), x.from = n
    PROVE  Data(d2, table, Append(result, frames), n2)
<1> DEFINE more == Append(result, frames)
<1>1. /\ Len(more) = Len(result) + 1 /\ Len(result) \in Nat
      /\ \A i \in 1..Len(result) : more[i] = result[i]
  BY ResultGrows
<1> HIDE DEF more
<1>2. ASSUME NEW y \in RowsIn(d.files) PROVE DataOK(y, table, more, n2) /\ y.from # n
  <2>1. DataOK(y, table, result, n) /\ y \in DataRow
    BY DEF Data
  <2>2. y.from \in Nat /\ Len(y.task_indexes) \in Nat
    BY <2>1 DEF DataRow
  <2>3. /\ y.episode + 1 \in 1..Len(result) /\ Len(y.task_indexes) > 0
        /\ y.from + Len(y.task_indexes) <= n
    BY <2>1 DEF DataOK
  <2>4. y.episode + 1 \in 1..Len(more) /\ more[y.episode + 1] = result[y.episode + 1]
    BY <1>1, <2>3
  <2>5. y.from + Len(y.task_indexes) <= n2 /\ y.from # n
    BY <2>2, <2>3
  <2> QED
    BY <2>1, <2>4, <2>5 DEF DataOK
<1>3. \A y \in RowsIn(d2.files) : DataOK(y, table, more, n2)
  BY <1>2 DEF more
<1>4. \A y, z \in RowsIn(d2.files) : y.from = z.from => y = z
  BY <1>2 DEF Data
<1> QED
  BY <1>3, <1>4 DEF Data, more

\* The task table only grows.
Prefix(table, other) == Len(table) <= Len(other) /\ \A i \in 1..Len(table) : other[i] = table[i]

LEMMA TableGrows ==
    ASSUME NEW table \in Seq(Tasks), NEW other \in Seq(Tasks), Prefix(table, other),
           NEW d, NEW result, NEW n, Data(d, table, result, n)
    PROVE  Data(d, other, result, n)
<1>1. Len(table) \in Nat /\ Len(other) \in Nat
  OBVIOUS
<1>2. ASSUME NEW i \in 1..Len(table) PROVE i \in 1..Len(other) /\ other[i] = table[i]
  BY <1>1 DEF Prefix
<1> QED
  BY <1>2 DEF Data, DataOK

LEMMA WithTaskKeeps ==
    ASSUME tasks \in Seq(Tasks), NEW task \in Tasks
    PROVE  /\ WithTask(task) \in Seq(Tasks) /\ Prefix(tasks, WithTask(task))
           /\ RowsOf(WithTask(task)) = RowsOf(tasks) \cup {task}
<1>1. Len(tasks) \in Nat
  OBVIOUS
<1>2. CASE task \in RowsOf(tasks)
  BY <1>1, <1>2 DEF WithTask, RowsOf, Prefix
<1>3. CASE task \notin RowsOf(tasks)
  <2>1. WithTask(task) = Append(tasks, task)
    BY <1>3 DEF WithTask, RowsOf
  <2> QED
    BY <1>1, <2>1, ResultGrows, RowsOfAppended DEF Prefix
<1> QED
  BY <1>2, <1>3

LEMMA IndexOfTask ==
    ASSUME tasks \in Seq(Tasks), NEW task \in RowsOf(tasks)
    PROVE  IndexOf(task) \in 1..Len(tasks) /\ tasks[IndexOf(task)] = task
<1>1. DOMAIN tasks = 1..Len(tasks)
  BY LenProperties
<1>2. \E i \in DOMAIN tasks : tasks[i] = task
  BY DEF RowsOf
<1> QED
  BY <1>1, <1>2 DEF IndexOf

\* The contents of a feature's shards.
LEMMA ContentType ==
    ASSUME NEW v \in Video, NEW l \in Locations
    PROVE  Content(v, l) \in Seq(Fragment)
<1>1. v.shard \in Shard /\ v.files[l] \in File(Fragment)
  BY DEF Video
<1>2. v.shard.fragments \in Seq(Fragment) /\ v.files[l].rows \in Seq(Fragment)
  BY <1>1 DEF Shard, File
<1> QED
  BY <1>2 DEF Content

\* EncodeEpisodeVideos, for one feature.
LEMMA VideoTaken ==
    ASSUME NEW v \in Video, NEW n \in Nat, n < MaxFiles, VideoOK(v, n), FilesClosed(v.files),
           NEW bytes \in Nat, Length \in Nat, current.index \in Nat
    PROVE  LET new == WithFragment(ShardFor(v, bytes), bytes)
               route == Route(v, bytes)
           IN /\ new \in Video /\ VideoOK(new, n + 1) /\ FilesClosed(new.files)
              /\ route \in RouteRecord
              /\ \A l \in Locations : \A other, episode, length :
                    InShard(Content(v, l), other, episode, length)
                       => InShard(Content(new, l), other, episode, length)
              /\ InShard(Content(new, route.loc), route, current.index, Length)
<1> DEFINE w == ShardFor(v, bytes)
           new == WithFragment(w, bytes)
           route == Route(v, bytes)
           x == [episode |-> current.index, frames |-> Length]
<1>1. /\ w \in Video /\ VideoOK(w, n + 1) /\ FilesClosed(w.files)
      /\ \A l \in Locations : Content(w, l) = Content(v, l)
  BY ShardForKeeps
<1>2. route = [loc |-> w.shard.loc, from |-> w.shard.duration, to |-> w.shard.duration + Length]
  BY DEF Route
<1> HIDE DEF w, route
<1>3. w.shard \in Shard
  BY <1>1 DEF Video
<1>4. w.shard.loc \in Locations /\ w.shard.duration \in Nat
  BY <1>3 DEF Shard
<1>5. /\ new \in Video /\ VideoOK(new, n + 1) /\ new.files = w.files
      /\ \A l \in Locations :
            Content(new, l) = IF l = w.shard.loc THEN Append(Content(w, l), x)
                                                ELSE Content(w, l)
  BY <1>1, FragmentTaken
<1> HIDE DEF new
<1>6. /\ route \in RouteRecord /\ route.loc = w.shard.loc /\ route.from = w.shard.duration
      /\ route.to = w.shard.duration + Length
  BY <1>2, <1>4 DEF RouteRecord
<1>7. x \in Fragment
  BY DEF Fragment
<1>8. ASSUME NEW l \in Locations, NEW other, NEW episode, NEW length,
             InShard(Content(v, l), other, episode, length)
      PROVE  InShard(Content(new, l), other, episode, length)
  <2>1. InShard(Content(w, l), other, episode, length) /\ Content(w, l) \in Seq(Fragment)
    BY <1>1, <1>8, ContentType
  <2>2. InShard(Append(Content(w, l), x), other, episode, length)
    BY <1>7, <2>1, InShardKept
  <2> QED
    BY <1>5, <2>1, <2>2
<1>9. InShard(Content(new, route.loc), route, current.index, Length)
  <2> DEFINE q == Content(w, w.shard.loc)
  <2>1. q = w.shard.fragments /\ q \in Seq(Fragment)
    BY <1>1, <1>4, PendingContent, ContentType
  <2>2. w.shard.duration = EndOf(q, Len(q))
    BY <1>1, <2>1 DEF VideoOK
  <2>3. Content(new, route.loc) = Append(q, x)
    BY <1>4, <1>5, <1>6
  <2> HIDE DEF q
  <2>4. route.from = EndOf(q, Len(q)) /\ route.to = EndOf(q, Len(q)) + Length
    BY <1>6, <2>2
  <2>5. InShard(Append(q, x), route, current.index, Length)
    BY <2>1, <2>4, InShardNew
  <2> QED
    BY <2>3, <2>5
<1> QED
  BY <1>1, <1>5, <1>6, <1>8, <1>9 DEF new, w, route

LEMMA VideosTaken ==
    ASSUME videos \in [VideoFeatures -> Video], NEW n \in Nat, n < MaxFiles,
           \A f \in VideoFeatures : VideoOK(videos[f], n) /\ FilesClosed(videos[f].files),
           NEW bytes \in [VideoFeatures -> FragmentSizes], Length \in Nat, current.index \in Nat
    PROVE  LET new == EncodeEpisodeVideos(bytes)
               routes == CurrentVideoRoutes(bytes)
           IN /\ new \in [VideoFeatures -> Video]
              /\ \A f \in VideoFeatures : VideoOK(new[f], n + 1) /\ FilesClosed(new[f].files)
              /\ routes \in [VideoFeatures -> RouteRecord] /\ RoutesKept(videos, new)
              /\ \A f \in VideoFeatures :
                    InShard(Content(new[f], routes[f].loc), routes[f], current.index, Length)
<1> DEFINE new == EncodeEpisodeVideos(bytes)
           routes == CurrentVideoRoutes(bytes)
<1>1. \A f \in VideoFeatures : bytes[f] \in Nat
  BY OptionsAssumption
<1>2. /\ new = [f \in VideoFeatures |-> WithFragment(ShardFor(videos[f], bytes[f]), bytes[f])]
      /\ routes = [f \in VideoFeatures |-> Route(videos[f], bytes[f])]
  BY DEF EncodeEpisodeVideos, CurrentVideoRoutes
<1> HIDE DEF new, routes
<1>3. ASSUME NEW f \in VideoFeatures
      PROVE  /\ new[f] \in Video /\ VideoOK(new[f], n + 1) /\ FilesClosed(new[f].files)
             /\ routes[f] \in RouteRecord
             /\ \A l \in Locations : \A other, episode, length :
                   InShard(Content(videos[f], l), other, episode, length)
                      => InShard(Content(new[f], l), other, episode, length)
             /\ InShard(Content(new[f], routes[f].loc), routes[f], current.index, Length)
  <2> DEFINE v == videos[f]
             b == bytes[f]
  <2>1. v \in Video /\ VideoOK(v, n) /\ FilesClosed(v.files) /\ b \in Nat
    BY <1>1
  <2>2. new[f] = WithFragment(ShardFor(v, b), b) /\ routes[f] = Route(v, b)
    BY <1>2
  <2> HIDE DEF v, b
  <2>3. /\ new[f] \in Video /\ VideoOK(new[f], n + 1) /\ FilesClosed(new[f].files)
        /\ routes[f] \in RouteRecord
        /\ \A l \in Locations : \A other, episode, length :
              InShard(Content(v, l), other, episode, length)
                 => InShard(Content(new[f], l), other, episode, length)
        /\ InShard(Content(new[f], routes[f].loc), routes[f], current.index, Length)
    BY <2>1, <2>2, VideoTaken
  <2> QED
    BY <2>3 DEF v
<1>4. new \in [VideoFeatures -> Video] /\ routes \in [VideoFeatures -> RouteRecord]
  BY <1>2, <1>3
<1>5. RoutesKept(videos, new)
  BY <1>3 DEF RoutesKept
<1> QED
  BY <1>3, <1>4, <1>5 DEF new, routes

-----------------------------------------------------------------------------
(* FinishEpisode *)

\* What has been written of the episodes that are finished.
Stored ==
    /\ data \in DataWriter /\ metadata \in EpisodeWriter /\ videos \in [VideoFeatures -> Video]
    /\ delivered \in Seq(Seq(Tasks)) /\ Len(delivered) = total_episodes
    /\ total_episodes \in 0..MaxEpisodes /\ total_frames \in Nat
    /\ WriterOK(data, total_episodes) /\ WriterOK(metadata, total_episodes) /\ Named(metadata)
    /\ \A f \in VideoFeatures : /\ VideoOK(videos[f], total_episodes)
                                /\ FilesClosed(videos[f].files)
    /\ Rows(data, videos, metadata, delivered)

LEMMA EpisodeFinished ==
    ASSUME Stored, Data(data, tasks, delivered, total_frames), tasks \in Seq(Tasks),
           current \in [index : Int, frames : Seq(Tasks), present : BOOLEAN],
           current.present, CurrentInv, FinishEpisode
    PROVE  Stored' /\ Data(data', tasks, delivered', total_frames')
           /\ total_episodes' = total_episodes + 1 /\ delivered' = Append(delivered, current.frames)
<1> DEFINE n == total_episodes
           drow == [episode |-> current.index, from |-> total_frames,
                    task_indexes |-> [k \in 1..Length |-> IndexOf(current.frames[k])]]
<1>1. PICK rotate_data \in IF data.open THEN BOOLEAN ELSE {FALSE},
           rotate_metadata \in IF metadata.open THEN BOOLEAN ELSE {FALSE},
           bytes \in [VideoFeatures -> FragmentSizes] :
           LET writer == EnsureDataWriter(rotate_data)
               rows == IF rotate_metadata THEN Rotate(metadata) ELSE metadata
               routes == CurrentVideoRoutes(bytes)
           IN /\ data' = Flush(writer, DataRows)
              /\ videos' = EncodeEpisodeVideos(bytes)
              /\ metadata' = AppendRow(rows, EpisodeRow(rows, writer.loc, routes))
              /\ total_frames' = total_frames + Length
              /\ total_episodes' = total_episodes + 1
              /\ delivered' = Append(delivered, current.frames)
  BY DEF FinishEpisode
<1> DEFINE writer == EnsureDataWriter(rotate_data)
           rows == IF rotate_metadata THEN Rotate(metadata) ELSE metadata
           routes == CurrentVideoRoutes(bytes)
           erow == EpisodeRow(rows, writer.loc, routes)
<1>2. /\ n \in Nat /\ n < MaxEpisodes /\ n < MaxFiles /\ n + 1 \in 0..MaxEpisodes
      /\ current.index = n /\ Len(delivered) = n
  BY BoundsAssumption DEF Stored, CurrentInv
<1>3. /\ current.frames \in Seq(Tasks) /\ Length \in Nat /\ Length > 0
      /\ \A k \in 1..Length : current.frames[k] \in RowsOf(tasks)
  <2>1. current.frames \in Seq(Tasks) /\ current.frames # <<>>
    BY DEF CurrentInv
  <2>2. Length \in Nat \ {0} /\ DOMAIN current.frames = 1..Length
    BY <2>1, EmptySeq, LenProperties DEF Length
  <2>3. \A k \in 1..Length : current.frames[k] \in RowsOf(current.frames)
    BY <2>2 DEF RowsOf
  <2> QED
    BY <2>1, <2>2, <2>3 DEF CurrentInv
<1>4. /\ drow \in DataRow /\ Len(drow.task_indexes) = Length
      /\ DataOK(drow, tasks, Append(delivered, current.frames), total_frames + Length)
  <2> DEFINE indexes == [k \in 1..Length |-> IndexOf(current.frames[k])]
  <2>1. \A k \in 1..Length : /\ IndexOf(current.frames[k]) \in 1..Len(tasks)
                             /\ tasks[IndexOf(current.frames[k])] = current.frames[k]
    BY <1>3, IndexOfTask
  <2>2. \A k \in 1..Length : IndexOf(current.frames[k]) \in Nat
    BY <2>1
  <2>3. indexes \in Seq(Nat) /\ Len(indexes) = Length
    BY <1>3, <2>2
  <2>4. \A k \in 1..Length : indexes[k] \in 1..Len(tasks) /\ tasks[indexes[k]] = current.frames[k]
    BY <2>1
  <2> HIDE DEF indexes
  <2>5. /\ drow = [episode |-> current.index, from |-> total_frames, task_indexes |-> indexes]
    BY DEF indexes
  <2>6. drow \in DataRow /\ drow.task_indexes = indexes /\ drow.from = total_frames
        /\ drow.episode = n
    BY <1>2, <2>3, <2>5 DEF DataRow, Stored
  <2> HIDE DEF drow
  <2>7. /\ n + 1 \in 1..Len(Append(delivered, current.frames))
        /\ Append(delivered, current.frames)[n + 1] = current.frames
    BY <1>2, <1>3, ResultGrows DEF Stored
  <2>8. total_frames \in Nat
    BY DEF Stored
  <2> QED
    BY <1>3, <2>3, <2>4, <2>6, <2>7, <2>8 DEF DataOK, Length
<1>5. /\ writer.loc \in Locations /\ data' \in DataWriter /\ WriterOK(data', n + 1)
      /\ Got(data.files, data'.files, writer.loc, {drow})
  <2>1. rotate_data \in BOOLEAN /\ (rotate_data => data.open)
    <3>1. CASE data.open
      BY <3>1
    <3>2. CASE ~data.open
      BY <3>2
    <3> QED
      BY <3>1, <3>2
  <2>2. data' = Flush(writer, <<drow>>)
    BY <1>1 DEF DataRows
  <2>3. data \in DataWriter /\ WriterOK(data, n)
    BY DEF Stored
  <2> HIDE DEF drow
  <2> QED
    BY <1>2, <1>4, <2>1, <2>2, <2>3, DataWritten
<1>6. EpisodesOK(rows, n + 1) /\ AllRows(rows) = AllRows(metadata)
  <2>1. EpisodesOK(metadata, n)
    BY DEF EpisodesOK, Stored
  <2>2. CASE rotate_metadata
    <3>1. metadata.open
      <4>1. CASE ~metadata.open
        BY <2>2, <4>1
      <4> QED
        BY <4>1
    <3> QED
      BY <1>2, <2>1, <2>2, <3>1, EpisodesRotate
  <2>3. CASE ~rotate_metadata
    <3>1. metadata.loc.chunk \in Nat
      BY <2>1, BoundsAssumption DEF EpisodesOK, EpisodeWriter, Locations
    <3> QED
      BY <1>2, <2>1, <2>3, <3>1, OkWithMore DEF EpisodesOK
  <2> QED
    BY <2>2, <2>3
<1>7. /\ videos' \in [VideoFeatures -> Video]
      /\ \A f \in VideoFeatures : VideoOK(videos'[f], n + 1) /\ FilesClosed(videos'[f].files)
      /\ routes \in [VideoFeatures -> RouteRecord] /\ RoutesKept(videos, videos')
      /\ \A f \in VideoFeatures :
            InShard(Content(videos'[f], routes[f].loc), routes[f], n, Length)
  <2>1. /\ videos \in [VideoFeatures -> Video]
        /\ \A f \in VideoFeatures : VideoOK(videos[f], n) /\ FilesClosed(videos[f].files)
    BY DEF Stored
  <2>2. videos' = EncodeEpisodeVideos(bytes) /\ current.index \in Nat
    BY <1>1, <1>2
  <2> QED
    BY <1>2, <1>3, <2>1, <2>2, VideosTaken
<1> HIDE DEF routes, rows, writer, drow
<1>8. /\ erow \in Row /\ erow.meta = rows.loc /\ erow.episode = n /\ erow.length = Length
      /\ erow.data = writer.loc /\ erow.from = total_frames /\ erow.to = total_frames + Length
      /\ erow.routes = routes
  <2>1. rows.loc \in Locations
    BY <1>6 DEF EpisodesOK, EpisodeWriter
  <2>2. {current.frames[k] : k \in 1..Length} \in SUBSET Tasks
    BY <1>3 DEF Length
  <2>3. total_frames \in Nat
    BY DEF Stored
  <2> DEFINE shown == {current.frames[k] : k \in 1..Length}
             to == total_frames + Length
  <2>4. to \in Nat
    BY <1>3, <2>3
  <2>5. erow = [episode |-> n, tasks |-> shown, length |-> Length, data |-> writer.loc,
                from |-> total_frames, to |-> to, routes |-> routes, meta |-> rows.loc]
    BY <1>2 DEF EpisodeRow
  <2> HIDE DEF shown, to, erow
  <2>6. shown \in SUBSET Tasks
    BY <2>2 DEF shown
  <2>7. erow \in Row
    BY <1>2, <1>3, <1>5, <1>7, <2>1, <2>3, <2>4, <2>5, <2>6 DEF Row
  <2> QED
    BY <2>5, <2>7 DEF to
<1>9. metadata' = AppendRow(rows, erow)
  BY <1>1 DEF rows, routes, writer
<1> HIDE DEF erow
<1>10. EpisodesOK(metadata', n + 1) /\ AllRows(metadata') = AllRows(metadata) \cup {erow}
  BY <1>6, <1>8, <1>9, RowAppended
<1>11. RowOK(erow, data'.files, videos', Append(delivered, current.frames))
  <2>1. /\ n + 1 \in 1..Len(Append(delivered, current.frames))
        /\ Append(delivered, current.frames)[n + 1] = current.frames
    BY <1>2, <1>3, ResultGrows DEF Stored
  <2>2. drow \in RowsOf(data'.files[writer.loc].rows)
    BY <1>5 DEF Got
  <2>3. drow.episode = n /\ drow.from = total_frames
    BY <1>2 DEF drow
  <2>4. InFile(data'.files[erow.data].rows, erow)
    BY <1>4, <1>8, <2>2, <2>3 DEF InFile
  <2>5. \A f \in VideoFeatures :
           InShard(Content(videos'[f], erow.routes[f].loc), erow.routes[f], erow.episode,
                   erow.length)
    BY <1>7, <1>8
  <2>6. /\ erow.length = Len(current.frames) /\ erow.length > 0
        /\ erow.to = erow.from + erow.length
    BY <1>3, <1>8 DEF Length
  <2> QED
    BY <1>8, <2>1, <2>4, <2>5, <2>6 DEF RowOK
<1>12. Rows(data', videos', metadata', Append(delivered, current.frames))
  <2>1. RowsKept(data, data')
    BY <1>5 DEF Got, RowsKept
  <2>2. metadata \in EpisodeWriter /\ metadata' \in EpisodeWriter
    BY <1>10 DEF Stored, EpisodesOK
  <2>3. /\ delivered \in Seq(Seq(Tasks)) /\ Rows(data, videos, metadata, delivered)
        /\ erow.episode = Len(delivered)
    BY <1>2, <1>8 DEF Stored
  <2> QED
    BY <1>3, <1>7, <1>8, <1>10, <1>11, <2>1, <2>2, <2>3, RowsGrow
<1>13. Data(data', tasks, Append(delivered, current.frames), total_frames + Length)
  <2>1. RowsIn(data.files) \subseteq DataRow
    BY RowsInType DEF Stored, DataWriter
  <2>2. RowsIn(data'.files) = RowsIn(data.files) \cup {drow}
    BY <1>5, GotRowsIn
  <2>3. /\ total_frames \in Nat /\ total_frames + Length \in Nat
        /\ total_frames <= total_frames + Length
    BY <1>3 DEF Stored
  <2>4. drow.from = total_frames
    BY DEF drow
  <2>5. delivered \in Seq(Seq(Tasks))
    BY DEF Stored
  <2> QED
    BY <1>3, <1>4, <2>1, <2>2, <2>3, <2>4, <2>5, DataGrow
<1>14. /\ delivered' \in Seq(Seq(Tasks)) /\ Len(delivered') = total_episodes'
       /\ total_episodes' \in 0..MaxEpisodes /\ total_frames' \in Nat
       /\ total_episodes' = n + 1
  <2>1. Append(delivered, current.frames) \in Seq(Seq(Tasks))
        /\ Len(Append(delivered, current.frames)) = n + 1
    BY <1>2, <1>3, ResultGrows DEF Stored
  <2>2. total_frames \in Nat
    BY DEF Stored
  <2> QED
    BY <1>1, <1>2, <1>3, <2>1, <2>2
<1>15. Stored'
  BY <1>1, <1>5, <1>7, <1>10, <1>12, <1>14 DEF Stored, EpisodesOK
<1> QED
  BY <1>1, <1>13, <1>14, <1>15

-----------------------------------------------------------------------------
(* The invariant holds *)

LEMMA InitInv == Init => IInv
<1> SUFFICES ASSUME Init PROVE IInv
  OBVIOUS
<1> USE DEF Init
<1>1. /\ NoFile.rows = <<>> /\ \A S : NoFile \in File(S)
      /\ \A S : <<>> \in Seq(S)
  BY EmptySeq DEF NoFile, File
<1>2. /\ FirstLocation \in Locations /\ FirstLocation.chunk = 0
  BY FirstName
<1>3. NewShard \in Shard /\ NewShard.fragments = <<>> /\ NewShard.loc = FirstLocation
      /\ NewShard.duration = 0
  BY <1>1, <1>2 DEF NewShard, Shard
<1>4. /\ data \in DataWriter /\ data.loc = FirstLocation
      /\ \A l \in Locations : data.files[l].rows = <<>>
  BY <1>1, <1>2 DEF NewWriter, DataWriter
<1>5. /\ metadata \in EpisodeWriter /\ metadata.loc = FirstLocation /\ metadata.buffer = <<>>
      /\ \A l \in Locations : metadata.files[l].rows = <<>>
  BY <1>1, <1>2 DEF EpisodeWriter
<1>6. /\ NewVideo \in Video /\ NewVideo.shard = NewShard
      /\ \A l \in Locations : NewVideo.files[l].rows = <<>>
  BY <1>1, <1>3 DEF NewVideo, Video
<1>7. /\ videos \in [VideoFeatures -> Video]
      /\ \A f \in VideoFeatures : videos[f] = NewVideo
  BY <1>6
<1>8. Types
  <2>1. current \in [index : Int, frames : Seq(Tasks), present : BOOLEAN]
    BY <1>1 DEF NoEpisode
  <2>2. tasks \in Seq(Tasks) /\ delivered \in Seq(Seq(Tasks)) /\ Len(delivered) = total_episodes
    BY <1>1, EmptySeq
  <2>3. total_episodes \in 0..MaxEpisodes /\ total_frames \in Nat
    BY BoundsAssumption
  <2> QED
    BY <1>4, <1>5, <1>7, <2>1, <2>2, <2>3 DEF Types, Steps
<1>9. StageInv
  BY DEF StageInv
<1>10. RowsIn(data.files) = {} /\ AllRows(metadata) = {}
  BY <1>4, <1>5, NoRows DEF RowsIn, AllRows
<1>11. 1..Len(delivered) = {}
  BY EmptySeq
<1>12. RowsInv
  <2>1. Rows(data, videos, metadata, delivered)
    BY <1>10, <1>11 DEF Rows
  <2>2. Data(data, tasks, delivered, total_frames)
    BY <1>10 DEF Data
  <2>3. Named(metadata)
    BY <1>5, NoRows DEF Named
  <2> QED
    BY <1>6, <1>7, <2>1, <2>2, <2>3 DEF RowsInv, FilesClosed
<1>13. StepsInv
  <2>1. WriterOK(data, total_episodes) /\ WriterOK(metadata, total_episodes)
    BY <1>2, <1>4, <1>5 DEF WriterOK, Unused, ClosedBut
  <2>2. VideoOK(NewVideo, 0)
    <3>1. EndOf(<<>>, Len(<<>>)) = 0
      BY EndOfNone, EmptySeq
    <3> QED
      BY <1>2, <1>3, <1>6, <3>1 DEF VideoOK, Unused
  <2> QED
    BY <1>7, <2>1, <2>2 DEF StepsInv, CurrentInv, NoEpisode, Finalized
<1> QED
  BY <1>8, <1>9, <1>12, <1>13 DEF IInv

LEMMA StoredInSink ==
    ASSUME IInv, pc \in {"create", "sink"}
    PROVE  Stored /\ Data(data, tasks, delivered, total_frames) /\ CurrentInv
BY DEF IInv, Types, RowsInv, StepsInv, Stored

\* Steps that leave the files and the episodes alone.
WrittenInv ==
    /\ pc \in {"info", "publish", "done"} => ~temporary /\ (tasks # <<>> => "tasks" \in written)
    /\ pc \in {"publish", "done"} => "info" \in written

LEMMA QuietStep ==
    ASSUME IInv, UNCHANGED <<writerVars, episodeVars>>,
           pc' \in {"create", "sink"} => pc \in {"create", "sink"},
           pc' \in {"materialize", "flush"} => pc' = pc,
           pc' \in Finalized => pc \in Finalized,
           WrittenInv'
    PROVE  RowsInv' /\ StepsInv'
<1>1. UNCHANGED <<data, videos, metadata, total_episodes, total_frames, delivered, tasks, current>>
  BY DEF writerVars, episodeVars
<1>2. RowsInv'
  BY <1>1 DEF IInv, RowsInv
<1>3. CurrentInv' <=> CurrentInv
  BY <1>1 DEF CurrentInv
<1>4. StepsInv'
  BY <1>1, <1>3 DEF IInv, StepsInv, WrittenInv, Finalized
<1> QED
  BY <1>2, <1>4

LEMMA CreateKeeps == IInv /\ (Create \/ CreateFails) => IInv'
<1> SUFFICES ASSUME IInv, Create \/ CreateFails PROVE IInv'
  OBVIOUS
<1> USE DEF Create, CreateFails
<1>1. RowsInv' /\ StepsInv'
  <2>1. WrittenInv'
    BY DEF WrittenInv
  <2> QED
    BY <2>1, QuietStep DEF Finalized
<1>2. Types'
  BY DEF IInv, Types, Steps, writerVars, episodeVars
<1>3. StageInv'
  BY DEF IInv, StageInv
<1> QED
  BY <1>1, <1>2, <1>3 DEF IInv

LEMMA EndsKeep == IInv /\ (Fail \/ Unwind \/ Crash) => IInv'
<1> SUFFICES ASSUME IInv, Fail \/ Unwind \/ Crash PROVE IInv'
  OBVIOUS
<1> USE DEF Fail, Unwind, Crash
<1>1. RowsInv' /\ StepsInv'
  <2>1. WrittenInv'
    BY DEF WrittenInv
  <2> QED
    BY <2>1, QuietStep DEF Finalized
<1>2. Types'
  BY DEF IInv, Types, Steps, writerVars, episodeVars
<1>3. StageInv'
  BY DEF IInv, StageInv, Types
<1> QED
  BY <1>1, <1>2, <1>3 DEF IInv

LEMMA OthersKeep == IInv /\ (Interrupt \/ OtherPublishes \/ OtherCreates \/ Terminated) => IInv'
<1> SUFFICES ASSUME IInv, Interrupt \/ OtherPublishes \/ OtherCreates \/ Terminated PROVE IInv'
  OBVIOUS
<1>1. UNCHANGED <<pc, staging, owned, writerVars, episodeVars, written, temporary>>
  BY DEF Interrupt, OtherPublishes, OtherCreates, Movable, Terminated, vars
<1>2. RowsInv' /\ StepsInv'
  <2>1. WrittenInv'
    BY <1>1 DEF WrittenInv, IInv, StepsInv, episodeVars
  <2> QED
    BY <1>1, <2>1, QuietStep
<1>3. /\ interrupted' \in BOOLEAN /\ root' \in {"absent", "empty", "foreign", "ours"}
      /\ root' = "ours" <=> root = "ours"
  BY DEF IInv, Types, Interrupt, OtherPublishes, OtherCreates, Movable, Terminated, vars
<1>4. Types'
  BY <1>1, <1>3 DEF IInv, Types, writerVars, episodeVars
<1>5. StageInv'
  BY <1>1, <1>3 DEF IInv, StageInv
<1> QED
  BY <1>2, <1>4, <1>5 DEF IInv

LEMMA LastStepsKeep == IInv /\ (WriteTasks \/ WriteInfo \/ Publish) => IInv'
<1> SUFFICES ASSUME IInv, WriteTasks \/ WriteInfo \/ Publish PROVE IInv'
  OBVIOUS
<1> USE DEF WriteTasks, WriteInfo, Publish
<1>1. RowsInv' /\ StepsInv'
  <2>1. WrittenInv'
    BY DEF WrittenInv, IInv, StepsInv, episodeVars
  <2> QED
    BY <2>1, QuietStep DEF Finalized
<1>2. Types'
  BY DEF IInv, Types, Steps, writerVars, episodeVars
<1>3. StageInv'
  BY DEF IInv, StageInv
<1> QED
  BY <1>1, <1>2, <1>3 DEF IInv

\* The rows of the query.
LEMMA TaskTaken ==
    ASSUME tasks \in Seq(Tasks), NEW task \in Tasks, NEW e,
           e \in [index : Int, frames : Seq(Tasks), present : BOOLEAN],
           RowsOf(e.frames) \subseteq RowsOf(tasks)
    PROVE  LET new == Appended(e, task)
           IN /\ new \in [index : Int, frames : Seq(Tasks), present : BOOLEAN]
              /\ new.index = e.index /\ new.present = e.present /\ new.frames # <<>>
              /\ RowsOf(new.frames) \subseteq RowsOf(WithTask(task))
<1> DEFINE frames == Append(e.frames, task)
           new == [e EXCEPT !.frames = frames]
<1>1. e.frames \in Seq(Tasks)
  OBVIOUS
<1>2. /\ frames \in Seq(Tasks) /\ frames # <<>> /\ RowsOf(frames) = RowsOf(e.frames) \cup {task}
  BY <1>1, RowsOfAppended
<1>3. Appended(e, task) = new
  BY DEF Appended
<1> HIDE DEF frames
<1>4. /\ new \in [index : Int, frames : Seq(Tasks), present : BOOLEAN]
      /\ new.index = e.index /\ new.present = e.present /\ new.frames = frames
  BY <1>2
<1> HIDE DEF new
<1>5. RowsOf(WithTask(task)) = RowsOf(tasks) \cup {task}
  BY WithTaskKeeps
<1> QED
  BY <1>2, <1>3, <1>4, <1>5

LEMMA ContinueKeeps == \A task \in Tasks : IInv /\ ContinueEpisode(task) => IInv'
<1> SUFFICES ASSUME NEW task \in Tasks, IInv, ContinueEpisode(task) PROVE IInv'
  OBVIOUS
<1>1. /\ pc = "sink" /\ pc' = pc /\ current.present
      /\ current' = Appended(current, task) /\ tasks' = WithTask(task) /\ temporary' = TRUE
      /\ UNCHANGED <<root, staging, owned, interrupted, written>>
      /\ UNCHANGED <<data, videos, metadata, total_episodes, total_frames, delivered>>
  BY DEF ContinueEpisode, writerVars
<1>2. /\ tasks \in Seq(Tasks) /\ CurrentInv
      /\ current \in [index : Int, frames : Seq(Tasks), present : BOOLEAN]
  BY <1>1, StoredInSink DEF IInv, Types
<1>3. /\ current' \in [index : Int, frames : Seq(Tasks), present : BOOLEAN]
      /\ current'.index = current.index /\ current'.frames # <<>>
      /\ RowsOf(current'.frames) \subseteq RowsOf(tasks')
  BY <1>1, <1>2, TaskTaken DEF CurrentInv
<1>4. tasks' \in Seq(Tasks) /\ Prefix(tasks, tasks')
  BY <1>1, <1>2, WithTaskKeeps
<1>5. CurrentInv'
  BY <1>1, <1>2, <1>3 DEF CurrentInv
<1>6. Data(data', tasks', delivered', total_frames')
  BY <1>1, <1>2, <1>4, TableGrows DEF IInv, RowsInv
<1>7. Types'
  BY <1>1, <1>3, <1>4 DEF IInv, Types
<1>8. StageInv'
  BY <1>1 DEF IInv, StageInv
<1>9. RowsInv'
  BY <1>1, <1>6 DEF IInv, RowsInv
<1>10. StepsInv'
  BY <1>1, <1>5 DEF IInv, StepsInv, Finalized
<1> QED
  BY <1>7, <1>8, <1>9, <1>10 DEF IInv

LEMMA StartKeeps == \A task \in Tasks : IInv /\ StartEpisode(task) => IInv'
<1> SUFFICES ASSUME NEW task \in Tasks, IInv, StartEpisode(task) PROVE IInv'
  OBVIOUS
<1> DEFINE index == IF current.present THEN total_episodes + 1 ELSE total_episodes
           e == [index |-> index, frames |-> <<>>, present |-> TRUE]
<1>1. /\ pc = "sink" /\ pc' = pc /\ index < MaxEpisodes
      /\ IF current.present THEN FinishEpisode ELSE UNCHANGED writerVars
      /\ current' = Appended(e, task) /\ tasks' = WithTask(task) /\ temporary' = TRUE
      /\ UNCHANGED <<root, staging, owned, interrupted, written>>
  BY DEF StartEpisode
<1>2. /\ Stored /\ Data(data, tasks, delivered, total_frames) /\ CurrentInv
      /\ tasks \in Seq(Tasks)
      /\ current \in [index : Int, frames : Seq(Tasks), present : BOOLEAN]
  BY <1>1, StoredInSink DEF IInv, Types
<1>3. Stored' /\ Data(data', tasks, delivered', total_frames') /\ total_episodes' = index
  <2>1. CASE current.present
    BY <1>1, <1>2, <2>1, EpisodeFinished
  <2>2. CASE ~current.present
    <3>1. UNCHANGED <<data, videos, metadata, total_episodes, total_frames, delivered>>
      BY <1>1, <2>2 DEF writerVars
    <3> QED
      BY <1>2, <2>2, <3>1 DEF Stored
  <2> QED
    BY <2>1, <2>2
<1>4. index \in Nat
  BY <1>2, BoundsAssumption DEF Stored
<1> HIDE DEF index
<1>5. e \in [index : Int, frames : Seq(Tasks), present : BOOLEAN] /\ RowsOf(e.frames) = {}
  BY <1>4, EmptySeq, NoRows
<1>6. e.index = index /\ e.present = TRUE
  OBVIOUS
<1> HIDE DEF e
<1>7. /\ current' \in [index : Int, frames : Seq(Tasks), present : BOOLEAN]
      /\ current'.index = index /\ current'.frames # <<>>
      /\ RowsOf(current'.frames) \subseteq RowsOf(tasks')
  BY <1>1, <1>2, <1>5, <1>6, TaskTaken
<1>8. tasks' \in Seq(Tasks) /\ Prefix(tasks, tasks')
  BY <1>1, <1>2, WithTaskKeeps
<1>9. CurrentInv'
  BY <1>1, <1>3, <1>7 DEF CurrentInv
<1>10. Data(data', tasks', delivered', total_frames')
  BY <1>2, <1>3, <1>8, TableGrows
<1>11. Types'
  BY <1>1, <1>3, <1>7, <1>8 DEF IInv, Types, Stored
<1>12. StageInv'
  BY <1>1 DEF IInv, StageInv
<1>13. RowsInv'
  BY <1>3, <1>10 DEF RowsInv, Stored
<1>14. StepsInv'
  BY <1>1, <1>3, <1>9 DEF StepsInv, Stored, Finalized
<1> QED
  BY <1>11, <1>12, <1>13, <1>14 DEF IInv

\* The steps of Finalize that write.
LEMMA FinishLastKeeps == IInv /\ FinishLast => IInv'
<1> SUFFICES ASSUME IInv, FinishLast PROVE IInv'
  OBVIOUS
<1>1. /\ pc = "sink" /\ pc' = "materialize"
      /\ IF current.present THEN FinishEpisode ELSE UNCHANGED writerVars
      /\ current' = [current EXCEPT !.present = FALSE]
      /\ UNCHANGED <<root, staging, owned, interrupted, tasks, written, temporary>>
  BY DEF FinishLast
<1>2. /\ Stored /\ Data(data, tasks, delivered, total_frames) /\ CurrentInv
      /\ tasks \in Seq(Tasks)
      /\ current \in [index : Int, frames : Seq(Tasks), present : BOOLEAN]
  BY <1>1, StoredInSink DEF IInv, Types
<1>3. Stored' /\ Data(data', tasks, delivered', total_frames')
  <2>1. CASE current.present
    BY <1>1, <1>2, <2>1, EpisodeFinished
  <2>2. CASE ~current.present
    <3>1. UNCHANGED <<data, videos, metadata, total_episodes, total_frames, delivered>>
      BY <1>1, <2>2 DEF writerVars
    <3> QED
      BY <1>2, <3>1 DEF Stored
  <2> QED
    BY <2>1, <2>2
<1>4. current' \in [index : Int, frames : Seq(Tasks), present : BOOLEAN]
  BY <1>1, <1>2
<1>5. Types'
  BY <1>1, <1>3, <1>4 DEF IInv, Types, Stored, Steps
<1>6. StageInv'
  BY <1>1 DEF IInv, StageInv
<1>7. RowsInv'
  BY <1>1, <1>3 DEF RowsInv, Stored
<1>8. StepsInv'
  BY <1>1, <1>3 DEF StepsInv, Stored, Finalized
<1> QED
  BY <1>5, <1>6, <1>7, <1>8 DEF IInv

\* Other names for the same files.
LEMMA RowsSame ==
    ASSUME NEW d, NEW d2, NEW v, NEW v2, NEW m \in EpisodeWriter, NEW m2, NEW result,
           Rows(d, v, m, result), RowsKept(d, d2), RoutesKept(v, v2), AllRows(m2) = AllRows(m)
    PROVE  Rows(d2, v2, m2, result)
<1>1. AllRows(m) \subseteq Row
  BY AllRowsType
<1>2. ASSUME NEW r \in AllRows(m) PROVE RowOK(r, d2.files, v2, result)
  <2>1. r \in Row /\ RowOK(r, d.files, v, result)
    BY <1>1 DEF Rows
  <2>2. r.episode + 1 \in 1..Len(result)
    BY <2>1 DEF RowOK
  <2> QED
    BY <2>1, <2>2, RowKept
<1> QED
  BY <1>2 DEF Rows

LEMMA MaterializeShardsKeeps == IInv /\ MaterializeShards => IInv'
<1> SUFFICES ASSUME IInv, MaterializeShards PROVE IInv'
  OBVIOUS
<1>1. /\ pc = "materialize" /\ pc' = "flush"
      /\ videos' = [f \in VideoFeatures |-> Materialize(videos[f])]
      /\ UNCHANGED <<root, staging, owned, interrupted, data, metadata, total_episodes,
                     total_frames, delivered, tasks, current, written, temporary>>
  BY DEF MaterializeShards, episodeVars
<1>2. ASSUME NEW f \in VideoFeatures
      PROVE  /\ videos'[f] \in Video /\ FilesClosed(videos'[f].files)
             /\ videos'[f].shard.fragments = <<>>
             /\ \A l \in Locations : Content(videos'[f], l) = Content(videos[f], l)
  <2>1. videos[f] \in Video /\ FilesClosed(videos[f].files)
    BY DEF IInv, Types, RowsInv
  <2>2. videos'[f] = Materialize(videos[f])
    BY <1>1
  <2> QED
    BY <2>1, <2>2, MaterializeKeeps
<1>3. videos' \in [VideoFeatures -> Video] /\ RoutesKept(videos, videos')
  BY <1>1, <1>2 DEF RoutesKept
<1>4. Types'
  BY <1>1, <1>3 DEF IInv, Types, Steps
<1>5. StageInv'
  BY <1>1 DEF IInv, StageInv
<1>6. RowsInv'
  <2>1. Rows(data, videos, metadata, delivered) /\ metadata \in EpisodeWriter
    BY DEF IInv, RowsInv, Types
  <2>2. Rows(data, videos', metadata, delivered)
    BY <1>3, <2>1, RowsSame DEF RowsKept
  <2> QED
    BY <1>1, <1>2, <2>2 DEF IInv, RowsInv
<1>7. StepsInv'
  BY <1>1, <1>2 DEF IInv, StepsInv, Finalized
<1> QED
  BY <1>4, <1>5, <1>6, <1>7 DEF IInv

LEMMA FlushAndCloseKeeps == IInv /\ FlushAndClose => IInv'
<1> SUFFICES ASSUME IInv, FlushAndClose PROVE IInv'
  OBVIOUS
<1>1. /\ pc = "flush" /\ pc' = "tasks"
      /\ data' = Close(data) /\ metadata' = Close(FlushBuffer(metadata))
      /\ UNCHANGED <<root, staging, owned, interrupted, videos, total_episodes,
                     total_frames, delivered, tasks, current, written, temporary>>
  BY DEF FlushAndClose, episodeVars
<1>2. /\ data \in DataWriter /\ WriterOK(data, total_episodes)
      /\ metadata \in EpisodeWriter /\ EpisodesOK(metadata, total_episodes)
  BY <1>1 DEF IInv, Types, StepsInv, RowsInv, EpisodesOK
<1>3. /\ data' \in DataWriter /\ FilesClosed(data'.files) /\ SameRows(data.files, data'.files)
  BY <1>1, <1>2, DataEnd
<1>4. /\ metadata' \in EpisodeWriter /\ Named(metadata') /\ AllRows(metadata') = AllRows(metadata)
      /\ metadata'.buffer = <<>> /\ FilesClosed(metadata'.files)
  BY <1>1, <1>2, EpisodesEnd
<1>5. Types'
  BY <1>1, <1>3, <1>4 DEF IInv, Types, Steps
<1>6. StageInv'
  BY <1>1 DEF IInv, StageInv
<1>7. RowsInv'
  <2>1. Rows(data, videos, metadata, delivered) /\ Data(data, tasks, delivered, total_frames)
    BY DEF IInv, RowsInv
  <2>2. RowsKept(data, data') /\ RoutesKept(videos, videos)
    BY <1>3 DEF RowsKept, SameRows, RoutesKept
  <2>3. Rows(data', videos, metadata', delivered)
    BY <1>2, <1>4, <2>1, <2>2, RowsSame
  <2>4. Data(data', tasks, delivered, total_frames)
    BY <1>3, <2>1, SameRowsIn DEF Data
  <2> QED
    BY <1>1, <1>4, <2>3, <2>4 DEF IInv, RowsInv
<1>8. StepsInv'
  BY <1>1, <1>3, <1>4 DEF IInv, StepsInv, Finalized
<1> QED
  BY <1>5, <1>6, <1>7, <1>8 DEF IInv

LEMMA StepInv == IInv /\ [Next]_vars => IInv'
<1> SUFFICES ASSUME IInv, [Next]_vars PROVE IInv'
  OBVIOUS
<1>1. CASE Create \/ CreateFails
  BY <1>1, CreateKeeps
<1>2. CASE \E task \in Tasks : ContinueEpisode(task) \/ StartEpisode(task)
  BY <1>2, ContinueKeeps, StartKeeps
<1>3. CASE Finalize
  BY <1>3, FinishLastKeeps, MaterializeShardsKeeps, FlushAndCloseKeeps, LastStepsKeep DEF Finalize
<1>4. CASE Fail \/ Unwind \/ Crash
  BY <1>4, EndsKeep
<1>5. CASE Interrupt \/ OtherPublishes \/ OtherCreates \/ Terminated
  BY <1>5, OthersKeep
<1>6. CASE UNCHANGED vars
  <2>1. UNCHANGED <<pc, staging, owned, root, interrupted, written, temporary>>
        /\ UNCHANGED <<writerVars, episodeVars>>
    BY <1>6 DEF vars
  <2>2. WrittenInv'
    BY <2>1 DEF WrittenInv, IInv, StepsInv, episodeVars
  <2>3. RowsInv' /\ StepsInv'
    BY <2>1, <2>2, QuietStep
  <2>4. Types' /\ StageInv'
    BY <2>1 DEF IInv, Types, StageInv, writerVars, episodeVars
  <2> QED
    BY <2>3, <2>4 DEF IInv
<1> QED
  BY <1>1, <1>2, <1>3, <1>4, <1>5, <1>6 DEF Next

\* The inductive invariant of LerobotCopyGlobalData: types, whose the directories are, where
\* the rows are and what they say, and what each step of Finalize leaves.
THEOREM CopyInductive == Spec => []IInv
<1> QED
  BY InitInv, StepInv, PTL DEF Spec

-----------------------------------------------------------------------------
(* What follows from it *)

\* A COPY that fails removes what it created, and nothing else.
THEOREM LeavesNothing == Spec => []NothingLeftBehind
<1>1. IInv => NothingLeftBehind
  BY DEF IInv, Types, StageInv, NothingLeftBehind
<1> QED
  BY <1>1, CopyInductive, PTL

LEMMA EpisodeRowsAre == EpisodeRows = AllRows(metadata)
BY DEF EpisodeRows, WrittenRows, AllRows, RowsIn

\* The rows of episode metadata are in the files they name and point to their data, whatever
\* rotates between an episode and the flush of its row.
THEOREM RowsNamed == Spec => []RowsWhereNamed
<1>1. IInv => RowsWhereNamed
  <2> SUFFICES ASSUME IInv PROVE RowsWhereNamed
    OBVIOUS
  <2>1. Named(metadata) /\ \A r \in EpisodeRows : RowOK(r, data.files, videos, delivered)
    BY EpisodeRowsAre DEF IInv, RowsInv, Rows
  <2> QED
    BY <2>1 DEF RowsWhereNamed, Named, RowOK, InFile
<1> QED
  BY <1>1, CopyInductive, PTL

LEMMA ShowsOne ==
    ASSUME IInv, NEW r \in EpisodeRows, NEW f \in VideoFeatures
    PROVE  /\ ShownBy(f, r.routes[f]) = {r.episode} /\ r.routes[f].to - r.routes[f].from = r.length
           /\ r.routes[f].loc \in Locations /\ Content(videos[f], r.routes[f].loc) # <<>>
<1> DEFINE route == r.routes[f]
           q == Content(videos[f], route.loc)
<1>1. /\ metadata \in EpisodeWriter /\ videos[f] \in Video
      /\ RowOK(r, data.files, videos, delivered)
  BY EpisodeRowsAre DEF IInv, Types, RowsInv, Rows
<1>2. r \in Row
  BY <1>1, AllRowsType, EpisodeRowsAre
<1>3. route \in RouteRecord /\ r.length \in Nat
  BY <1>2 DEF Row
<1>4. route.loc \in Locations
  BY <1>3 DEF RouteRecord
<1>5. InShard(q, route, r.episode, r.length) /\ r.length > 0
  BY <1>1 DEF RowOK
<1>6. q \in Seq(Fragment)
  BY <1>1, <1>4, ContentType
<1>7. DOMAIN q = 1..Len(q) /\ q # <<>>
  <2>1. \E k \in 1..Len(q) : TRUE
    BY <1>5 DEF InShard
  <2> QED
    BY <1>6, <2>1, LenProperties, EmptySeq
<1>8. ShownBy(f, route) = {q[i].episode : i \in {k \in DOMAIN q :
                              EndOf(q, k - 1) < route.to /\ EndOf(q, k) > route.from}}
  BY DEF ShownBy, ShardContent, Content
<1> HIDE DEF q, route
<1>9. ShownBy(f, route) = {r.episode} /\ route.to - route.from = r.length
  BY <1>3, <1>5, <1>6, <1>7, <1>8, OneFragment
<1> QED
  BY <1>4, <1>7, <1>9 DEF q, route

\* A route shows its episode and no other, although the shard is named before it is written
\* and rotates with the episode after it.
THEOREM RoutesShow == Spec => []RouteShowsEpisode
<1>1. IInv => RouteShowsEpisode
  BY ShowsOne DEF RouteShowsEpisode
<1> QED
  BY <1>1, CopyInductive, PTL

-----------------------------------------------------------------------------
(* What a reader finds at the root *)

LEMMA PublishedAre ==
    ASSUME IInv, pc \in {"publish", "done"}
    PROVE  PublishedRows = AllRows(metadata)
<1>1. metadata.buffer = <<>> /\ FilesClosed(metadata.files) /\ metadata \in EpisodeWriter
  BY DEF IInv, StepsInv, Types, Finalized
<1>2. AllRows(metadata) = RowsIn(metadata.files)
  BY <1>1, NoRows DEF AllRows
<1>3. ASSUME NEW x \in RowsIn(metadata.files) PROVE x \in PublishedRows
  <2>1. PICK l \in Locations : x \in RowsOf(metadata.files[l].rows)
    BY <1>3 DEF RowsIn
  <2>2. metadata.files[l].rows # <<>>
    BY <2>1, NoRows
  <2>3. metadata.files[l].closed
    BY <1>1, <2>2 DEF FilesClosed
  <2> QED
    BY <2>1, <2>3 DEF PublishedRows
<1>4. PublishedRows \subseteq RowsIn(metadata.files)
  BY DEF PublishedRows, RowsIn
<1> QED
  BY <1>2, <1>3, <1>4

LEMMA RowsCounted == IInv => Cardinality(AllRows(metadata)) = Len(delivered)
<1> SUFFICES ASSUME IInv PROVE Cardinality(AllRows(metadata)) = Len(delivered)
  OBVIOUS
<1> DEFINE R == AllRows(metadata)
           n == Len(delivered)
           f == [e \in 1..n |-> CHOOSE r \in R : r.episode + 1 = e]
<1>1. /\ n \in Nat /\ R \subseteq Row
      /\ \A r, s \in R : r.episode = s.episode => r = s
      /\ \A e \in 1..n : \E r \in R : r.episode + 1 = e
      /\ \A r \in R : r.episode + 1 \in 1..n
  BY AllRowsType DEF IInv, Types, RowsInv, Rows, RowOK
<1> HIDE DEF R, n
<1>2. \A e \in 1..n : f[e] \in R /\ f[e].episode + 1 = e
  BY <1>1
<1>3. f \in [1..n -> R]
  BY <1>2
<1> HIDE DEF f
<1>4. \A a, b \in 1..n : f[a] = f[b] => a = b
  BY <1>2
<1>5. ASSUME NEW r \in R PROVE \E e \in 1..n : f[e] = r
  <2> DEFINE e == r.episode + 1
  <2>1. e \in 1..n /\ r.episode \in Nat
    BY <1>1 DEF Row
  <2>2. f[e] \in R /\ f[e].episode + 1 = e
    BY <1>2, <2>1
  <2>3. f[e].episode \in Nat
    BY <1>1, <2>2 DEF Row
  <2>4. f[e].episode = r.episode
    BY <2>1, <2>2, <2>3
  <2>5. f[e] = r
    BY <1>1, <2>2, <2>4
  <2> QED
    BY <2>1, <2>5
<1>6. f \in Bijection(1..n, R)
  BY <1>3, <1>4, <1>5, Fun_IsBij
<1>7. ExistsBijection(1..n, R)
  BY <1>6 DEF ExistsBijection
<1> QED
  BY <1>1, <1>7, FS_CountingElements, UpTo, FS_Bijection DEF R, n

\* Each episode is read back as it was delivered.
LEMMA ReadBack ==
    ASSUME IInv, pc \in {"publish", "done"}, NEW e \in 1..Len(delivered)
    PROVE  ReadEpisode(e - 1) = delivered[e]
<1>1. /\ data \in DataWriter /\ metadata \in EpisodeWriter
      /\ videos \in [VideoFeatures -> Video] /\ tasks \in Seq(Tasks)
      /\ delivered \in Seq(Seq(Tasks))
      /\ Rows(data, videos, metadata, delivered) /\ Data(data, tasks, delivered, total_frames)
      /\ \A f \in VideoFeatures : FilesClosed(videos[f].files)
      /\ \A f \in VideoFeatures : videos[f].shard.fragments = <<>>
      /\ FilesClosed(data.files) /\ (tasks # <<>> => "tasks" \in written)
  BY DEF IInv, Types, RowsInv, StepsInv, Finalized
<1>2. PublishedRows = AllRows(metadata) /\ AllRows(metadata) \subseteq Row
  BY <1>1, PublishedAre, AllRowsType
<1>3. PICK r \in AllRows(metadata) : r.episode + 1 = e
  BY <1>1 DEF Rows
<1>4. r \in Row /\ RowOK(r, data.files, videos, delivered) /\ r.episode = e - 1
  <2>1. r \in Row
    BY <1>2
  <2>2. r.episode \in Nat
    BY <2>1 DEF Row
  <2>3. e \in Int
    OBVIOUS
  <2>4. r.episode = e - 1
    BY <1>3, <2>2, <2>3
  <2>5. RowOK(r, data.files, videos, delivered)
    BY <1>1 DEF Rows
  <2> QED
    BY <2>1, <2>4, <2>5
<1>5. {s \in PublishedRows : s.episode = e - 1} = {r}
  BY <1>1, <1>2, <1>4 DEF Rows
<1>6. r.data \in Locations /\ r.length \in Nat
  BY <1>4 DEF Row
<1>7. PICK x \in RowsOf(data.files[r.data].rows) :
         x.episode = r.episode /\ x.from = r.from /\ Len(x.task_indexes) = r.length
  BY <1>4 DEF RowOK, InFile
<1>8. RowsOf(data.files[r.data].rows) \subseteq RowsIn(data.files)
  BY <1>6 DEF RowsIn
<1>9. DataOK(x, tasks, delivered, total_frames)
  BY <1>1, <1>7, <1>8 DEF Data
<1>10. {d \in RowsOf(data.files[r.data].rows) : d.from = r.from} = {x}
  BY <1>1, <1>7, <1>8 DEF Data
<1>11. data.files[r.data].closed
  <2>1. data.files[r.data].rows # <<>>
    BY <1>7, NoRows
  <2> QED
    BY <1>1, <1>6, <2>1 DEF FilesClosed
<1>12. ASSUME NEW f \in VideoFeatures
       PROVE  ShownBy(f, r.routes[f]) = {e - 1} /\ videos[f].files[r.routes[f].loc].closed
  <2>1. /\ ShownBy(f, r.routes[f]) = {r.episode}
        /\ r.routes[f].loc \in Locations /\ Content(videos[f], r.routes[f].loc) # <<>>
    BY EpisodeRowsAre, ShowsOne
  <2>2. videos[f].files[r.routes[f].loc].rows # <<>>
    BY <1>1, <2>1 DEF Content
  <2> QED
    BY <1>1, <1>4, <2>1, <2>2 DEF FilesClosed
<1>13. /\ Len(x.task_indexes) = Len(delivered[e]) /\ Len(x.task_indexes) \in Nat
       /\ \A k \in 1..Len(x.task_indexes) : tasks[x.task_indexes[k]] = delivered[e][k]
       /\ tasks # <<>>
  <2>1. x.episode + 1 = e
    BY <1>3, <1>7
  <2>2. /\ Len(x.task_indexes) = Len(delivered[e]) /\ Len(x.task_indexes) > 0
        /\ \A k \in 1..Len(x.task_indexes) : /\ x.task_indexes[k] \in 1..Len(tasks)
                                             /\ tasks[x.task_indexes[k]] = delivered[e][k]
    BY <1>9, <2>1 DEF DataOK
  <2>3. Len(x.task_indexes) \in Nat
    BY <1>6, <1>7
  <2>4. 1 \in 1..Len(x.task_indexes)
    BY <2>2, <2>3
  <2>5. tasks # <<>>
    <3>1. x.task_indexes[1] \in 1..Len(tasks)
      BY <2>2, <2>4
    <3> QED
      BY <1>1, <3>1, EmptySeq
  <2> QED
    BY <2>2, <2>3, <2>5
<1>14. [k \in 1..Len(x.task_indexes) |-> tasks[x.task_indexes[k]]] = delivered[e]
  <2>1. delivered[e] \in Seq(Tasks)
    BY <1>1
  <2>2. delivered[e] = [k \in 1..Len(delivered[e]) |-> delivered[e][k]]
    BY <2>1, LenProperties
  <2> QED
    BY <1>13, <2>2
<1>15. Cardinality({r}) = 1 /\ Cardinality({x}) = 1
  BY FS_Singleton
<1> DEFINE rows == {s \in PublishedRows : s.episode = e - 1}
           row == CHOOSE s \in rows : TRUE
           found == {d \in RowsOf(data.files[row.data].rows) : d.from = row.from}
           frames == CHOOSE d \in found : TRUE
<1>16. rows = {r} /\ row = r
  BY <1>5
<1> HIDE DEF rows
<1> HIDE DEF row
<1>17. found = {x} /\ frames = x
  BY <1>10, <1>16
<1> HIDE DEF found
<1> HIDE DEF frames
<1>18. ReadEpisode(e - 1) =
         IF /\ Cardinality(rows) = 1 /\ Cardinality(found) = 1 /\ data.files[row.data].closed
            /\ \A f \in VideoFeatures : /\ ShownBy(f, row.routes[f]) = {e - 1}
                                         /\ videos[f].files[row.routes[f].loc].closed
            /\ "tasks" \in written
         THEN [k \in 1..Len(frames.task_indexes) |-> tasks[frames.task_indexes[k]]]
         ELSE <<>>
  BY DEF ReadEpisode, rows, row, found, frames
<1> QED
  BY <1>1, <1>11, <1>12, <1>13, <1>14, <1>15, <1>16, <1>17, <1>18

LEMMA DatasetRight ==
    ASSUME IInv, pc \in {"publish", "done"}
    PROVE  Dataset = delivered
<1>1. /\ "info" \in written /\ ~temporary /\ delivered \in Seq(Seq(Tasks))
      /\ Len(delivered) = total_episodes
  BY DEF IInv, StepsInv, Types
<1>2. Cardinality(PublishedRows) = total_episodes
  BY <1>1, PublishedAre, RowsCounted
<1>3. Dataset = [e \in 1..total_episodes |-> ReadEpisode(e - 1)]
  BY <1>1, <1>2 DEF Dataset
<1>4. \A e \in 1..total_episodes : ReadEpisode(e - 1) = delivered[e]
  BY <1>1, ReadBack
<1>5. delivered = [e \in 1..total_episodes |-> delivered[e]]
  BY <1>1, LenProperties
<1> QED
  BY <1>3, <1>4, <1>5

-----------------------------------------------------------------------------
(* COPY publishes at once *)

\* The state of the abstract specification.
RootAt == [holds |-> root, episodes |-> IF root = "ours" THEN Dataset ELSE <<>>]
Outcome ==
    CASE pc = "create" -> "starting"
      [] pc = "done" -> "done"
      [] pc \in {"unwind", "failed", "crashed"} -> "failed"
      [] OTHER -> "running"

RootRight ==
    RootAt = [holds |-> root, episodes |-> IF root = "ours" THEN delivered ELSE <<>>]

LEMMA RootIs == IInv => RootRight
<1> SUFFICES ASSUME IInv PROVE RootRight
  OBVIOUS
<1>1. CASE root = "ours"
  <2>1. Dataset = delivered
    BY <1>1, DatasetRight DEF IInv, StageInv
  <2> QED
    BY <1>1, <2>1 DEF RootAt, RootRight
<1>2. CASE root # "ours"
  BY <1>2 DEF RootAt, RootRight
<1> QED
  BY <1>1, <1>2

LEMMA OutcomeIs ==
    /\ pc = "create" => Outcome = "starting"
    /\ pc = "done" => Outcome = "done"
    /\ pc \in {"unwind", "failed", "crashed"} => Outcome = "failed"
    /\ pc \in {"sink", "materialize", "flush", "tasks", "info", "publish"} => Outcome = "running"
BY DEF Outcome

\* The actions of the abstract specification in these terms.
LEMMA DeliverIs ==
    ASSUME Outcome = "running", Len(delivered') = Len(delivered) + 1,
           SubSeq(delivered', 1, Len(delivered)) = delivered,
           delivered'[Len(delivered')] \in Seq(Tasks), RootAt' = RootAt, Outcome' = Outcome
    PROVE  Publication!Next
BY DEF Publication!Next, Publication!Deliver, RootAt, Outcome

LEMMA BeginIs ==
    ASSUME Outcome = "starting", RootAt = [holds |-> "absent", episodes |-> <<>>],
           Outcome' = "running", RootAt' = RootAt, delivered' = delivered
    PROVE  Publication!Next
BY DEF Publication!Next, Publication!Begin, Publication!Absent, RootAt, Outcome

\* What the move replaces, if anything.
LEMMA PublishIs ==
    ASSUME Outcome = "running", Movable, RootAt = [holds |-> root, episodes |-> <<>>],
           RootAt' = [holds |-> "ours", episodes |-> delivered],
           Outcome' = "done", delivered' = delivered
    PROVE  Publication!Next
<1>1. RootAt \in {Publication!Absent, Publication!Empty}
  BY DEF Movable, Publication!Absent, Publication!Empty
<1> QED
  BY <1>1 DEF Publication!Next, Publication!Publish, Publication!Published, RootAt, Outcome

LEMMA FailIs ==
    ASSUME Outcome \in {"starting", "running"}, Outcome' = "failed", delivered' = delivered,
           RootAt' = RootAt
    PROVE  Publication!Next
BY DEF Publication!Next, Publication!Fail, RootAt, Outcome

\* Somebody else makes the root, or puts something into it.
LEMMA OtherIs ==
    ASSUME Movable, RootAt = [holds |-> root, episodes |-> <<>>],
           RootAt' = [holds |-> "foreign", episodes |-> <<>>],
           delivered' = delivered, Outcome' = Outcome
    PROVE  Publication!Next
<1>1. RootAt \in {Publication!Absent, Publication!Empty}
  BY DEF Movable, Publication!Absent, Publication!Empty
<1> QED
  BY <1>1 DEF Publication!Next, Publication!OtherPublishes, Publication!Foreign, RootAt, Outcome

LEMMA OtherMakesIs ==
    ASSUME RootAt = [holds |-> "absent", episodes |-> <<>>],
           RootAt' = [holds |-> "empty", episodes |-> <<>>],
           delivered' = delivered, Outcome' = Outcome
    PROVE  Publication!Next
BY DEF Publication!Next, Publication!OtherCreates, Publication!Absent, Publication!Empty,
       RootAt, Outcome

LEMMA StutterIs ==
    ASSUME RootAt' = RootAt, delivered' = delivered, Outcome' = Outcome
    PROVE  UNCHANGED Publication!vars
BY DEF Publication!vars, RootAt, Outcome

LEMMA InitIs == Init => Publication!Init
BY DEF Init, Publication!Init, Publication!Absent, Publication!Empty, Publication!Foreign,
       RootAt, Outcome

\* A finished episode is delivered.
LEMMA EpisodeDelivered ==
    ASSUME delivered \in Seq(Seq(Tasks)), NEW frames \in Seq(Tasks),
           delivered' = Append(delivered, frames),
           Outcome = "running", RootAt' = RootAt, Outcome' = Outcome
    PROVE  Publication!Next
<1>1. /\ Append(delivered, frames) \in Seq(Seq(Tasks))
      /\ Len(Append(delivered, frames)) = Len(delivered) + 1
      /\ Append(delivered, frames)[Len(delivered) + 1] = frames /\ Len(delivered) \in Nat
      /\ \A i \in 1..Len(delivered) : Append(delivered, frames)[i] = delivered[i]
  BY ResultGrows
<1> DEFINE a == Append(delivered, frames)
           s == SubSeq(a, 1, Len(delivered))
<1> HIDE DEF a
<1>2. \A i \in 1..Len(delivered) : a[i] \in Seq(Tasks) /\ a[i] = delivered[i]
  BY <1>1 DEF a
<1>3. /\ s \in Seq(Seq(Tasks)) /\ Len(s) = Len(delivered)
      /\ \A i \in 1..Len(delivered) : s[i] = a[i]
  <2>1. /\ s \in Seq(Seq(Tasks))
        /\ Len(s) = IF 1 <= Len(delivered) THEN Len(delivered) - 1 + 1 ELSE 0
        /\ \A i \in 1..(Len(delivered) - 1 + 1) : s[i] = a[1 + i - 1]
    BY <1>1, <1>2, SubSeqProperties
  <2>2. Len(delivered) - 1 + 1 = Len(delivered) /\ \A i \in 1..Len(delivered) : 1 + i - 1 = i
    BY <1>1
  <2>3. Len(s) = Len(delivered)
    BY <1>1, <2>1
  <2> QED
    BY <2>1, <2>2, <2>3
<1> HIDE DEF s
<1>4. s = delivered
  BY <1>2, <1>3, SeqEqual
<1> QED
  BY <1>1, <1>4, DeliverIs DEF s, a

LEMMA StepSimulated ==
    ASSUME IInv, IInv', [Next]_vars
    PROVE  Publication!Next \/ UNCHANGED Publication!vars
<1>1. /\ RootAt = [holds |-> root, episodes |-> IF root = "ours" THEN delivered ELSE <<>>]
      /\ RootAt' = [holds |-> root', episodes |-> IF root' = "ours" THEN delivered' ELSE <<>>]
      /\ delivered \in Seq(Seq(Tasks))
      /\ current \in [index : Int, frames : Seq(Tasks), present : BOOLEAN]
      /\ pc \in Steps /\ (root = "ours" <=> pc = "done")
  <2>1. IInv' => RootRight'
    BY RootIs, PTL
  <2> QED
    BY <2>1, RootIs DEF IInv, Types, StageInv, RootRight
<1>2. current.frames \in Seq(Tasks)
  BY <1>1
<1>3. CASE FinishEpisode /\ pc = "sink" /\ pc' \in {"sink", "materialize"} /\ root' = root
  <2>1. delivered' = Append(delivered, current.frames)
    BY <1>3 DEF FinishEpisode
  <2>2. RootAt' = RootAt
    BY <1>1, <1>3
  <2>3. Outcome = "running" /\ Outcome' = Outcome
    BY <1>3 DEF Outcome
  <2> QED
    BY <1>1, <1>2, <2>1, <2>2, <2>3, EpisodeDelivered
<1>4. CASE delivered' = delivered /\ root' = root /\ Outcome' = Outcome
  BY <1>1, <1>4, StutterIs
<1>5. CASE /\ delivered' = delivered /\ root' = root
           /\ Outcome \in {"starting", "running"} /\ Outcome' = "failed"
  BY <1>1, <1>5, FailIs
<1>6. CASE MaterializeShards \/ FlushAndClose \/ WriteTasks \/ WriteInfo \/ Unwind
              \/ Interrupt \/ Terminated \/ UNCHANGED vars
  BY <1>4, <1>6 DEF MaterializeShards, FlushAndClose, WriteTasks, WriteInfo, Unwind, Interrupt,
                    Terminated, vars, writerVars, Outcome
<1>7. CASE CreateFails \/ Fail \/ Crash
  <2>1. delivered' = delivered /\ root' = root
    BY <1>7 DEF CreateFails, Fail, Crash, writerVars
  <2>2. \/ Outcome \in {"starting", "running"} /\ Outcome' = "failed"
        \/ Outcome' = Outcome
    BY <1>1, <1>7 DEF CreateFails, Fail, Crash, Outcome, Steps
  <2> QED
    BY <1>4, <1>5, <2>1, <2>2
<1>8. CASE \E task \in Tasks : ContinueEpisode(task) \/ StartEpisode(task)
  <2>1. PICK task \in Tasks : ContinueEpisode(task) \/ StartEpisode(task)
    BY <1>8
  <2>2. CASE ContinueEpisode(task)
    BY <1>4, <2>2 DEF ContinueEpisode, writerVars, Outcome
  <2>3. CASE StartEpisode(task)
    <3>1. pc = "sink" /\ pc' = pc /\ root' = root /\ (FinishEpisode \/ delivered' = delivered)
      BY <2>3 DEF StartEpisode, writerVars
    <3> QED
      BY <1>3, <1>4, <3>1 DEF Outcome
  <2> QED
    BY <2>1, <2>2, <2>3
<1>9. CASE FinishLast
  <2>1. /\ pc = "sink" /\ pc' = "materialize" /\ root' = root
        /\ FinishEpisode \/ delivered' = delivered
    BY <1>9 DEF FinishLast, writerVars
  <2> QED
    BY <1>3, <1>4, <2>1 DEF Outcome
<1>10. CASE Publish
  <2>1. /\ pc = "publish" /\ pc' = "done" /\ Movable /\ root' = "ours"
        /\ delivered' = delivered
    BY <1>10 DEF Publish, writerVars
  <2>2. /\ RootAt = [holds |-> root, episodes |-> <<>>]
        /\ RootAt' = [holds |-> "ours", episodes |-> delivered]
    BY <1>1, <2>1 DEF Movable
  <2>3. Outcome = "running" /\ Outcome' = "done"
    BY <2>1 DEF Outcome
  <2> QED
    BY <2>1, <2>2, <2>3, PublishIs
<1>11. CASE OtherPublishes
  <2>1. Movable /\ root' = "foreign" /\ pc' = pc /\ delivered' = delivered
    BY <1>11 DEF OtherPublishes, writerVars
  <2>2. /\ RootAt = [holds |-> root, episodes |-> <<>>]
        /\ RootAt' = [holds |-> "foreign", episodes |-> <<>>]
    BY <1>1, <2>1 DEF Movable
  <2>3. Outcome' = Outcome
    BY <2>1 DEF Outcome
  <2> QED
    BY <2>1, <2>2, <2>3, OtherIs
<1>12. CASE OtherCreates
  <2>1. root = "absent" /\ root' = "empty" /\ pc' = pc /\ delivered' = delivered
    BY <1>12 DEF OtherCreates, writerVars
  <2>2. /\ RootAt = [holds |-> "absent", episodes |-> <<>>]
        /\ RootAt' = [holds |-> "empty", episodes |-> <<>>]
    BY <1>1, <2>1
  <2>3. Outcome' = Outcome
    BY <2>1 DEF Outcome
  <2> QED
    BY <2>1, <2>2, <2>3, OtherMakesIs
<1>13. CASE Create
  <2>1. /\ pc = "create" /\ pc' = "sink" /\ root = "absent" /\ root' = root
        /\ delivered' = delivered
    BY <1>13 DEF Create, writerVars
  <2>2. RootAt = [holds |-> "absent", episodes |-> <<>>] /\ RootAt' = RootAt
    BY <1>1, <2>1
  <2>3. Outcome = "starting" /\ Outcome' = "running"
    BY <2>1 DEF Outcome
  <2> QED
    BY <2>1, <2>2, <2>3, BeginIs
<1> QED
  BY <1>6, <1>7, <1>8, <1>9, <1>10, <1>11, <1>12, <1>13 DEF Next, Finalize

\* COPY publishes the whole result of the query at once or nothing: whatever fails or crashes, a
\* reader that goes by way of the rows, the data files, the routes and the task table finds
\* exactly the episodes that the query delivered.  It does not begin on a root that is there, and
\* its move, which looks at nothing, replaces an empty directory made meanwhile and nothing else.
THEOREM Publishes == Spec => PublishesAtOnce
<1>1. IInv /\ IInv' /\ [Next]_vars => [Publication!Next]_Publication!vars
  BY StepSimulated
<1>2. Init => Publication!Init
  BY InitIs
<1> QED
  BY <1>1, <1>2, CopyInductive, PTL DEF Spec, PublishesAtOnce, Publication!Spec

=============================================================================
