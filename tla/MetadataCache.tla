--------------------------- MODULE MetadataCache ---------------------------
(***************************************************************************)
(* LerobotDatasetMetadata::Get and LerobotVideoMetadata::Get, the parsed   *)
(* metadata of one dataset root in the object cache of the database        *)
(* (src/src/storage/lerobot_metadata_cache.cpp).                           *)
(*                                                                         *)
(* The key of an entry names the root and the access configuration (the    *)
(* endpoint, the secrets), since the same root may be another store under  *)
(* another configuration.  Nothing is locked: a client reads the           *)
(* configuration and the files one by one while other connections change   *)
(* settings, rewrite files and fill the cache.  The episodes are in        *)
(* several files, which are listed, read and compared one after the other. *)
(* What a client loaded is kept only if the manifest, the configuration    *)
(* and, of a remote root, the episode files are the same afterwards; of a  *)
(* local root the manifest alone stands for them.  The route of a video    *)
(* dataset is cached apart, and valid only together with the dataset entry *)
(* it was loaded for.                                                      *)
(***************************************************************************)
EXTENDS Integers, FiniteSets, Functions

CONSTANTS
    Clients,              \* the threads that bind or run a query on the root
    Stores,               \* what the root is under each access configuration
    Remotes,              \* the values of FileSystem::IsRemoteFile(root)
    Refreshing,           \* the values of the refresh argument
    Files,                \* the number of the episode files, which are in the order of their names
    Empty,                \* the generations of the manifest that declare no episodes
    LastGeneration,       \* bound: of the rewrites of a file
    MaxRewrites,          \* bound: of the rewrites of all files
    MaxSwitches,          \* bound: of the changes of the configuration
    MaxCalls              \* bound: of the calls at the same time, if the root is remote or not, after
                          \* so many changes of the configuration and so many rewrites

ASSUME StoresAssumption ==
    /\ IsFiniteSet(Clients) /\ IsFiniteSet(Stores) /\ Stores # {}
    /\ Remotes \subseteq BOOLEAN /\ Refreshing \subseteq BOOLEAN
    /\ Files \in Nat \ {0} /\ LastGeneration \in Nat /\ Empty \subseteq 0..LastGeneration
    /\ MaxSwitches \in Nat /\ MaxRewrites \in Nat
    /\ MaxCalls \in [BOOLEAN -> [0..MaxSwitches -> [0..MaxRewrites -> Nat]]]

VARIABLES
    remote,           \* whether the root is remote, which never changes
    config,           \* external: the access configuration, known by the store it leads to
    switches,         \* how often it changed
    info, episodes,   \* external: the generation of info.json and of each episode file
    rewrites,         \* how often one of them was rewritten
    datasets, videos, \* the entries of the object cache
    pc,               \* the step of each client
    call,             \* the refresh argument, and which Get of the dataset is under way
    attempt,          \* the attempts of each Get
    key,              \* the cache key of each Get
    before, valid,    \* the manifest before loading; whether the entry is still valid
    next,             \* the episode file that a listing has come to
    dataset, video,   \* the entry of each Get
    seen,             \* history: what the root was since the call began
    met               \* history: the generations each store had at the same time

world == <<remote, config, switches, info, episodes, rewrites, met>>
cache == <<datasets, videos>>
vars == <<world, cache, pc, call, attempt, key, before, valid, next, dataset, video, seen>>

EpisodeFiles == 1..Files

\* What the configuration leads to.  Files with the same fingerprint may be found under two
\* configurations.
File(generations) == [store |-> config, generation |-> generations[config]]
NoFile == [store |-> CHOOSE s \in Stores : TRUE, generation |-> -1]

\* One of the episode files that the root had at some moment, and all of them.
OneOf(files, f) == [store |-> files.store, generation |-> files.generation[f]]
RowsOf(files) == [f \in EpisodeFiles |-> OneOf(files, f)]

\* An entry: what was read, the rows file by file, and the fingerprints it is valid for.
NoRows == [f \in EpisodeFiles |-> NoFile]
Unlisted == [f \in EpisodeFiles |-> -1]
NoEntry ==
    [info |-> NoFile, episodes |-> NoRows, info_fingerprint |-> -1, episode_files |-> Unlisted]
Unread(e) == {f \in EpisodeFiles : e.episodes[f] = NoFile}

Gets == {"dataset", "video"}
Nothing == [info |-> {}, episodes |-> {}]

Init ==
    /\ remote \in Remotes /\ config = (CHOOSE s \in Stores : TRUE) /\ switches = 0
    /\ info = [s \in Stores |-> 0] /\ episodes = [s \in Stores |-> [f \in EpisodeFiles |-> 0]]
    /\ rewrites = 0
    /\ datasets = [s \in Stores |-> NoEntry] /\ videos = [s \in Stores |-> NoEntry]
    /\ pc = [c \in Clients |-> "idle"]
    /\ call = [c \in Clients |-> [refresh |-> FALSE, phase |-> "only"]]
    /\ attempt = [c \in Clients |-> [g \in Gets |-> 0]]
    /\ key = [c \in Clients |-> [g \in Gets |-> CHOOSE s \in Stores : TRUE]]
    /\ before = [c \in Clients |-> -1] /\ valid = [c \in Clients |-> FALSE]
    /\ next = [c \in Clients |-> 1]
    /\ dataset = [c \in Clients |-> NoEntry] /\ video = [c \in Clients |-> NoEntry]
    /\ seen = [c \in Clients |-> Nothing] /\ met = [s \in Stores |-> {<<0, episodes[s]>>}]

-----------------------------------------------------------------------------

\* The clients that are in a call.
Busy == {c \in Clients : pc[c] # "idle"}

Goto(c, step) == pc' = [pc EXCEPT ![c] = step]

\* The call is over: its locals are gone.
End(c) ==
    /\ Goto(c, "idle")
    /\ call' = [call EXCEPT ![c] = [refresh |-> FALSE, phase |-> "only"]]
    /\ attempt' = [attempt EXCEPT ![c] = [g \in Gets |-> 0]]
    /\ key' = [key EXCEPT ![c] = [g \in Gets |-> CHOOSE s \in Stores : TRUE]]
    /\ before' = [before EXCEPT ![c] = -1] /\ valid' = [valid EXCEPT ![c] = FALSE]
    /\ next' = [next EXCEPT ![c] = 1]
    /\ dataset' = [dataset EXCEPT ![c] = NoEntry] /\ video' = [video EXCEPT ![c] = NoEntry]
    /\ seen' = [seen EXCEPT ![c] = Nothing]

\* The Get of the dataset has its entry.
Got(c) ==
    /\ Goto(c, CASE call[c].phase = "only" -> "return" [] call[c].phase = "first" -> "got"
                 [] call[c].phase = "second" -> "compare")
    /\ before' = [before EXCEPT ![c] = -1] /\ valid' = [valid EXCEPT ![c] = FALSE]

\* Each Get has two attempts.
Retry(c, get, first_step) ==
    IF attempt[c][get] = 1 THEN End(c)
    ELSE /\ attempt' = [attempt EXCEPT ![c][get] = 1]
         /\ Goto(c, first_step)
         /\ before' = [before EXCEPT ![c] = -1] /\ valid' = [valid EXCEPT ![c] = FALSE]
         /\ dataset' = [dataset EXCEPT ![c] = NoEntry]
         /\ UNCHANGED <<call, key, next, video, seen>>

\* The next episode file of a listing, after the last one of which comes the given step.
Visit(c, then) ==
    /\ next' = [next EXCEPT ![c] = IF @ = Files THEN 1 ELSE @ + 1]
    /\ Goto(c, IF next[c] = Files THEN then ELSE pc[c])

-----------------------------------------------------------------------------
(* LerobotDatasetMetadata::Get *)

BeginDataset(c) ==
    /\ pc[c] = "idle" /\ Cardinality(Busy) < MaxCalls[remote][switches][rewrites]
    /\ \E r \in Refreshing : call' = [call EXCEPT ![c] = [refresh |-> r, phase |-> "only"]]
    /\ seen' = [seen EXCEPT ![c] = [info |-> {File(info)}, episodes |-> {File(episodes)}]]
    /\ Goto(c, "key")
    /\ UNCHANGED <<world, cache, attempt, key, before, valid, next, dataset, video>>

\* The second Get of a video Get, and those of its second attempt, do not refresh.
Refresh(c) ==
    /\ call[c].refresh /\ call[c].phase # "second"
    /\ call[c].phase = "first" => attempt[c]["video"] = 0

Key(c) ==
    /\ pc[c] = "key"
    /\ key' = [key EXCEPT ![c]["dataset"] = config]
    /\ Goto(c, IF Refresh(c) THEN "invalidate" ELSE "cached")
    /\ UNCHANGED <<world, cache, call, attempt, before, valid, next, dataset, video, seen>>

\* Invalidate finds out the key for itself.
Invalidate(c) ==
    /\ pc[c] = "invalidate"
    /\ datasets' = [datasets EXCEPT ![config] = NoEntry]
    /\ videos' = [videos EXCEPT ![config] = NoEntry]
    /\ Goto(c, "before")
    /\ UNCHANGED <<world, call, attempt, key, before, valid, next, dataset, video, seen>>

Cached(c) ==
    /\ pc[c] = "cached"
    /\ dataset' = [dataset EXCEPT ![c] = datasets[key[c]["dataset"]]]
    /\ Goto(c, IF dataset'[c] = NoEntry THEN "before" ELSE "info_valid")
    /\ UNCHANGED <<world, cache, call, attempt, key, before, valid, next, video, seen>>

\* IsValid: the manifest first, and the episode files only if it is the same.
InfoValid(c) ==
    /\ pc[c] = "info_valid"
    /\ valid' = [valid EXCEPT ![c] = dataset[c].info_fingerprint = info[config]]
    /\ Goto(c, IF valid'[c] /\ dataset[c].episode_files # Unlisted THEN "files_valid" ELSE "recheck")
    /\ UNCHANGED <<world, cache, call, attempt, key, before, next, dataset, video, seen>>

\* Mutant: the last file of the listing decides.
LastFileIsValid(c, then) ==
    /\ valid' = [valid EXCEPT ![c] = dataset[c].episode_files[next[c]] = episodes[config][next[c]]]
    /\ Visit(c, then)

\* EpisodeFilesAreValid, of an entry that was cached or has just been loaded: one file more of
\* the listing that is compared with the one of the entry.
FilesAreValid(c, then) ==
    /\ valid' = [valid EXCEPT ![c] =
          (next[c] = 1 \/ @) /\ dataset[c].episode_files[next[c]] = episodes[config][next[c]]]
    /\ Visit(c, then)

FilesValid(c) ==
    /\ pc[c] = "files_valid"
    /\ FilesAreValid(c, "recheck")
    /\ UNCHANGED <<world, cache, call, attempt, key, before, dataset, video, seen>>

SameKey(c, get) == key[c][get] = config

\* Mutant: what is valid somewhere is returned.
RecheckNoKey(c) ==
    /\ pc[c] = "recheck"
    /\ IF valid[c]
       THEN Got(c) /\ UNCHANGED <<call, attempt, key, next, dataset, video, seen>>
       ELSE /\ Goto(c, "before") /\ dataset' = [dataset EXCEPT ![c] = NoEntry]
            /\ UNCHANGED <<call, attempt, key, before, valid, next, video, seen>>
    /\ UNCHANGED <<world, cache>>

\* Files of another store may have been compared.
Recheck(c) ==
    /\ pc[c] = "recheck"
    /\ IF ~SameKey(c, "dataset") THEN Retry(c, "dataset", "key")
       ELSE IF valid[c]
       THEN Got(c) /\ UNCHANGED <<call, attempt, key, next, dataset, video, seen>>
       ELSE /\ Goto(c, "before") /\ dataset' = [dataset EXCEPT ![c] = NoEntry]
            /\ UNCHANGED <<call, attempt, key, before, valid, next, video, seen>>
    /\ UNCHANGED <<world, cache>>

\* ReadInfoFingerprint
Before(c) ==
    /\ pc[c] = "before"
    /\ before' = [before EXCEPT ![c] = info[config]]
    /\ Goto(c, "load_info")
    /\ UNCHANGED <<world, cache, call, attempt, key, valid, next, dataset, video, seen>>

\* Load: the manifest.  A dataset without episodes has no files to read.
LoadInfo(c) ==
    /\ pc[c] = "load_info"
    /\ dataset' = [dataset EXCEPT ![c] = [NoEntry EXCEPT !.info = File(info),
                                                          !.info_fingerprint = before[c]]]
    /\ Goto(c, IF info[config] \in Empty THEN "loaded_valid"
               ELSE IF remote THEN "load_files" ELSE "load_episodes")
    /\ UNCHANGED <<world, cache, call, attempt, key, before, valid, next, video, seen>>

\* Load: ReadEpisodeFiles of a remote root, which opens one file after the other.
LoadFiles(c) ==
    /\ pc[c] = "load_files"
    /\ dataset' = [dataset EXCEPT ![c].episode_files[next[c]] = episodes[config][next[c]]]
    /\ Visit(c, "load_episodes")
    /\ UNCHANGED <<world, cache, call, attempt, key, before, valid, video, seen>>

\* Load: the rows of the episode files, which the nested query scans file by file.
LoadEpisodes(c) ==
    /\ pc[c] = "load_episodes"
    /\ \E f \in Unread(dataset[c]) :
          /\ dataset' = [dataset EXCEPT ![c].episodes[f] = OneOf(File(episodes), f)]
          /\ Goto(c, IF Unread(dataset[c]) = {f} THEN "loaded_valid" ELSE pc[c])
    /\ UNCHANGED <<world, cache, call, attempt, key, before, valid, next, video, seen>>

\* Mutant: the episode files are not looked at again after they were read.
LoadedAlways(c) ==
    /\ pc[c] = "loaded_valid"
    /\ valid' = [valid EXCEPT ![c] = TRUE]
    /\ Goto(c, "after")
    /\ UNCHANGED <<world, cache, call, attempt, key, before, next, dataset, video, seen>>

\* Files that were not listed, as those of a local root, are not compared.
LoadedValid(c) ==
    /\ pc[c] = "loaded_valid"
    /\ IF dataset[c].episode_files = Unlisted
       THEN valid' = [valid EXCEPT ![c] = TRUE] /\ Goto(c, "after") /\ UNCHANGED next
       ELSE FilesAreValid(c, "after")
    /\ UNCHANGED <<world, cache, call, attempt, key, before, dataset, video, seen>>

\* Mutant: the manifest is not looked at again.
AfterUnread(c) ==
    /\ pc[c] = "after"
    /\ Goto(c, "publish")
    /\ UNCHANGED <<world, cache, call, attempt, key, before, valid, next, dataset, video, seen>>

After(c) ==
    /\ pc[c] = "after"
    /\ valid' = [valid EXCEPT ![c] = @ /\ before[c] = info[config]]
    /\ Goto(c, "publish")
    /\ UNCHANGED <<world, cache, call, attempt, key, before, next, dataset, video, seen>>

\* The entry is kept if nothing changed while it was loaded.
Publish(c) ==
    /\ pc[c] = "publish"
    /\ IF valid[c] /\ SameKey(c, "dataset")
       THEN /\ datasets' = [datasets EXCEPT ![key[c]["dataset"]] = dataset[c]]
            /\ Got(c)
            /\ UNCHANGED <<videos, call, attempt, key, next, dataset, video, seen>>
       ELSE Retry(c, "dataset", "key") /\ UNCHANGED cache
    /\ UNCHANGED world

-----------------------------------------------------------------------------
(* LerobotVideoMetadata::Get *)

BeginVideo(c) ==
    /\ pc[c] = "idle" /\ Cardinality(Busy) < MaxCalls[remote][switches][rewrites]
    /\ \E r \in Refreshing : call' = [call EXCEPT ![c] = [refresh |-> r, phase |-> "first"]]
    /\ seen' = [seen EXCEPT ![c] = [info |-> {File(info)}, episodes |-> {File(episodes)}]]
    /\ Goto(c, "video_key")
    /\ UNCHANGED <<world, cache, attempt, key, before, valid, next, dataset, video>>

\* An attempt starts with a Get of the dataset.
VideoKey(c) ==
    /\ pc[c] = "video_key"
    /\ key' = [key EXCEPT ![c]["video"] = config]
    /\ call' = [call EXCEPT ![c].phase = "first"]
    /\ attempt' = [attempt EXCEPT ![c]["dataset"] = 0]
    /\ Goto(c, "key")
    /\ UNCHANGED <<world, cache, before, valid, next, dataset, video, seen>>

\* LerobotVideoMetadata::IsValid
ValidFor(v, d) == v.info_fingerprint = d.info_fingerprint /\ v.episode_files = d.episode_files

\* Mutant: cached routes are taken for those of the dataset.
VideoCachedAlways(c) ==
    LET cached == videos[key[c]["video"]]
    IN /\ pc[c] = "got" /\ SameKey(c, "video") /\ ~call[c].refresh
       /\ cached # NoEntry
       /\ video' = [video EXCEPT ![c] = cached]
       /\ Goto(c, "return")
       /\ UNCHANGED <<world, cache, call, attempt, key, before, valid, next, dataset, seen>>

\* Cached routes that belong to the entry of the dataset.
VideoCached(c) ==
    LET cached == videos[key[c]["video"]]
    IN /\ pc[c] = "got" /\ SameKey(c, "video") /\ ~call[c].refresh
       /\ cached # NoEntry /\ ValidFor(cached, dataset[c])
       /\ video' = [video EXCEPT ![c] = cached]
       /\ Goto(c, "return")
       /\ UNCHANGED <<world, cache, call, attempt, key, before, valid, next, dataset, seen>>

\* Load begins: the routes are read for the entry of the dataset.
VideoLoad(c) ==
    LET cached == videos[key[c]["video"]]
    IN /\ pc[c] = "got" /\ SameKey(c, "video")
       /\ call[c].refresh \/ cached = NoEntry \/ ~ValidFor(cached, dataset[c])
       /\ video' = [video EXCEPT ![c] = [dataset[c] EXCEPT !.episodes = NoRows]]
       /\ Goto(c, "load_video")
       /\ UNCHANGED <<world, cache, call, attempt, key, before, valid, next, dataset, seen>>

\* Load: the routes of one episode file more.
VideoRead(c) ==
    /\ pc[c] = "load_video" /\ dataset[c].episodes # NoRows
    /\ \E f \in Unread(video[c]) :
          video' = [video EXCEPT ![c].episodes[f] = OneOf(File(episodes), f)]
    /\ UNCHANGED <<world, cache, pc, call, attempt, key, before, valid, next, dataset, seen>>

\* The routes are read, and the entry of the dataset is got once more.
VideoLoaded(c) ==
    /\ pc[c] = "load_video"
    /\ dataset[c].episodes = NoRows \/ Unread(video[c]) = {}
    /\ dataset' = [dataset EXCEPT ![c] = NoEntry]
    /\ call' = [call EXCEPT ![c].phase = "second"]
    /\ attempt' = [attempt EXCEPT ![c]["dataset"] = 0]
    /\ Goto(c, "key")
    /\ UNCHANGED <<world, cache, key, before, valid, next, video, seen>>

\* The configuration changed since the attempt began.
VideoOtherKey(c) ==
    /\ pc[c] = "got" /\ ~SameKey(c, "video")
    /\ Retry(c, "video", "video_key")
    /\ UNCHANGED <<world, cache>>

\* The routes are kept if they belong to the entry the dataset has now.
PublishVideo(c) ==
    /\ pc[c] = "compare"
    /\ IF ValidFor(video[c], dataset[c]) /\ SameKey(c, "video")
       THEN /\ videos' = [videos EXCEPT ![key[c]["video"]] = video[c]]
            /\ Goto(c, "return")
            /\ UNCHANGED <<datasets, call, attempt, key, before, valid, next, dataset, video, seen>>
       ELSE Retry(c, "video", "video_key") /\ UNCHANGED cache
    /\ UNCHANGED world

Return(c) == pc[c] = "return" /\ End(c) /\ UNCHANGED <<world, cache>>

\* An interrupt, a file that cannot be read, or a manifest and episode files that disagree.
Throw(c) == pc[c] \notin {"idle", "return"} /\ End(c) /\ UNCHANGED <<world, cache>>

-----------------------------------------------------------------------------
(* External: other connections and writers *)

\* What the clients' root is after the step is what they may have seen.
Saw ==
    /\ seen' = [c \in Clients |->
       IF pc[c] = "idle" THEN Nothing
       ELSE [info |-> seen[c].info \cup {[store |-> config', generation |-> info'[config']]},
             episodes |-> seen[c].episodes
                          \cup {[store |-> config', generation |-> episodes'[config']]}]]
    /\ met' = [s \in Stores |-> met[s] \cup {<<info'[s], episodes'[s]>>}]

SwitchConfig(s) ==
    /\ s # config /\ switches < MaxSwitches
    /\ Cardinality(Busy) <= MaxCalls[remote][switches + 1][rewrites]
    /\ config' = s /\ switches' = switches + 1 /\ UNCHANGED <<remote, info, episodes, rewrites>> /\ Saw
    /\ UNCHANGED <<cache, pc, call, attempt, key, before, valid, next, dataset, video>>

\* Only what the configuration leads to is rewritten: nobody reads the other stores, which may as
\* well be rewritten right after the switch to them.
RewriteInfo(s) ==
    /\ s = config /\ info[s] < LastGeneration /\ rewrites < MaxRewrites
    /\ Cardinality(Busy) <= MaxCalls[remote][switches][rewrites + 1]
    /\ info' = [info EXCEPT ![s] = @ + 1] /\ rewrites' = rewrites + 1
    /\ UNCHANGED <<remote, config, switches, episodes>> /\ Saw
    /\ UNCHANGED <<cache, pc, call, attempt, key, before, valid, next, dataset, video>>

RewriteEpisodes(s, f) ==
    /\ s = config /\ episodes[s][f] < LastGeneration /\ rewrites < MaxRewrites
    /\ Cardinality(Busy) <= MaxCalls[remote][switches][rewrites + 1]
    /\ episodes' = [episodes EXCEPT ![s][f] = @ + 1] /\ rewrites' = rewrites + 1
    /\ UNCHANGED <<remote, config, switches, info>> /\ Saw
    /\ UNCHANGED <<cache, pc, call, attempt, key, before, valid, next, dataset, video>>

GetDataset(c) ==
    \/ BeginDataset(c) \/ Key(c) \/ Invalidate(c) \/ Cached(c) \/ InfoValid(c) \/ FilesValid(c)
    \/ Recheck(c) \/ Before(c) \/ LoadInfo(c) \/ LoadFiles(c) \/ LoadEpisodes(c) \/ LoadedValid(c)
    \/ After(c) \/ Publish(c)
GetVideo(c) ==
    \/ BeginVideo(c) \/ VideoKey(c) \/ VideoCached(c) \/ VideoLoad(c) \/ VideoRead(c)
    \/ VideoLoaded(c) \/ VideoOtherKey(c) \/ PublishVideo(c)

Next ==
    \/ \E c \in Clients : GetDataset(c) \/ GetVideo(c) \/ Return(c) \/ Throw(c)
    \/ \E s \in Stores : \/ SwitchConfig(s) \/ RewriteInfo(s)
                        \/ \E f \in EpisodeFiles : RewriteEpisodes(s, f)

Spec == Init /\ [][Next]_vars

-----------------------------------------------------------------------------
(* Invariants *)

Entries(s) == {datasets[s], videos[s]} \ {NoEntry}
Read(e) == ({e.info} \cup {e.episodes[f] : f \in EpisodeFiles}) \ {NoFile}
Generations(e) == [f \in EpisodeFiles |-> e.episodes[f].generation]

\* What is kept under a key was read from the store that the key leads to.
KeptUnderItsKey == \A s \in Stores : \A e \in Entries(s) : \A f \in Read(e) : f.store = s

\* An entry was read from files of the generations it is checked against, even if they were
\* rewritten meanwhile, some before and some after they were read: an entry that passes for
\* valid later is that of the files.
EntryIsItsFingerprint ==
    \A s \in Stores : \A e \in Entries(s) :
       /\ e.info.generation = e.info_fingerprint
       /\ e.episode_files # Unlisted => Generations(e) = e.episode_files

\* What a Get returns was the root's at some moment of the call, and if the root is remote in
\* all its episode files at one moment, too: also when it was cached, and when the routes of a
\* video Get are those of another entry than its manifest.
ReturnedCurrent ==
    \A c \in Clients : pc[c] = "return" =>
       LET entry == IF call[c].phase = "only" THEN dataset[c] ELSE video[c]
       IN /\ entry.info \in seen[c].info
          /\ entry.episode_files # Unlisted =>
                \E files \in seen[c].episodes : entry.episodes = RowsOf(files)

\* The manifest and the rows of an entry belonged together, although they are read one after
\* the other.  If the files were listed, as those of a remote root, there was a moment when the
\* root had all of them.  If not, there was one for each file, when the root had this file
\* together with the manifest: a writer that leaves the manifest alone is not noticed, and the
\* rows of two files may never have been the root's at the same time.
EntryIsSnapshot ==
    \A s \in Stores : \A e \in Entries(s) :
       /\ e.episode_files # Unlisted => <<e.info.generation, Generations(e)>> \in met[s]
       /\ e.episodes # NoRows =>
             \A f \in EpisodeFiles : \E had \in met[s] :
                had[1] = e.info.generation /\ had[2][f] = e.episodes[f].generation
=============================================================================
