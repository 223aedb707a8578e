------------------------ MODULE MetadataCacheProofs ------------------------
(***************************************************************************)
(* What holds of the metadata cache for every number of clients, stores,   *)
(* episode files, rewrites and calls at the same time, as long as the      *)
(* configuration does not return, during a call, to one that it had        *)
(* earlier in that call.  (The comparison of keys cannot see that;         *)
(* MC_MetadataCacheSwitch shows what happens then.)                        *)
(***************************************************************************)
EXTENDS MetadataCache, TLAPS

FileState == [store : Stores, generation : Int]
Listing == [EpisodeFiles -> Int]
Entry == [info : FileState, episodes : [EpisodeFiles -> FileState], info_fingerprint : Int,
          episode_files : Listing]
Moments == [info : SUBSET FileState, episodes : SUBSET [store : Stores, generation : Listing]]

CachedSteps == {"info_valid", "files_valid", "recheck"}
LoadingSteps == {"load_info", "load_files", "load_episodes", "loaded_valid", "after", "publish"}
\* The steps of a Get of the dataset between its key and its result.
GetSteps == {"invalidate", "cached", "before"} \cup CachedSteps \cup LoadingSteps
Steps == {"idle", "key", "video_key", "got", "load_video", "compare", "return"} \cup GetSteps

Types ==
    /\ config \in Stores /\ info \in [Stores -> Nat]
    /\ episodes \in [Stores -> [EpisodeFiles -> Nat]]
    /\ datasets \in [Stores -> Entry] /\ videos \in [Stores -> Entry]
    /\ pc \in [Clients -> Steps]
    /\ call \in [Clients -> [refresh : BOOLEAN, phase : {"only", "first", "second"}]]
    /\ attempt \in [Clients -> [Gets -> Nat]]
    /\ key \in [Clients -> [Gets -> Stores]]
    /\ before \in [Clients -> Int] /\ valid \in [Clients -> BOOLEAN]
    /\ next \in [Clients -> EpisodeFiles]
    /\ dataset \in [Clients -> Entry] /\ video \in [Clients -> Entry]
    /\ seen \in [Clients -> Moments]
    /\ met \in [Stores -> SUBSET (Nat \X [EpisodeFiles -> Nat])]

-----------------------------------------------------------------------------
(* What an entry is worth, given what its store had at the same time. *)

\* One episode file, together with the manifest of generation g or with a later one.
With(had_by_s, s, g, f, row) ==
    row.store = s /\ \E had \in had_by_s : had[1] = g /\ had[2][f] = row.generation
Since(had_by_s, s, g, f, row) ==
    row.store = s /\ \E had \in had_by_s : g <= had[1] /\ had[2][f] = row.generation

\* An entry that may be kept for store s.
EntryOK(had_by_s, s, e) ==
    /\ e.info.store = s /\ e.info.generation \in Nat /\ e.info.generation = e.info_fingerprint
    /\ e.episodes # NoRows =>
          \A f \in EpisodeFiles : With(had_by_s, s, e.info.generation, f, e.episodes[f])
    /\ e.episode_files # Unlisted =>
          /\ e.episodes # NoRows /\ Generations(e) = e.episode_files
          /\ <<e.info.generation, e.episode_files>> \in had_by_s

\* The listed episode files were the root's at some moment of the call.
ListedSeen(moments, e) ==
    e.episode_files # Unlisted => \E files \in moments : e.episodes = RowsOf(files)

\* The rows read so far are not older than the manifest and the listing of their entry, and the
\* listing is not ahead of the files.
RowsSince(had_by_s, s, e) ==
    \A f \in EpisodeFiles : e.episodes[f] # NoFile =>
       /\ Since(had_by_s, s, e.info.generation, f, e.episodes[f])
       /\ e.episode_files[f] <= e.episodes[f].generation
NotAhead(files, e) == \A f \in EpisodeFiles : e.episode_files[f] <= files[f]

\* All rows are read, or there are none.
Whole(e) == Unread(e) = {} \/ (e.episodes = NoRows /\ e.episode_files = Unlisted)

\* The comparison of the listing has come to file n.  When it began, the rows had been read and the
\* files were not older than the rows; the files before n are of the listed generation afterwards,
\* hence also when it began.
Checked(had_by_s, moments, s, e, n) ==
    \E had \in had_by_s :
       /\ e.info.generation <= had[1]
       /\ [store |-> s, generation |-> had[2]] \in moments
       /\ \A f \in EpisodeFiles :
             /\ e.episode_files[f] <= e.episodes[f].generation
             /\ e.episodes[f].generation <= had[2][f]
             /\ f < n => had[2][f] = e.episode_files[f]

\* The manifest, and the episode files before file n, that the second Get of the dataset found are
\* those of the first: then the routes were read in between, while nothing changed.
SameManifest(had_by_s, s, v, fingerprint) ==
    fingerprint = v.info_fingerprint /\ v.episodes # NoRows =>
       \A f \in EpisodeFiles : With(had_by_s, s, v.info.generation, f, v.episodes[f])
SameFiles(d, v, n) ==
    \A f \in EpisodeFiles :
       f < n /\ v.episode_files # Unlisted /\ d.episode_files[f] = v.episode_files[f] =>
          v.episodes[f].generation = v.episode_files[f]
AllSame(d, v) == d.episode_files # Unlisted => SameFiles(d, v, Files + 1)

-----------------------------------------------------------------------------
(* The invariant *)

CacheInv ==
    \A s \in Stores : /\ datasets[s] # NoEntry => EntryOK(met[s], s, datasets[s])
                      /\ videos[s] # NoEntry => EntryOK(met[s], s, videos[s])

\* The histories have the current generations, and none that is still to come.
MetInv ==
    \A s \in Stores :
       /\ <<info[s], episodes[s]>> \in met[s]
       /\ \A had \in met[s] :
             had[1] <= info[s] /\ \A f \in EpisodeFiles : had[2][f] <= episodes[s][f]
SeenInv(c) ==
    pc[c] # "idle" =>
       /\ File(info) \in seen[c].info /\ File(episodes) \in seen[c].episodes
       /\ \A f \in seen[c].info : f.generation <= info[f.store]

Keyed(c) == key[c]["dataset"] = config
VideoKeyed(c) == key[c]["video"] = config

\* The keys were the configuration at some moment of the call, the one of the video Get first.
KeysInv(c) ==
    /\ pc[c] = "idle" => call[c].phase = "only"
    /\ pc[c] \in {"got", "load_video"} => call[c].phase = "first"
    /\ pc[c] = "compare" => call[c].phase = "second"
    /\ pc[c] = "video_key" => call[c].phase # "only"
    /\ pc[c] \notin {"idle", "key", "video_key"} =>
          \E f \in seen[c].info : f.store = key[c]["dataset"]
    /\ call[c].phase = "second" \/ (call[c].phase = "first" /\ pc[c] # "video_key") =>
          \E f \in seen[c].info : f.store = key[c]["video"]
    /\ call[c].phase # "only" /\ pc[c] \notin {"key", "video_key"} /\ VideoKeyed(c) => Keyed(c)

\* A listing begins with the first file.
ListingInv(c) ==
    /\ pc[c] \notin {"load_files", "files_valid", "loaded_valid"} => next[c] = 1
    /\ pc[c] = "loaded_valid" /\ dataset[c].episode_files = Unlisted => next[c] = 1

\* An entry from the cache, and what became of its check.
CachedInv(c) ==
    LET d == dataset[c]
    IN pc[c] \in CachedSteps =>
          /\ EntryOK(met[key[c]["dataset"]], key[c]["dataset"], d)
          /\ pc[c] = "files_valid" /\ next[c] = 1 => valid[c]
          /\ pc[c] # "info_valid" /\ valid[c] /\ Keyed(c) => d.info \in seen[c].info
          /\ pc[c] = "files_valid" => d.episode_files # Unlisted
          /\ pc[c] = "files_valid" /\ next[c] # 1 /\ valid[c] /\ Keyed(c) =>
                Checked(met[config], seen[c].episodes, config, d, next[c])
          /\ pc[c] = "recheck" /\ valid[c] /\ Keyed(c) => ListedSeen(seen[c].episodes, d)

\* An entry that is being loaded: nothing was read before what it will be compared with, and
\* nothing in another store if the configuration is still the same.
LoadingInv(c) ==
    LET d == dataset[c]
        listed == valid[c] /\ Keyed(c) /\ d.episode_files # Unlisted
    IN /\ pc[c] = "load_info" /\ Keyed(c) => before[c] <= info[config]
       /\ pc[c] \in LoadingSteps \ {"load_info"} =>
             /\ d.info_fingerprint = before[c]
             /\ d.info \in seen[c].info
             /\ Keyed(c) => /\ d.info.store = config /\ d.info.generation \in Nat
                            /\ before[c] <= d.info.generation
                            /\ NotAhead(episodes[config], d) /\ RowsSince(met[config], config, d)
       /\ pc[c] = "load_files" => d.episodes = NoRows
       /\ pc[c] \in {"loaded_valid", "after", "publish"} => Whole(d)
       /\ pc[c] = "loaded_valid" /\ next[c] # 1 /\ listed =>
             Checked(met[config], seen[c].episodes, config, d, next[c])
       /\ pc[c] = "after" /\ listed =>
             Checked(met[config], seen[c].episodes, config, d, Files + 1)
       /\ pc[c] = "publish" /\ valid[c] /\ Keyed(c) =>
             EntryOK(met[config], config, d) /\ ListedSeen(seen[c].episodes, d)

\* The entry that the Get of the dataset returned.
GotInv(c) ==
    pc[c] \in {"got", "load_video", "compare"} \/ (pc[c] = "return" /\ call[c].phase = "only") =>
       /\ EntryOK(met[key[c]["dataset"]], key[c]["dataset"], dataset[c])
       /\ dataset[c].info \in seen[c].info
       /\ ListedSeen(seen[c].episodes, dataset[c])

\* The routes that are loaded between the two Gets of the dataset.
RoutesInv(c) ==
    LET v == video[c]
        s == key[c]["video"]
    IN pc[c] = "load_video" \/ (call[c].phase = "second" /\ pc[c] # "return") =>
          /\ pc[c] = "load_video" =>
                /\ v.episode_files = dataset[c].episode_files
                /\ dataset[c].episodes = NoRows => v.episodes = NoRows
          /\ pc[c] # "load_video" => Whole(v)
          /\ VideoKeyed(c) =>
                /\ v.info.store = s /\ v.info.generation \in Nat
                /\ v.info.generation = v.info_fingerprint
                /\ v.info \in seen[c].info
                /\ v.episode_files # Unlisted =>
                      /\ <<v.info.generation, v.episode_files>> \in met[s]
                      /\ [store |-> s, generation |-> v.episode_files] \in seen[c].episodes
                /\ RowsSince(met[s], s, v)

\* What the second Get of the dataset has found out about the routes.
SecondInv(c) ==
    LET s == key[c]["video"]
        d == dataset[c]
        v == video[c]
    IN call[c].phase = "second" /\ VideoKeyed(c) =>
          /\ pc[c] \in LoadingSteps => SameManifest(met[s], s, v, before[c])
          /\ pc[c] \in {"files_valid", "recheck"} /\ valid[c] =>
                SameManifest(met[s], s, v, d.info_fingerprint)
          /\ pc[c] = "compare" => SameManifest(met[s], s, v, d.info_fingerprint)
          /\ pc[c] = "files_valid" /\ valid[c] => SameFiles(d, v, next[c])
          /\ pc[c] = "load_files" => SameFiles(d, v, next[c])
          /\ pc[c] \in LoadingSteps \ {"load_info", "load_files"} => AllSame(d, v)
          /\ pc[c] = "recheck" /\ valid[c] => AllSame(d, v)
          /\ pc[c] = "compare" => AllSame(d, v)

ReturnInv(c) ==
    pc[c] = "return" /\ call[c].phase # "only" =>
       video[c].info \in seen[c].info /\ ListedSeen(seen[c].episodes, video[c])

ClientInv(c) ==
    /\ SeenInv(c) /\ KeysInv(c) /\ ListingInv(c) /\ CachedInv(c) /\ LoadingInv(c)
    /\ GotInv(c) /\ RoutesInv(c) /\ SecondInv(c) /\ ReturnInv(c)

IInv == Types /\ CacheInv /\ MetInv /\ \A c \in Clients : ClientInv(c)

\* The configuration never returns to one that a call under way has already met.
NoWayBack ==
    config' # config => \A c \in Busy : \A f \in seen[c].info : f.store # config'

-----------------------------------------------------------------------------
(* What follows from the types and the histories *)

\* The constants of the model have their types.
LEMMA NoEntryType == /\ NoFile \in FileState /\ NoEntry \in Entry /\ Nothing \in Moments
                     /\ (CHOOSE s \in Stores : TRUE) \in Stores /\ 1 \in EpisodeFiles
                     /\ NoEntry.episodes = NoRows /\ NoEntry.episode_files = Unlisted
                     /\ NoRows \in [EpisodeFiles -> FileState] /\ Unlisted \in Listing
                     /\ \A f \in EpisodeFiles : NoRows[f] = NoFile /\ Unlisted[f] = -1
<1>1. (CHOOSE s \in Stores : TRUE) \in Stores
  BY StoresAssumption
<1>2. NoFile \in FileState
  BY <1>1 DEF NoFile, FileState
<1>3. NoRows \in [EpisodeFiles -> FileState] /\ \A f \in EpisodeFiles : NoRows[f] = NoFile
  BY <1>2 DEF NoRows
<1>4. Unlisted \in Listing /\ \A f \in EpisodeFiles : Unlisted[f] = -1
  BY DEF Unlisted, Listing
<1>5. NoEntry \in Entry
  BY <1>2, <1>3, <1>4 DEF NoEntry, Entry
<1>6. 1 \in EpisodeFiles
  BY StoresAssumption DEF EpisodeFiles
<1>7. Nothing \in Moments
  BY DEF Nothing, Moments
<1> QED
  BY <1>1, <1>2, <1>3, <1>4, <1>5, <1>6, <1>7 DEF NoEntry

\* A file of the root as it is now.
LEMMA FileType ==
    ASSUME Types
    PROVE  /\ File(info) \in FileState /\ File(info).store = config /\ File(info).generation = info[config]
           /\ \A f \in FileState : f.store = config /\ f.generation = info[config] => f = File(info)
           /\ File(episodes) = [store |-> config, generation |-> episodes[config]]
           /\ File(episodes) \in [store : Stores, generation : Listing]
           /\ \A f \in EpisodeFiles :
                 /\ OneOf(File(episodes), f) \in FileState /\ OneOf(File(episodes), f) # NoFile
                 /\ OneOf(File(episodes), f).store = config
                 /\ OneOf(File(episodes), f).generation = episodes[config][f]
<1>1. /\ config \in Stores /\ info[config] \in Nat /\ episodes[config] \in [EpisodeFiles -> Nat]
  BY DEF Types
<1>2. /\ File(info) \in FileState /\ File(info).store = config /\ File(info).generation = info[config]
      /\ \A f \in FileState : f.store = config /\ f.generation = info[config] => f = File(info)
  BY <1>1 DEF File, FileState
<1>3. /\ File(episodes) = [store |-> config, generation |-> episodes[config]]
      /\ File(episodes) \in [store : Stores, generation : Listing]
  BY <1>1 DEF File, Listing
<1>4. ASSUME NEW f \in EpisodeFiles
      PROVE  /\ OneOf(File(episodes), f) \in FileState /\ OneOf(File(episodes), f) # NoFile
             /\ OneOf(File(episodes), f).store = config
             /\ OneOf(File(episodes), f).generation = episodes[config][f]
  <2>1. OneOf(File(episodes), f) = [store |-> config, generation |-> episodes[config][f]]
    BY <1>3 DEF OneOf
  <2>2. episodes[config][f] \in Nat
    BY <1>1
  <2> QED
    BY <1>1, <2>1, <2>2 DEF FileState, NoFile
<1> QED
  BY <1>2, <1>3, <1>4

\* The types of a client's locals.
LEMMA EntryType ==
    ASSUME NEW e \in Entry
    PROVE  /\ e.info \in FileState /\ e.info_fingerprint \in Int /\ e.info.generation \in Int
           /\ e.episodes \in [EpisodeFiles -> FileState] /\ e.episode_files \in Listing
           /\ \A f \in EpisodeFiles : /\ e.episodes[f] \in FileState /\ e.episodes[f].generation \in Int
                                      /\ e.episode_files[f] \in Int
BY DEF Entry, FileState, Listing

LEMMA LocalTypes ==
    ASSUME Types, NEW c \in Clients
    PROVE  /\ dataset[c] \in Entry /\ video[c] \in Entry
           /\ key[c]["dataset"] \in Stores /\ key[c]["video"] \in Stores
           /\ before[c] \in Int /\ valid[c] \in BOOLEAN /\ next[c] \in EpisodeFiles
           /\ call[c].phase \in {"only", "first", "second"}
           /\ seen[c] \in Moments
           /\ config \in Stores /\ info[config] \in Nat /\ episodes[config] \in [EpisodeFiles -> Nat]
BY DEF Types, Gets

LEMMA MetType ==
    ASSUME Types, NEW s \in Stores, NEW had \in met[s]
    PROVE  had[1] \in Nat /\ had[2] \in [EpisodeFiles -> Nat] /\ had = <<had[1], had[2]>>
BY DEF Types

\* What was read since the manifest was read, and the manifest is still the same.
LEMMA SinceIsWith ==
    ASSUME Types, MetInv, NEW s \in Stores, NEW f, NEW row, Since(met[s], s, info[s], f, row)
    PROVE  With(met[s], s, info[s], f, row)
<1>1. PICK had \in met[s] : info[s] <= had[1] /\ had[2][f] = row.generation
  BY DEF Since
<1>2. had[1] <= info[s] /\ had[1] \in Nat /\ info[s] \in Nat
  BY MetType DEF MetInv, Types
<1>3. had[1] = info[s]
  BY <1>1, <1>2
<1> QED
  BY <1>1, <1>3 DEF With, Since

\* A row was not read ahead of its file.
LEMMA RowNotAhead ==
    ASSUME Types, MetInv, NEW s \in Stores, NEW g, NEW f \in EpisodeFiles, NEW row,
           Since(met[s], s, g, f, row) \/ With(met[s], s, g, f, row)
    PROVE  row.generation \in Nat /\ row.generation <= episodes[s][f]
<1>1. PICK had \in met[s] : had[2][f] = row.generation
  BY DEF Since, With
<1>2. had[2] \in [EpisodeFiles -> Nat] /\ had[2][f] <= episodes[s][f]
  BY MetType DEF MetInv
<1> QED
  BY <1>1, <1>2

\* The manifest and the listing of an entry that may be kept are not ahead of the files.
LEMMA EntryNotAhead ==
    ASSUME Types, MetInv, NEW s \in Stores, NEW e \in Entry, EntryOK(met[s], s, e),
           e.episode_files # Unlisted
    PROVE  /\ e.info.generation <= info[s]
           /\ NotAhead(episodes[s], e)
           /\ \A f \in EpisodeFiles : e.episodes[f].generation = e.episode_files[f]
<1>1. <<e.info.generation, e.episode_files>> \in met[s] /\ Generations(e) = e.episode_files
  BY DEF EntryOK
<1>2. e.info.generation <= info[s] /\ \A f \in EpisodeFiles : e.episode_files[f] <= episodes[s][f]
  BY <1>1 DEF MetInv
<1>3. \A f \in EpisodeFiles : Generations(e)[f] = e.episodes[f].generation
  BY DEF Generations
<1> QED
  BY <1>1, <1>2, <1>3 DEF NotAhead

\* All rows of a whole entry with rows, or with a listing, are read.
LEMMA WholeRead ==
    ASSUME NEW e \in Entry, Whole(e), e.episodes # NoRows \/ e.episode_files # Unlisted
    PROVE  \A f \in EpisodeFiles : e.episodes[f] # NoFile
BY DEF Whole, Unread

\* The comparison of a listing begins.
LEMMA CheckBegins ==
    ASSUME Types, MetInv, NEW c \in Clients, pc[c] # "idle", SeenInv(c), NEW e,
           e.info.generation <= info[config],
           \A f \in EpisodeFiles : /\ e.episode_files[f] <= e.episodes[f].generation
                                   /\ e.episodes[f].generation <= episodes[config][f]
    PROVE  Checked(met[config], seen[c].episodes, config, e, 1)
<1> DEFINE now == <<info[config], episodes[config]>>
<1>1. now \in met[config] /\ now[1] = info[config] /\ now[2] = episodes[config]
  BY DEF MetInv, Types
<1>2. [store |-> config, generation |-> now[2]] \in seen[c].episodes
  BY <1>1, FileType DEF SeenInv
<1>3. \A f \in EpisodeFiles : ~(f < 1)
  BY DEF EpisodeFiles
<1> HIDE DEF now
<1> QED
  BY <1>1, <1>2, <1>3 DEF Checked

\* It goes on with a file that is as listed: so it was when the comparison began.
LEMMA CheckGoesOn ==
    ASSUME Types, MetInv, NEW moments, NEW e \in Entry, NEW n \in EpisodeFiles,
           Checked(met[config], moments, config, e, n), e.episode_files[n] = episodes[config][n]
    PROVE  Checked(met[config], moments, config, e, n + 1)
<1>1. config \in Stores /\ \A f \in EpisodeFiles : f \in Int /\ (f < n + 1 => f < n \/ f = n)
  BY DEF Types, EpisodeFiles
<1>2. PICK had \in met[config] :
         /\ e.info.generation <= had[1]
         /\ [store |-> config, generation |-> had[2]] \in moments
         /\ \A f \in EpisodeFiles :
               /\ e.episode_files[f] <= e.episodes[f].generation
               /\ e.episodes[f].generation <= had[2][f]
               /\ f < n => had[2][f] = e.episode_files[f]
  BY DEF Checked
<1>3. had[2][n] = e.episode_files[n]
  <2>1. had[2][n] \in Int /\ e.episode_files[n] \in Int /\ e.episodes[n].generation \in Int
    BY <1>1, MetType, EntryType
  <2>2. had[2][n] <= episodes[config][n]
    BY <1>1 DEF MetInv
  <2> QED
    BY <1>2, <2>1, <2>2
<1> QED
  BY <1>1, <1>2, <1>3 DEF Checked

\* At its end the root had had all of the listed files at one moment of the call.
LEMMA CheckEnds ==
    ASSUME Types, NEW s \in Stores, NEW moments, NEW e \in Entry,
           Checked(met[s], moments, s, e, Files + 1),
           \A f \in EpisodeFiles : e.episodes[f].store = s
    PROVE  /\ Generations(e) = e.episode_files
           /\ ListedSeen(moments, e)
           /\ \E had \in met[s] : had[2] = e.episode_files /\ e.info.generation <= had[1]
<1>1. PICK had \in met[s] :
         /\ e.info.generation <= had[1]
         /\ [store |-> s, generation |-> had[2]] \in moments
         /\ \A f \in EpisodeFiles :
               /\ e.episode_files[f] <= e.episodes[f].generation
               /\ e.episodes[f].generation <= had[2][f]
               /\ f < Files + 1 => had[2][f] = e.episode_files[f]
  BY DEF Checked
<1>2. \A f \in EpisodeFiles : f < Files + 1
  BY StoresAssumption DEF EpisodeFiles
<1>3. ASSUME NEW f \in EpisodeFiles
      PROVE  had[2][f] = e.episode_files[f] /\ e.episodes[f].generation = e.episode_files[f]
  <2>1. e.episode_files[f] \in Int /\ e.episodes[f].generation \in Int
    BY EntryType
  <2> QED
    BY <1>1, <1>2, <2>1
<1>4. had[2] = e.episode_files
  BY <1>3, MetType, EntryType DEF Listing
<1>5. Generations(e) = e.episode_files
  BY <1>3, EntryType DEF Generations, Listing
<1>6. e.episodes = RowsOf([store |-> s, generation |-> had[2]])
  <2>1. ASSUME NEW f \in EpisodeFiles
        PROVE  e.episodes[f] = [store |-> s, generation |-> had[2][f]]
    BY <1>3, EntryType DEF FileState
  <2> QED
    BY <2>1, EntryType DEF RowsOf, OneOf
<1> QED
  BY <1>1, <1>4, <1>5, <1>6 DEF ListedSeen

\* A listing goes on to the next file, or is complete.
LEMMA VisitIs ==
    ASSUME Types, NEW c \in Clients, NEW then, Visit(c, then)
    PROVE  /\ next'[c] = IF next[c] = Files THEN 1 ELSE next[c] + 1
           /\ pc'[c] = IF next[c] = Files THEN then ELSE pc[c]
           /\ next' \in [Clients -> EpisodeFiles] /\ next[c] + 1 # 1
           /\ \A x \in Clients \ {c} : pc'[x] = pc[x] /\ next'[x] = next[x]
<1>1. next[c] \in 1..Files /\ Files \in Nat \ {0}
  BY StoresAssumption DEF Types, EpisodeFiles
<1>2. (IF next[c] = Files THEN 1 ELSE next[c] + 1) \in EpisodeFiles /\ next[c] + 1 # 1
  BY <1>1 DEF EpisodeFiles
<1> QED
  BY <1>2 DEF Visit, Goto, Types

-----------------------------------------------------------------------------
(* Steps of one client *)

\* The locals of the others stay.
OthersKept(c) ==
    \A x \in Clients \ {c} :
       /\ pc'[x] = pc[x] /\ call'[x] = call[x] /\ key'[x] = key[x] /\ before'[x] = before[x]
       /\ valid'[x] = valid[x] /\ next'[x] = next[x] /\ dataset'[x] = dataset[x]
       /\ video'[x] = video[x] /\ seen'[x] = seen[x]

LEMMA WorldIs ==
    ASSUME UNCHANGED world
    PROVE  /\ config' = config /\ info' = info /\ episodes' = episodes /\ met' = met
           /\ File(info)' = File(info) /\ File(episodes)' = File(episodes)
BY DEF world, File

\* What a client has is kept with its locals.
LEMMA Untouched ==
    ASSUME UNCHANGED world, NEW c \in Clients, ClientInv(c),
           pc'[c] = pc[c], call'[c] = call[c], key'[c] = key[c], before'[c] = before[c],
           valid'[c] = valid[c], next'[c] = next[c], dataset'[c] = dataset[c],
           video'[c] = video[c], seen'[c] = seen[c]
    PROVE  ClientInv(c)'
<1>1. SeenInv(c)' /\ KeysInv(c)' /\ ListingInv(c)'
  BY WorldIs DEF ClientInv, SeenInv, KeysInv, ListingInv, Keyed, VideoKeyed
<1>2. CachedInv(c)' /\ LoadingInv(c)'
  BY WorldIs DEF ClientInv, CachedInv, LoadingInv, Keyed
<1>3. GotInv(c)' /\ RoutesInv(c)'
  BY WorldIs DEF ClientInv, GotInv, RoutesInv, VideoKeyed
<1>4. SecondInv(c)' /\ ReturnInv(c)'
  BY WorldIs DEF ClientInv, SecondInv, ReturnInv, VideoKeyed
<1> QED
  BY <1>1, <1>2, <1>3, <1>4 DEF ClientInv

\* A client's step does not touch what holds of the others.
LEMMA LocalStep ==
    ASSUME IInv, Types', NEW c \in Clients, UNCHANGED world, OthersKept(c), CacheInv', ClientInv(c)'
    PROVE  IInv'
<1>1. MetInv'
  BY WorldIs DEF IInv, MetInv
<1>2. ASSUME NEW x \in Clients, x # c PROVE ClientInv(x)'
  BY <1>2, Untouched DEF OthersKept, IInv
<1> QED
  BY <1>1, <1>2 DEF IInv

\* The steps of a Get of the dataset leave everything alone but the entry they read or load.
LEMMA GetStep ==
    ASSUME IInv, Types', NEW c \in Clients, UNCHANGED world, OthersKept(c), CacheInv',
           pc[c] \in GetSteps, pc'[c] \in GetSteps,
           key'[c] = key[c], call'[c] = call[c], video'[c] = video[c], seen'[c] = seen[c],
           ListingInv(c)', CachedInv(c)', LoadingInv(c)', SecondInv(c)'
    PROVE  IInv'
<1> USE DEF GetSteps, CachedSteps, LoadingSteps
<1>1. ClientInv(c)
  BY DEF IInv
<1>2. SeenInv(c)'
  BY <1>1, WorldIs DEF ClientInv, SeenInv
<1>3. KeysInv(c)'
  BY <1>1, WorldIs DEF ClientInv, KeysInv, Keyed, VideoKeyed
<1>4. RoutesInv(c)'
  BY <1>1, WorldIs DEF ClientInv, RoutesInv, VideoKeyed
<1>5. GotInv(c)' /\ ReturnInv(c)'
  BY DEF GotInv, ReturnInv
<1> QED
  BY <1>2, <1>3, <1>4, <1>5, LocalStep DEF ClientInv

LEMMA CacheKept == ASSUME IInv, UNCHANGED world, UNCHANGED cache PROVE CacheInv'
BY WorldIs DEF IInv, CacheInv, cache

\* What the invariant says of the root and of one client.
LEMMA Facts ==
    ASSUME IInv, NEW c \in Clients
    PROVE  /\ Types /\ CacheInv /\ MetInv
           /\ SeenInv(c) /\ KeysInv(c) /\ ListingInv(c) /\ CachedInv(c) /\ LoadingInv(c)
           /\ GotInv(c) /\ RoutesInv(c) /\ SecondInv(c) /\ ReturnInv(c)
BY DEF IInv, ClientInv

\* What is read when the manifest has not changed since the routes were read was already so when
\* they were read; so is a file that is listed as it was before they were read.
LEMMA RoutesMeet ==
    ASSUME IInv, NEW c \in Clients, call[c].phase = "second", pc[c] \in GetSteps, VideoKeyed(c)
    PROVE  /\ SameManifest(met[config], config, video[c], info[config])
           /\ key[c]["video"] = config
           /\ \A f \in EpisodeFiles :
                 video[c].episode_files # Unlisted /\ video[c].episode_files[f] = episodes[config][f] =>
                    video[c].episodes[f].generation = video[c].episode_files[f]
<1> DEFINE v == video[c]
<1>1. /\ Types /\ MetInv /\ config \in Stores /\ v \in Entry
      /\ Whole(v) /\ v.info.generation = v.info_fingerprint /\ RowsSince(met[config], config, v)
      /\ key[c]["video"] = config
  BY Facts, LocalTypes DEF RoutesInv, VideoKeyed, GetSteps, CachedSteps, LoadingSteps
<1> HIDE DEF v
<1>2. ASSUME info[config] = v.info_fingerprint, v.episodes # NoRows, NEW f \in EpisodeFiles
      PROVE  With(met[config], config, v.info.generation, f, v.episodes[f])
  BY <1>1, <1>2, WholeRead, SinceIsWith DEF RowsSince
<1>3. ASSUME v.episode_files # Unlisted, NEW f \in EpisodeFiles, v.episode_files[f] = episodes[config][f]
      PROVE  v.episodes[f].generation = v.episode_files[f]
  <2>1. /\ Since(met[config], config, v.info.generation, f, v.episodes[f])
        /\ v.episode_files[f] <= v.episodes[f].generation
    BY <1>1, <1>3, WholeRead DEF RowsSince
  <2>2. v.episodes[f].generation <= episodes[config][f]
    BY <1>1, <2>1, RowNotAhead
  <2>3. v.episodes[f].generation \in Int /\ v.episode_files[f] \in Int
    BY <1>1, EntryType
  <2> QED
    BY <1>3, <2>1, <2>2, <2>3
<1>4. SameManifest(met[config], config, v, info[config])
  BY <1>2 DEF SameManifest
<1> QED
  BY <1>1, <1>3, <1>4 DEF v

\* The key is the configuration.
LEMMA KeyStep == ASSUME IInv, NEW c \in Clients, Key(c) PROVE IInv'
<1>1. /\ pc[c] = "key" /\ pc'[c] \in {"invalidate", "cached"}
      /\ key'[c] = [key[c] EXCEPT !["dataset"] = config]
      /\ call'[c] = call[c] /\ before'[c] = before[c] /\ valid'[c] = valid[c] /\ next'[c] = next[c]
      /\ dataset'[c] = dataset[c] /\ video'[c] = video[c] /\ seen'[c] = seen[c]
      /\ UNCHANGED world /\ UNCHANGED cache /\ OthersKept(c)
  BY DEF Key, Goto, OthersKept, IInv, Types
<1>2. Types'
  BY DEF Key, Goto, IInv, Types, world, cache, Steps, GetSteps, Gets
<1>3. key'[c]["dataset"] = config /\ key'[c]["video"] = key[c]["video"] /\ config \in Stores
  BY <1>1 DEF IInv, Types, Gets
<1>4. SeenInv(c)' /\ ListingInv(c)'
  BY <1>1, Facts, WorldIs DEF SeenInv, ListingInv
<1>5. KeysInv(c)'
  <2>1. File(info) \in seen[c].info /\ File(info).store = config
    BY <1>1, Facts, FileType DEF SeenInv
  <2> QED
    BY <1>1, <1>3, <2>1, Facts, WorldIs DEF KeysInv, Keyed, VideoKeyed
<1>6. CachedInv(c)' /\ LoadingInv(c)' /\ GotInv(c)' /\ ReturnInv(c)'
  BY <1>1 DEF CachedInv, LoadingInv, GotInv, ReturnInv, CachedSteps, LoadingSteps
<1>7. RoutesInv(c)'
  BY <1>1, <1>3, Facts, WorldIs DEF RoutesInv, VideoKeyed
<1>8. SecondInv(c)'
  BY <1>1 DEF SecondInv, LoadingSteps
<1> QED
  BY <1>1, <1>2, <1>4, <1>5, <1>6, <1>7, <1>8, CacheKept, LocalStep DEF ClientInv

\* A call begins: it has seen what the root is now.
LEMMA BeginStep ==
    ASSUME IInv, NEW c \in Clients, BeginDataset(c) \/ BeginVideo(c)
    PROVE  IInv'
<1>1. PICK r \in Refreshing, p \in {"only", "first"} :
         call' = [call EXCEPT ![c] = [refresh |-> r, phase |-> p]]
         /\ (p = "only" => pc' = [pc EXCEPT ![c] = "key"])
         /\ (p = "first" => pc' = [pc EXCEPT ![c] = "video_key"])
  BY DEF BeginDataset, BeginVideo, Goto
<1>2. /\ pc[c] = "idle" /\ UNCHANGED <<attempt, key, before, valid, next, dataset, video>>
      /\ seen' = [seen EXCEPT ![c] = [info |-> {File(info)}, episodes |-> {File(episodes)}]]
      /\ UNCHANGED world /\ UNCHANGED cache
  BY DEF BeginDataset, BeginVideo
<1>3. /\ seen'[c] = [info |-> {File(info)}, episodes |-> {File(episodes)}]
      /\ \/ call'[c].phase = "only" /\ pc'[c] = "key"
         \/ call'[c].phase = "first" /\ pc'[c] = "video_key"
      /\ OthersKept(c)
  BY <1>1, <1>2 DEF IInv, Types, OthersKept
<1>4. Types'
  <2>1. Types
    BY DEF IInv
  <2>2. call' \in [Clients -> [refresh : BOOLEAN, phase : {"only", "first", "second"}]]
    BY <1>1, <2>1, StoresAssumption DEF Types
  <2>3. [info |-> {File(info)}, episodes |-> {File(episodes)}] \in Moments
    BY <2>1, FileType DEF Moments
  <2>4. seen' \in [Clients -> Moments]
    BY <1>2, <2>1, <2>3 DEF Types
  <2>5. pc' \in [Clients -> Steps]
    BY <1>1, <2>1 DEF Types, Steps
  <2> QED
    BY <1>2, <2>1, <2>2, <2>4, <2>5 DEF Types, world, cache
<1>5. SeenInv(c)'
  <2>1. File(info).generation <= info[File(info).store] /\ info[config] \in Nat
    BY Facts, FileType, LocalTypes
  <2> QED
    BY <1>2, <1>3, <2>1, WorldIs DEF SeenInv
<1>6. KeysInv(c)' /\ ListingInv(c)'
  BY <1>2, <1>3, Facts, WorldIs DEF KeysInv, ListingInv, Keyed, VideoKeyed
<1>7. CachedInv(c)' /\ LoadingInv(c)' /\ GotInv(c)' /\ RoutesInv(c)' /\ SecondInv(c)' /\ ReturnInv(c)'
  BY <1>3 DEF CachedInv, LoadingInv, GotInv, RoutesInv, SecondInv, ReturnInv, CachedSteps, LoadingSteps
<1> QED
  BY <1>2, <1>3, <1>4, <1>5, <1>6, <1>7, CacheKept, LocalStep DEF ClientInv

\* The entry of the cache is one that may be kept.
LEMMA CachedStep == ASSUME IInv, NEW c \in Clients, Cached(c) PROVE IInv'
<1>1. /\ pc[c] = "cached" /\ pc'[c] \in {"before", "info_valid"}
      /\ dataset'[c] = datasets[key[c]["dataset"]]
      /\ pc'[c] = "info_valid" => dataset'[c] # NoEntry
      /\ call'[c] = call[c] /\ key'[c] = key[c] /\ next'[c] = next[c]
      /\ video'[c] = video[c] /\ seen'[c] = seen[c]
      /\ UNCHANGED world /\ UNCHANGED cache /\ OthersKept(c)
  BY DEF Cached, Goto, OthersKept, IInv, Types
<1>2. Types'
  BY LocalTypes DEF Cached, Goto, IInv, Types, world, cache, Steps, GetSteps, CachedSteps
<1>3. ListingInv(c)'
  BY <1>1, Facts DEF ListingInv
<1>4. CachedInv(c)'
  <2>1. pc'[c] = "info_valid" => EntryOK(met[key[c]["dataset"]], key[c]["dataset"], dataset'[c])
    BY <1>1, Facts, LocalTypes DEF CacheInv
  <2> QED
    BY <1>1, <2>1, WorldIs DEF CachedInv, CachedSteps
<1>5. LoadingInv(c)' /\ SecondInv(c)'
  BY <1>1 DEF LoadingInv, SecondInv, LoadingSteps
<1> QED
  BY <1>1, <1>2, <1>3, <1>4, <1>5, CacheKept, GetStep DEF GetSteps, CachedSteps

\* Entries that are dropped need nothing.
LEMMA InvalidateStep == ASSUME IInv, NEW c \in Clients, Invalidate(c) PROVE IInv'
<1>1. /\ pc[c] = "invalidate" /\ pc'[c] = "before" /\ call'[c] = call[c] /\ key'[c] = key[c]
      /\ next'[c] = next[c] /\ video'[c] = video[c] /\ seen'[c] = seen[c]
      /\ OthersKept(c) /\ UNCHANGED world
  BY DEF Invalidate, Goto, OthersKept, IInv, Types
<1>2. Types'
  <2>1. datasets' \in [Stores -> Entry] /\ videos' \in [Stores -> Entry]
    BY NoEntryType DEF Invalidate, IInv, Types
  <2> QED
    BY <2>1 DEF Invalidate, Goto, IInv, Types, world, Steps, GetSteps
<1>3. CacheInv'
  BY <1>1, WorldIs DEF Invalidate, IInv, Types, CacheInv
<1>4. ListingInv(c)' /\ CachedInv(c)' /\ LoadingInv(c)' /\ SecondInv(c)'
  BY <1>1, Facts DEF ListingInv, CachedInv, LoadingInv, SecondInv, CachedSteps, LoadingSteps
<1> QED
  BY <1>1, <1>2, <1>3, <1>4, GetStep DEF GetSteps

\* A manifest that passes for valid is the one of now.
LEMMA InfoValidStep == ASSUME IInv, NEW c \in Clients, InfoValid(c) PROVE IInv'
<1>1. /\ pc[c] = "info_valid" /\ pc'[c] \in {"files_valid", "recheck"}
      /\ valid'[c] => dataset[c].info_fingerprint = info[config]
      /\ pc'[c] = "files_valid" => valid'[c] /\ dataset[c].episode_files # Unlisted
      /\ pc'[c] = "recheck" /\ valid'[c] => dataset[c].episode_files = Unlisted
      /\ call'[c] = call[c] /\ key'[c] = key[c] /\ before'[c] = before[c] /\ next'[c] = next[c]
      /\ dataset'[c] = dataset[c] /\ video'[c] = video[c] /\ seen'[c] = seen[c]
      /\ UNCHANGED world /\ UNCHANGED cache /\ OthersKept(c)
  BY DEF InfoValid, Goto, OthersKept, IInv, Types
<1>2. Types'
  BY DEF InfoValid, Goto, IInv, Types, world, cache, Steps, GetSteps, CachedSteps
<1>3. next[c] = 1
  BY <1>1, Facts DEF ListingInv
<1>4. ListingInv(c)'
  BY <1>1, <1>3 DEF ListingInv
<1>5. CachedInv(c)'
  <2>1. EntryOK(met[key[c]["dataset"]], key[c]["dataset"], dataset[c])
    BY <1>1, Facts DEF CachedInv, CachedSteps
  <2>2. ASSUME valid'[c], Keyed(c) PROVE dataset[c].info \in seen[c].info
    <3>1. dataset[c].info \in FileState
      BY Facts, LocalTypes, EntryType
    <3>2. dataset[c].info = File(info)
      BY <1>1, <2>1, <2>2, <3>1, Facts, FileType DEF EntryOK, Keyed
    <3> QED
      BY <1>1, <3>2, Facts DEF SeenInv
  <2>3. pc'[c] = "recheck" /\ valid'[c] => ListedSeen(seen[c].episodes, dataset[c])
    BY <1>1 DEF ListedSeen
  <2> QED
    BY <1>1, <1>3, <2>1, <2>2, <2>3, WorldIs DEF CachedInv, Keyed
<1>6. LoadingInv(c)'
  BY <1>1 DEF LoadingInv, LoadingSteps
<1>7. SecondInv(c)'
  <2>1. ASSUME call[c].phase = "second", VideoKeyed(c), valid'[c]
        PROVE  SameManifest(met[key[c]["video"]], key[c]["video"], video[c], dataset[c].info_fingerprint)
    BY <1>1, <2>1, RoutesMeet DEF GetSteps, CachedSteps
  <2>2. SameFiles(dataset[c], video[c], 1)
    BY DEF SameFiles, EpisodeFiles
  <2>3. pc'[c] = "recheck" /\ valid'[c] => AllSame(dataset[c], video[c])
    BY <1>1 DEF AllSame
  <2> QED
    BY <1>1, <1>3, <2>1, <2>2, <2>3, WorldIs DEF SecondInv, VideoKeyed, LoadingSteps
<1> QED
  BY <1>1, <1>2, <1>4, <1>5, <1>6, <1>7, CacheKept, GetStep DEF GetSteps, CachedSteps

\* So are the files that pass, since the comparison began.
LEMMA FilesValidStep == ASSUME IInv, NEW c \in Clients, FilesValid(c) PROVE IInv'
<1> DEFINE d == dataset[c]
           s == key[c]["dataset"]
<1>1. /\ pc[c] = "files_valid" /\ FilesAreValid(c, "recheck") /\ Visit(c, "recheck")
      /\ valid'[c] => /\ next[c] = 1 \/ valid[c]
                      /\ d.episode_files[next[c]] = episodes[config][next[c]]
      /\ call'[c] = call[c] /\ key'[c] = key[c] /\ before'[c] = before[c]
      /\ dataset'[c] = d /\ video'[c] = video[c] /\ seen'[c] = seen[c]
      /\ UNCHANGED world /\ UNCHANGED cache
  BY DEF FilesValid, IInv, Types, FilesAreValid
<1>2. /\ pc'[c] = IF next[c] = Files THEN "recheck" ELSE "files_valid"
      /\ next'[c] = IF next[c] = Files THEN 1 ELSE next[c] + 1
      /\ next' \in [Clients -> EpisodeFiles] /\ next[c] + 1 # 1 /\ OthersKept(c)
  BY <1>1, Facts, VisitIs DEF FilesValid, FilesAreValid, OthersKept, Types
<1>3. Types'
  BY <1>2 DEF FilesValid, FilesAreValid, Visit, Goto, IInv, Types, world, cache, Steps, GetSteps,
     CachedSteps
<1>4. ListingInv(c)'
  BY <1>1, <1>2 DEF ListingInv
<1>5. /\ d \in Entry /\ EntryOK(met[s], s, d) /\ d.episode_files # Unlisted
      /\ next[c] = 1 => valid[c]
      /\ valid[c] /\ Keyed(c) => d.info \in seen[c].info
  BY <1>1, Facts, LocalTypes DEF CachedInv, CachedSteps
<1>6. ASSUME valid'[c], Keyed(c)
      PROVE  Checked(met[config], seen[c].episodes, config, d, next[c] + 1)
  <2>1. s = config /\ config \in Stores /\ next[c] \in EpisodeFiles /\ Types /\ MetInv /\ SeenInv(c)
    BY <1>6, Facts, LocalTypes DEF Keyed
  <2>2. CASE next[c] = 1
    <3>1. /\ d.info.generation <= info[config] /\ NotAhead(episodes[config], d)
          /\ \A f \in EpisodeFiles : /\ d.episodes[f].generation = d.episode_files[f]
                                     /\ d.episode_files[f] \in Int
      BY <1>5, <2>1, EntryNotAhead, EntryType
    <3>2. \A f \in EpisodeFiles : /\ d.episode_files[f] <= d.episodes[f].generation
                                  /\ d.episodes[f].generation <= episodes[config][f]
      BY <3>1 DEF NotAhead
    <3>3. Checked(met[config], seen[c].episodes, config, d, 1)
      BY <1>1, <2>1, <3>1, <3>2, CheckBegins
    <3> QED
      BY <1>1, <1>5, <1>6, <2>1, <2>2, <3>3, CheckGoesOn
  <2>3. CASE next[c] # 1
    <3>1. Checked(met[config], seen[c].episodes, config, d, next[c])
      BY <1>1, <1>6, <2>3, Facts DEF CachedInv, CachedSteps
    <3> QED
      BY <1>1, <1>5, <1>6, <2>1, <3>1, CheckGoesOn
  <2> QED
    BY <2>2, <2>3
<1>7. ASSUME valid'[c], Keyed(c), next[c] = Files PROVE ListedSeen(seen[c].episodes, d)
  <2>1. s = config /\ config \in Stores /\ Types
    BY <1>7, Facts, LocalTypes DEF Keyed
  <2>2. \A f \in EpisodeFiles : d.episodes[f].store = config
    BY <1>5, <2>1 DEF EntryOK, With
  <2> QED
    BY <1>5, <1>6, <1>7, <2>1, <2>2, CheckEnds
<1>8. valid'[c] => valid[c]
  BY <1>1, <1>5
<1>9. CachedInv(c)'
  BY <1>1, <1>2, <1>5, <1>6, <1>7, <1>8, WorldIs DEF CachedInv, CachedSteps, Keyed
<1>10. LoadingInv(c)'
  BY <1>1, <1>2 DEF LoadingInv, LoadingSteps
<1>11. SecondInv(c)'
  <2>1. ASSUME call[c].phase = "second", VideoKeyed(c), valid'[c]
        PROVE  SameFiles(d, video[c], next[c] + 1)
    <3>1. SameFiles(d, video[c], next[c])
      BY <1>1, <1>8, <2>1, Facts DEF SecondInv
    <3>2. \A f \in EpisodeFiles : f \in Int /\ next[c] \in Int /\ (f < next[c] + 1 => f < next[c] \/ f = next[c])
      BY Facts, LocalTypes DEF EpisodeFiles
    <3>3. /\ d.episode_files[next[c]] = episodes[config][next[c]] /\ next[c] \in EpisodeFiles
          /\ \A f \in EpisodeFiles :
                video[c].episode_files # Unlisted /\ video[c].episode_files[f] = episodes[config][f] =>
                   video[c].episodes[f].generation = video[c].episode_files[f]
      BY <1>1, <2>1, Facts, LocalTypes, RoutesMeet DEF GetSteps, CachedSteps
    <3> QED
      BY <3>1, <3>2, <3>3 DEF SameFiles
  <2>2. ASSUME call[c].phase = "second", VideoKeyed(c), valid'[c]
        PROVE  SameManifest(met[key[c]["video"]], key[c]["video"], video[c], d.info_fingerprint)
    BY <1>1, <1>8, <2>2, Facts DEF SecondInv
  <2> QED
    BY <1>1, <1>2, <2>1, <2>2, WorldIs DEF SecondInv, AllSame, VideoKeyed, LoadingSteps
<1> QED
  BY <1>1, <1>2, <1>3, <1>4, <1>9, <1>10, <1>11, CacheKept, GetStep DEF GetSteps, CachedSteps

\* The fingerprint is read before the manifest.
LEMMA BeforeStep == ASSUME IInv, NEW c \in Clients, Before(c) PROVE IInv'
<1>1. /\ pc[c] = "before" /\ pc'[c] = "load_info" /\ before'[c] = info[config]
      /\ call'[c] = call[c] /\ key'[c] = key[c] /\ next'[c] = next[c]
      /\ video'[c] = video[c] /\ seen'[c] = seen[c]
      /\ UNCHANGED world /\ UNCHANGED cache /\ OthersKept(c)
  BY DEF Before, Goto, OthersKept, IInv, Types
<1>2. info[config] \in Nat
  BY Facts, LocalTypes
<1>3. Types'
  BY <1>2 DEF Before, Goto, IInv, Types, world, cache, Steps, GetSteps, LoadingSteps
<1>4. ListingInv(c)' /\ CachedInv(c)'
  BY <1>1, Facts DEF ListingInv, CachedInv, CachedSteps
<1>5. LoadingInv(c)'
  BY <1>1, <1>2, WorldIs DEF LoadingInv
<1>6. SecondInv(c)'
  <2>1. ASSUME call[c].phase = "second", VideoKeyed(c)
        PROVE  SameManifest(met[key[c]["video"]], key[c]["video"], video[c], before'[c])
    BY <1>1, <2>1, RoutesMeet DEF GetSteps
  <2> QED
    BY <1>1, <2>1, WorldIs DEF SecondInv, VideoKeyed
<1> QED
  BY <1>1, <1>3, <1>4, <1>5, <1>6, CacheKept, GetStep DEF GetSteps, LoadingSteps

\* The manifest is of the generation of the fingerprint or a later one.
LEMMA LoadInfoStep == ASSUME IInv, NEW c \in Clients, LoadInfo(c) PROVE IInv'
<1> DEFINE d == [NoEntry EXCEPT !.info = File(info), !.info_fingerprint = before[c]]
<1>1. /\ pc[c] = "load_info" /\ pc'[c] \in {"loaded_valid", "load_files", "load_episodes"}
      /\ dataset'[c] = d
      /\ call'[c] = call[c] /\ key'[c] = key[c] /\ before'[c] = before[c] /\ next'[c] = next[c]
      /\ video'[c] = video[c] /\ seen'[c] = seen[c]
      /\ UNCHANGED world /\ UNCHANGED cache /\ OthersKept(c)
  BY DEF LoadInfo, Goto, OthersKept, IInv, Types
<1>2. /\ d \in Entry /\ d.info = File(info) /\ d.info_fingerprint = before[c]
      /\ d.episodes = NoRows /\ d.episode_files = Unlisted
  BY Facts, FileType, LocalTypes, NoEntryType DEF NoEntry, Entry
<1>3. Types'
  <2>1. dataset' \in [Clients -> Entry]
    BY <1>2 DEF LoadInfo, IInv, Types
  <2> QED
    BY <2>1 DEF LoadInfo, Goto, IInv, Types, world, cache, Steps, GetSteps, LoadingSteps
<1> HIDE DEF d
<1>4. next[c] = 1
  BY <1>1, Facts DEF ListingInv
<1>5. ListingInv(c)' /\ CachedInv(c)'
  BY <1>1, <1>4 DEF ListingInv, CachedInv, CachedSteps
<1>6. LoadingInv(c)'
  <2>1. File(info) \in seen[c].info /\ File(info).store = config /\ File(info).generation = info[config]
    BY <1>1, Facts, FileType DEF SeenInv
  <2>2. /\ info[config] \in Nat /\ episodes[config] \in [EpisodeFiles -> Nat]
        /\ Keyed(c) => before[c] <= info[config]
    BY <1>1, Facts, LocalTypes DEF LoadingInv
  <2>3. NotAhead(episodes[config], d)
    BY <1>2, <2>2, NoEntryType DEF NotAhead
  <2>4. RowsSince(met[config], config, d)
    BY <1>2, NoEntryType DEF RowsSince
  <2>5. Whole(d)
    BY <1>2 DEF Whole
  <2> QED
    BY <1>1, <1>2, <1>4, <2>1, <2>2, <2>3, <2>4, <2>5, WorldIs DEF LoadingInv, Keyed
<1>7. SecondInv(c)'
  <2>1. AllSame(d, video[c])
    BY <1>2 DEF AllSame
  <2>2. SameFiles(d, video[c], 1)
    BY DEF SameFiles, EpisodeFiles
  <2> QED
    BY <1>1, <1>4, <2>1, <2>2, Facts, WorldIs DEF SecondInv, VideoKeyed, LoadingSteps
<1> QED
  BY <1>1, <1>3, <1>5, <1>6, <1>7, CacheKept, GetStep DEF GetSteps, LoadingSteps

\* The episode files are listed before they are read.
LEMMA LoadFilesStep == ASSUME IInv, NEW c \in Clients, LoadFiles(c) PROVE IInv'
<1> DEFINE o == dataset[c]
           d == [o EXCEPT !.episode_files[next[c]] = episodes[config][next[c]]]
<1>1. /\ pc[c] = "load_files" /\ Visit(c, "load_episodes") /\ dataset'[c] = d
      /\ call'[c] = call[c] /\ key'[c] = key[c] /\ before'[c] = before[c] /\ valid'[c] = valid[c]
      /\ video'[c] = video[c] /\ seen'[c] = seen[c]
      /\ UNCHANGED world /\ UNCHANGED cache
  BY DEF LoadFiles, IInv, Types
<1>2. /\ pc'[c] = IF next[c] = Files THEN "load_episodes" ELSE "load_files"
      /\ next'[c] = IF next[c] = Files THEN 1 ELSE next[c] + 1
      /\ next' \in [Clients -> EpisodeFiles] /\ OthersKept(c)
  BY <1>1, Facts, VisitIs DEF LoadFiles, OthersKept, Types
<1>3. /\ o \in Entry /\ next[c] \in EpisodeFiles /\ episodes[config] \in [EpisodeFiles -> Nat]
  BY Facts, LocalTypes
<1>4. /\ d \in Entry /\ d.info = o.info /\ d.info_fingerprint = o.info_fingerprint
      /\ d.episodes = o.episodes
      /\ \A f \in EpisodeFiles :
            d.episode_files[f] = IF f = next[c] THEN episodes[config][f] ELSE o.episode_files[f]
  BY <1>3 DEF Entry, Listing
<1>5. Types'
  <2>1. dataset' \in [Clients -> Entry]
    BY <1>4 DEF LoadFiles, IInv, Types
  <2> QED
    BY <1>2, <2>1 DEF LoadFiles, Visit, Goto, IInv, Types, world, cache, Steps, GetSteps, LoadingSteps
<1> HIDE DEF d
<1>6. ListingInv(c)' /\ CachedInv(c)'
  BY <1>1, <1>2 DEF ListingInv, CachedInv, CachedSteps
<1>7. LoadingInv(c)'
  <2>1. /\ o.info_fingerprint = before[c] /\ o.info \in seen[c].info /\ o.episodes = NoRows
        /\ Keyed(c) => /\ o.info.store = config /\ o.info.generation \in Nat
                       /\ before[c] <= o.info.generation /\ NotAhead(episodes[config], o)
    BY <1>1, Facts DEF LoadingInv, LoadingSteps
  <2>2. Keyed(c) => NotAhead(episodes[config], d)
    BY <1>3, <1>4, <2>1 DEF NotAhead
  <2>3. RowsSince(met[config], config, d)
    BY <1>4, <2>1, NoEntryType DEF RowsSince
  <2> QED
    BY <1>1, <1>2, <1>4, <2>1, <2>2, <2>3, WorldIs DEF LoadingInv, Keyed
<1>8. SecondInv(c)'
  <2>1. ASSUME call[c].phase = "second", VideoKeyed(c)
        PROVE  SameFiles(d, video[c], next[c] + 1)
    <3>1. SameFiles(o, video[c], next[c])
      BY <1>1, <2>1, Facts DEF SecondInv
    <3>2. \A f \in EpisodeFiles : f \in Int /\ next[c] \in Int /\ (f < next[c] + 1 => f < next[c] \/ f = next[c])
      BY <1>3 DEF EpisodeFiles
    <3>3. \A f \in EpisodeFiles :
             video[c].episode_files # Unlisted /\ video[c].episode_files[f] = episodes[config][f] =>
                video[c].episodes[f].generation = video[c].episode_files[f]
      BY <1>1, <2>1, RoutesMeet DEF GetSteps, LoadingSteps
    <3>4. ASSUME NEW f \in EpisodeFiles, f < next[c] + 1, video[c].episode_files # Unlisted,
                 d.episode_files[f] = video[c].episode_files[f]
          PROVE  video[c].episodes[f].generation = video[c].episode_files[f]
      <4>1. CASE f = next[c]
        BY <1>4, <3>3, <3>4, <4>1
      <4>2. CASE f # next[c]
        BY <1>4, <3>1, <3>2, <3>4, <4>2 DEF SameFiles
      <4> QED
        BY <4>1, <4>2
    <3> QED
      BY <3>4 DEF SameFiles
  <2>2. ASSUME call[c].phase = "second", VideoKeyed(c)
        PROVE  SameManifest(met[key[c]["video"]], key[c]["video"], video[c], before[c])
    BY <1>1, <2>2, Facts DEF SecondInv, LoadingSteps
  <2> QED
    BY <1>1, <1>2, <2>1, <2>2, WorldIs DEF SecondInv, AllSame, VideoKeyed, LoadingSteps
<1> QED
  BY <1>1, <1>2, <1>5, <1>6, <1>7, <1>8, CacheKept, GetStep DEF GetSteps, LoadingSteps

\* A row that is read now is not older than the manifest and the listing that were read before.
LEMMA ReadNow ==
    ASSUME Types, MetInv, NEW e \in Entry, NEW f \in EpisodeFiles, NEW n \in Entry,
           RowsSince(met[config], config, e), NotAhead(episodes[config], e),
           e.info.generation <= info[config],
           n = [e EXCEPT !.episodes[f] = OneOf(File(episodes), f)]
    PROVE  RowsSince(met[config], config, n)
<1>1. n.info = e.info /\ n.episode_files = e.episode_files
  BY DEF Entry
<1>2. \A g \in EpisodeFiles : n.episodes[g] = IF g = f THEN OneOf(File(episodes), f) ELSE e.episodes[g]
  BY EntryType
<1>3. /\ OneOf(File(episodes), f).store = config
      /\ OneOf(File(episodes), f).generation = episodes[config][f]
  BY FileType
<1>4. <<info[config], episodes[config]>> \in met[config]
  BY DEF MetInv, Types
<1>5. Since(met[config], config, n.info.generation, f, OneOf(File(episodes), f))
  BY <1>1, <1>3, <1>4 DEF Since
<1>6. n.episode_files[f] <= OneOf(File(episodes), f).generation
  BY <1>1, <1>3 DEF NotAhead
<1> QED
  BY <1>1, <1>2, <1>5, <1>6 DEF RowsSince

\* The entry with one row more.
LEMMA RowRead ==
    ASSUME Types, NEW e \in Entry, NEW f \in EpisodeFiles
    PROVE  LET n == [e EXCEPT !.episodes[f] = OneOf(File(episodes), f)]
           IN /\ n \in Entry /\ n.info = e.info /\ n.info_fingerprint = e.info_fingerprint
              /\ n.episode_files = e.episode_files /\ Unread(n) = Unread(e) \ {f}
<1> DEFINE n == [e EXCEPT !.episodes[f] = OneOf(File(episodes), f)]
<1>1. OneOf(File(episodes), f) \in FileState /\ OneOf(File(episodes), f) # NoFile
  BY FileType
<1>2. /\ n \in Entry /\ n.info = e.info /\ n.info_fingerprint = e.info_fingerprint
      /\ n.episode_files = e.episode_files
      /\ \A g \in EpisodeFiles : n.episodes[g] = IF g = f THEN OneOf(File(episodes), f) ELSE e.episodes[g]
  BY <1>1 DEF Entry
<1> HIDE DEF n
<1>3. Unread(n) = Unread(e) \ {f}
  BY <1>1, <1>2 DEF Unread
<1> QED
  BY <1>2, <1>3 DEF n

\* The rows are read when the manifest is not older than the one that was loaded.
LEMMA LoadEpisodesStep == ASSUME IInv, NEW c \in Clients, LoadEpisodes(c) PROVE IInv'
<1> DEFINE o == dataset[c]
<1>1. PICK f \in Unread(o) :
         /\ dataset' = [dataset EXCEPT ![c].episodes[f] = OneOf(File(episodes), f)]
         /\ Goto(c, IF Unread(o) = {f} THEN "loaded_valid" ELSE pc[c])
  BY DEF LoadEpisodes
<1> DEFINE d == [o EXCEPT !.episodes[f] = OneOf(File(episodes), f)]
<1>2. /\ pc[c] = "load_episodes" /\ pc'[c] = IF Unread(o) = {f} THEN "loaded_valid" ELSE "load_episodes"
      /\ dataset'[c] = d
      /\ call'[c] = call[c] /\ key'[c] = key[c] /\ before'[c] = before[c] /\ valid'[c] = valid[c]
      /\ next'[c] = next[c] /\ video'[c] = video[c] /\ seen'[c] = seen[c]
      /\ UNCHANGED world /\ UNCHANGED cache /\ OthersKept(c)
  BY <1>1 DEF LoadEpisodes, Goto, OthersKept, IInv, Types
<1>3. o \in Entry /\ f \in EpisodeFiles
  BY <1>1, Facts, LocalTypes DEF Unread
<1>4. /\ d \in Entry /\ d.info = o.info /\ d.info_fingerprint = o.info_fingerprint
      /\ d.episode_files = o.episode_files /\ Unread(d) = Unread(o) \ {f}
  BY <1>3, Facts, RowRead
<1>5. Types'
  <2>1. dataset' \in [Clients -> Entry]
    BY <1>1, <1>4 DEF IInv, Types
  <2> QED
    BY <1>1, <2>1 DEF LoadEpisodes, Goto, IInv, Types, world, cache, Steps, GetSteps, LoadingSteps
<1>6. next[c] = 1
  BY <1>2, Facts DEF ListingInv
<1>7. /\ o.info_fingerprint = before[c] /\ o.info \in seen[c].info
      /\ Keyed(c) => /\ o.info.store = config /\ o.info.generation \in Nat
                     /\ before[c] <= o.info.generation
                     /\ NotAhead(episodes[config], o) /\ RowsSince(met[config], config, o)
  BY <1>2, Facts DEF LoadingInv, LoadingSteps
<1>8. Keyed(c) => RowsSince(met[config], config, d)
  <2>1. Keyed(c) => o.info.generation <= info[config]
    BY <1>2, <1>7, Facts DEF SeenInv
  <2> QED
    BY <1>3, <1>4, <1>7, <2>1, Facts, ReadNow
<1>9. Keyed(c) => NotAhead(episodes[config], d)
  BY <1>4, <1>7 DEF NotAhead
<1> HIDE DEF d
<1>10. pc'[c] = "loaded_valid" => Whole(d)
  BY <1>2, <1>4 DEF Whole
<1>11. ListingInv(c)' /\ CachedInv(c)'
  BY <1>2, <1>6 DEF ListingInv, CachedInv, CachedSteps
<1>12. LoadingInv(c)'
  BY <1>2, <1>4, <1>6, <1>7, <1>8, <1>9, <1>10, WorldIs DEF LoadingInv, Keyed
<1>13. SecondInv(c)'
  <2>1. ASSUME call[c].phase = "second", VideoKeyed(c)
        PROVE  /\ SameManifest(met[key[c]["video"]], key[c]["video"], video[c], before[c])
               /\ AllSame(o, video[c])
    BY <1>2, <2>1, Facts DEF SecondInv, LoadingSteps
  <2>2. AllSame(o, video[c]) => AllSame(d, video[c])
    BY <1>4 DEF AllSame, SameFiles
  <2> QED
    BY <1>2, <2>1, <2>2, WorldIs DEF SecondInv, VideoKeyed, LoadingSteps
<1> QED
  BY <1>2, <1>5, <1>11, <1>12, <1>13, CacheKept, GetStep DEF GetSteps, LoadingSteps

\* Files that are as listed were so all the time; those of a local root are not looked at.
LEMMA LoadedValidStep == ASSUME IInv, NEW c \in Clients, LoadedValid(c) PROVE IInv'
<1> DEFINE d == dataset[c]
           listed == d.episode_files # Unlisted
<1>1. /\ pc[c] = "loaded_valid"
      /\ listed => FilesAreValid(c, "after") /\ Visit(c, "after")
      /\ listed /\ valid'[c] => /\ next[c] = 1 \/ valid[c]
                                /\ d.episode_files[next[c]] = episodes[config][next[c]]
      /\ ~listed => pc' = [pc EXCEPT ![c] = "after"] /\ next' = next
      /\ call'[c] = call[c] /\ key'[c] = key[c] /\ before'[c] = before[c]
      /\ dataset'[c] = d /\ video'[c] = video[c] /\ seen'[c] = seen[c]
      /\ UNCHANGED world /\ UNCHANGED cache
  BY DEF LoadedValid, IInv, Types, FilesAreValid, Goto
<1>2. /\ listed => pc'[c] = IF next[c] = Files THEN "after" ELSE "loaded_valid"
      /\ listed => next'[c] = IF next[c] = Files THEN 1 ELSE next[c] + 1
      /\ ~listed => pc'[c] = "after" /\ next'[c] = next[c]
      /\ next' \in [Clients -> EpisodeFiles] /\ OthersKept(c)
  BY <1>1, Facts, VisitIs DEF LoadedValid, FilesAreValid, OthersKept, Types
<1>3. Types'
  <2>1. pc' \in [Clients -> Steps]
    BY <1>1 DEF Visit, Goto, IInv, Types, Steps, GetSteps, LoadingSteps
  <2>2. valid' \in [Clients -> BOOLEAN]
    BY DEF LoadedValid, FilesAreValid, IInv, Types
  <2> QED
    BY <1>2, <2>1, <2>2 DEF LoadedValid, IInv, Types, world, cache
<1>4. /\ d \in Entry /\ d.info_fingerprint = before[c] /\ d.info \in seen[c].info /\ Whole(d)
      /\ Keyed(c) => /\ d.info.store = config /\ d.info.generation \in Nat
                     /\ before[c] <= d.info.generation
                     /\ NotAhead(episodes[config], d) /\ RowsSince(met[config], config, d)
  BY <1>1, Facts, LocalTypes DEF LoadingInv, LoadingSteps
<1>5. ListingInv(c)' /\ CachedInv(c)'
  <2>1. ~listed => next[c] = 1
    BY <1>1, Facts DEF ListingInv
  <2> QED
    BY <1>1, <1>2, <2>1 DEF ListingInv, CachedInv, CachedSteps
<1>6. ASSUME valid'[c], Keyed(c), listed
      PROVE  Checked(met[config], seen[c].episodes, config, d, next[c] + 1)
  <2>1. config \in Stores /\ next[c] \in EpisodeFiles /\ Types /\ MetInv /\ SeenInv(c)
    BY Facts, LocalTypes
  <2>2. CASE next[c] = 1
    <3>1. d.info.generation <= info[config]
      BY <1>1, <1>4, <1>6, <2>1 DEF SeenInv
    <3>2. ASSUME NEW f \in EpisodeFiles
          PROVE  /\ d.episode_files[f] <= d.episodes[f].generation
                 /\ d.episodes[f].generation <= episodes[config][f]
      <4>1. /\ Since(met[config], config, d.info.generation, f, d.episodes[f])
            /\ d.episode_files[f] <= d.episodes[f].generation
        BY <1>4, <1>6, WholeRead DEF RowsSince
      <4> QED
        BY <2>1, <4>1, RowNotAhead
    <3>3. Checked(met[config], seen[c].episodes, config, d, 1)
      BY <1>1, <2>1, <3>1, <3>2, CheckBegins
    <3> QED
      BY <1>1, <1>4, <1>6, <2>1, <2>2, <3>3, CheckGoesOn
  <2>3. CASE next[c] # 1
    <3>1. Checked(met[config], seen[c].episodes, config, d, next[c])
      BY <1>1, <1>6, <2>3, Facts DEF LoadingInv
    <3> QED
      BY <1>1, <1>4, <1>6, <2>1, <3>1, CheckGoesOn
  <2> QED
    BY <2>2, <2>3
<1>7. LoadingInv(c)'
  BY <1>1, <1>2, <1>4, <1>6, WorldIs DEF LoadingInv, LoadingSteps, Keyed
<1>8. SecondInv(c)'
  <2>1. ASSUME call[c].phase = "second", VideoKeyed(c)
        PROVE  /\ SameManifest(met[key[c]["video"]], key[c]["video"], video[c], before[c])
               /\ AllSame(d, video[c])
    BY <1>1, <2>1, Facts DEF SecondInv, LoadingSteps
  <2> QED
    BY <1>1, <1>2, <2>1, WorldIs DEF SecondInv, VideoKeyed, LoadingSteps
<1> QED
  BY <1>1, <1>2, <1>3, <1>5, <1>7, <1>8, CacheKept, GetStep DEF GetSteps, LoadingSteps

\* So was the manifest: the entry may be kept.
LEMMA AfterStep == ASSUME IInv, NEW c \in Clients, After(c) PROVE IInv'
<1> DEFINE d == dataset[c]
<1>1. /\ pc[c] = "after" /\ pc'[c] = "publish"
      /\ valid'[c] => valid[c] /\ before[c] = info[config]
      /\ call'[c] = call[c] /\ key'[c] = key[c] /\ before'[c] = before[c] /\ next'[c] = next[c]
      /\ dataset'[c] = d /\ video'[c] = video[c] /\ seen'[c] = seen[c]
      /\ UNCHANGED world /\ UNCHANGED cache /\ OthersKept(c)
  BY DEF After, Goto, OthersKept, IInv, Types
<1>2. Types'
  BY DEF After, Goto, IInv, Types, world, cache, Steps, GetSteps, LoadingSteps
<1>3. /\ d \in Entry /\ d.info_fingerprint = before[c] /\ d.info \in seen[c].info /\ Whole(d)
      /\ Keyed(c) => /\ d.info.store = config /\ d.info.generation \in Nat
                     /\ before[c] <= d.info.generation
                     /\ NotAhead(episodes[config], d) /\ RowsSince(met[config], config, d)
      /\ valid[c] /\ Keyed(c) /\ d.episode_files # Unlisted =>
            Checked(met[config], seen[c].episodes, config, d, Files + 1)
  BY <1>1, Facts, LocalTypes DEF LoadingInv, LoadingSteps
<1>4. ListingInv(c)' /\ CachedInv(c)'
  BY <1>1, Facts DEF ListingInv, CachedInv, CachedSteps
<1>5. ASSUME valid'[c], Keyed(c)
      PROVE  EntryOK(met[config], config, d) /\ ListedSeen(seen[c].episodes, d)
  <2>1. config \in Stores /\ Types /\ MetInv /\ info[config] \in Nat
    BY Facts, LocalTypes
  <2>2. d.info.generation = info[config]
    <3>1. d.info.generation <= info[config]
      BY <1>1, <1>3, <1>5, Facts DEF SeenInv
    <3> QED
      BY <1>1, <1>3, <1>5, <2>1, <3>1
  <2>3. ASSUME d.episodes # NoRows, NEW f \in EpisodeFiles
        PROVE  With(met[config], config, d.info.generation, f, d.episodes[f])
    BY <1>3, <1>5, <2>1, <2>2, <2>3, WholeRead, SinceIsWith DEF RowsSince
  <2>4. ASSUME d.episode_files # Unlisted
        PROVE  /\ d.episodes # NoRows /\ Generations(d) = d.episode_files
               /\ <<d.info.generation, d.episode_files>> \in met[config]
               /\ ListedSeen(seen[c].episodes, d)
    <3>1. \A f \in EpisodeFiles : d.episodes[f] # NoFile
      BY <1>3, <2>4, WholeRead
    <3>2. d.episodes # NoRows
      BY <3>1, NoEntryType
    <3>3. \A f \in EpisodeFiles : d.episodes[f].store = config
      BY <1>3, <1>5, <3>1 DEF RowsSince, Since
    <3>4. /\ Generations(d) = d.episode_files /\ ListedSeen(seen[c].episodes, d)
          /\ \E had \in met[config] : had[2] = d.episode_files /\ d.info.generation <= had[1]
      BY <1>1, <1>3, <1>5, <2>1, <2>4, <3>3, CheckEnds
    <3>5. PICK had \in met[config] : had[2] = d.episode_files /\ d.info.generation <= had[1]
      BY <3>4
    <3>6. had[1] <= info[config] /\ had[1] \in Nat /\ had = <<had[1], had[2]>>
      BY <2>1, MetType DEF MetInv
    <3>7. had[1] = d.info.generation
      BY <2>1, <2>2, <3>5, <3>6
    <3> QED
      BY <3>2, <3>4, <3>5, <3>6, <3>7
  <2>5. EntryOK(met[config], config, d)
    BY <1>1, <1>3, <1>5, <2>2, <2>3, <2>4 DEF EntryOK
  <2> QED
    BY <2>4, <2>5 DEF ListedSeen
<1>6. LoadingInv(c)'
  BY <1>1, <1>3, <1>5, WorldIs DEF LoadingInv, LoadingSteps, Keyed
<1>7. SecondInv(c)'
  <2>1. ASSUME call[c].phase = "second", VideoKeyed(c)
        PROVE  /\ SameManifest(met[key[c]["video"]], key[c]["video"], video[c], before[c])
               /\ AllSame(d, video[c])
    BY <1>1, <2>1, Facts DEF SecondInv, LoadingSteps
  <2> QED
    BY <1>1, <2>1, WorldIs DEF SecondInv, VideoKeyed, LoadingSteps
<1> QED
  BY <1>1, <1>2, <1>4, <1>6, <1>7, CacheKept, GetStep DEF GetSteps, LoadingSteps

-----------------------------------------------------------------------------
(* The ends of a Get *)

\* A call that is over has nothing left.
LEMMA EndStep ==
    ASSUME IInv, NEW c \in Clients, End(c), UNCHANGED world, UNCHANGED cache
    PROVE  IInv'
<1>1. pc'[c] = "idle" /\ call'[c].phase = "only" /\ next'[c] = 1 /\ OthersKept(c)
  BY DEF End, Goto, OthersKept, IInv, Types
<1>2. Types'
  <2>1. /\ dataset' \in [Clients -> Entry] /\ video' \in [Clients -> Entry]
        /\ key' \in [Clients -> [Gets -> Stores]] /\ next' \in [Clients -> EpisodeFiles]
        /\ seen' \in [Clients -> Moments]
    BY NoEntryType DEF End, IInv, Types
  <2>2. /\ attempt' \in [Clients -> [Gets -> Nat]]
        /\ call' \in [Clients -> [refresh : BOOLEAN, phase : {"only", "first", "second"}]]
    BY DEF End, IInv, Types, Gets
  <2> QED
    BY <2>1, <2>2 DEF End, Goto, IInv, Types, world, cache, Steps
<1>3. ClientInv(c)'
  BY <1>1 DEF ClientInv, SeenInv, KeysInv, ListingInv, CachedInv, LoadingInv, GotInv, RoutesInv,
        SecondInv, ReturnInv, CachedSteps, LoadingSteps
<1> QED
  BY <1>1, <1>2, <1>3, CacheKept, LocalStep

\* Another attempt keeps nothing of the entry of the dataset.
LEMMA RetryStep ==
    ASSUME IInv, NEW c \in Clients, NEW get \in Gets, NEW first_step, Retry(c, get, first_step),
           \/ first_step = "key" /\ pc[c] \in {"recheck", "publish"}
           \/ first_step = "video_key" /\ pc[c] \in {"got", "compare"},
           UNCHANGED world, UNCHANGED cache
    PROVE  IInv'
<1>1. CASE attempt[c][get] = 1
  BY <1>1, EndStep DEF Retry
<1>2. CASE attempt[c][get] # 1
  <2>1. /\ pc'[c] = first_step /\ call'[c] = call[c] /\ key'[c] = key[c] /\ video'[c] = video[c]
        /\ next'[c] = next[c] /\ seen'[c] = seen[c] /\ OthersKept(c)
    BY <1>2 DEF Retry, Goto, OthersKept, IInv, Types
  <2>2. Types'
    <3>1. /\ attempt' = [attempt EXCEPT ![c][get] = 1] /\ pc' = [pc EXCEPT ![c] = first_step]
          /\ before' = [before EXCEPT ![c] = -1] /\ valid' = [valid EXCEPT ![c] = FALSE]
          /\ dataset' = [dataset EXCEPT ![c] = NoEntry] /\ UNCHANGED <<call, key, next, video, seen>>
      BY <1>2 DEF Retry, Goto
    <3>2. Types
      BY DEF IInv
    <3>3. dataset' \in [Clients -> Entry]
      BY <3>1, <3>2, NoEntryType DEF Types
    <3>4. attempt' \in [Clients -> [Gets -> Nat]]
      BY <3>1, <3>2 DEF Types
    <3>5. pc' \in [Clients -> Steps]
      BY <3>1, <3>2 DEF Types, Steps
    <3>6. before' \in [Clients -> Int] /\ valid' \in [Clients -> BOOLEAN]
      BY <3>1, <3>2 DEF Types
    <3> QED
      BY <3>1, <3>2, <3>3, <3>4, <3>5, <3>6 DEF Types, world, cache
  <2>3. SeenInv(c)' /\ ListingInv(c)'
    BY <2>1, Facts, WorldIs DEF SeenInv, ListingInv
  <2>4. KeysInv(c)'
    BY <2>1, Facts, WorldIs DEF KeysInv, Keyed, VideoKeyed
  <2>5. RoutesInv(c)'
    <3>1. pc[c] = "got" => call[c].phase # "second"
      BY Facts DEF KeysInv
    <3> QED
      BY <2>1, <3>1, Facts, WorldIs DEF RoutesInv, VideoKeyed
  <2>6. CachedInv(c)' /\ LoadingInv(c)' /\ GotInv(c)' /\ SecondInv(c)' /\ ReturnInv(c)'
    BY <2>1 DEF CachedInv, LoadingInv, GotInv, SecondInv, ReturnInv, CachedSteps, LoadingSteps
  <2> QED
    BY <2>1, <2>2, <2>3, <2>4, <2>5, <2>6, CacheKept, LocalStep DEF ClientInv
<1> QED
  BY <1>1, <1>2

\* The Get of the dataset returns an entry that may be kept and that the call has seen.
LEMMA GotStep ==
    ASSUME IInv, NEW c \in Clients, pc[c] \in {"recheck", "publish"}, Got(c),
           UNCHANGED world, UNCHANGED <<call, attempt, key, next, dataset, video, seen>>,
           datasets' \in [Stores -> Entry], UNCHANGED videos, CacheInv',
           Keyed(c), EntryOK(met[config], config, dataset[c]), dataset[c].info \in seen[c].info,
           ListedSeen(seen[c].episodes, dataset[c]),
           call[c].phase = "second" /\ VideoKeyed(c) =>
              /\ SameManifest(met[config], config, video[c], dataset[c].info_fingerprint)
              /\ AllSame(dataset[c], video[c])
    PROVE  IInv'
<1>1. /\ call'[c] = call[c] /\ key'[c] = key[c] /\ video'[c] = video[c] /\ dataset'[c] = dataset[c]
      /\ next'[c] = next[c] /\ seen'[c] = seen[c] /\ OthersKept(c)
  BY DEF Got, Goto, OthersKept, IInv, Types
<1>2. /\ call[c].phase = "only" => pc'[c] = "return"
      /\ call[c].phase = "first" => pc'[c] = "got"
      /\ call[c].phase = "second" => pc'[c] = "compare"
      /\ call[c].phase \in {"only", "first", "second"}
  BY DEF Got, Goto, IInv, Types
<1>3. Types'
  <2>1. pc'[c] \in Steps
    BY <1>2 DEF Steps
  <2>2. pc' \in [Clients -> Steps]
    BY <2>1 DEF Got, Goto, IInv, Types
  <2>3. before' \in [Clients -> Int] /\ valid' \in [Clients -> BOOLEAN]
    BY DEF Got, IInv, Types
  <2> QED
    BY <2>2, <2>3 DEF IInv, Types, world
<1>4. SeenInv(c)' /\ ListingInv(c)'
  BY <1>1, <1>2, Facts, WorldIs DEF SeenInv, ListingInv
<1>5. RoutesInv(c)'
  BY <1>1, <1>2, Facts, WorldIs DEF RoutesInv, VideoKeyed
<1>6. KeysInv(c)'
  BY <1>1, <1>2, Facts, WorldIs DEF KeysInv, Keyed, VideoKeyed
<1>7. GotInv(c)'
  BY <1>1, <1>2, WorldIs DEF GotInv, Keyed
<1>8. SecondInv(c)'
  BY <1>1, <1>2, WorldIs DEF SecondInv, VideoKeyed, LoadingSteps
<1>9. CachedInv(c)' /\ LoadingInv(c)' /\ ReturnInv(c)'
  BY <1>1, <1>2 DEF CachedInv, LoadingInv, ReturnInv, CachedSteps, LoadingSteps
<1> QED
  BY <1>1, <1>3, <1>4, <1>5, <1>6, <1>7, <1>8, <1>9, LocalStep DEF ClientInv

\* A cached entry is returned if it is valid and the configuration was the key all the time.
LEMMA RecheckStep == ASSUME IInv, NEW c \in Clients, Recheck(c) PROVE IInv'
<1>1. CASE ~SameKey(c, "dataset")
  BY <1>1, RetryStep DEF Recheck, Gets
<1>2. CASE SameKey(c, "dataset") /\ valid[c]
  <2>1. Keyed(c) /\ pc[c] = "recheck"
    BY <1>2 DEF SameKey, Keyed, Recheck
  <2>2. /\ EntryOK(met[config], config, dataset[c]) /\ dataset[c].info \in seen[c].info
        /\ ListedSeen(seen[c].episodes, dataset[c])
    BY <1>2, <2>1, Facts DEF CachedInv, CachedSteps, Keyed
  <2>3. call[c].phase = "second" /\ VideoKeyed(c) =>
           /\ SameManifest(met[config], config, video[c], dataset[c].info_fingerprint)
           /\ AllSame(dataset[c], video[c])
    BY <1>2, <2>1, Facts DEF SecondInv, VideoKeyed
  <2>4. /\ Got(c) /\ UNCHANGED <<call, attempt, key, next, dataset, video, seen>>
        /\ UNCHANGED world /\ UNCHANGED cache
    BY <1>2 DEF Recheck
  <2>5. CacheInv' /\ datasets' \in [Stores -> Entry] /\ UNCHANGED videos
    BY <2>4, CacheKept DEF IInv, Types, cache
  <2> QED
    BY <2>1, <2>2, <2>3, <2>4, <2>5, GotStep
<1>3. CASE SameKey(c, "dataset") /\ ~valid[c]
  <2>1. /\ pc[c] = "recheck" /\ pc'[c] = "before" /\ call'[c] = call[c] /\ key'[c] = key[c]
        /\ next'[c] = next[c] /\ video'[c] = video[c] /\ seen'[c] = seen[c] /\ OthersKept(c)
        /\ UNCHANGED world /\ UNCHANGED cache
    BY <1>3 DEF Recheck, Goto, OthersKept, IInv, Types
  <2>2. Types'
    BY <1>3, NoEntryType DEF Recheck, Goto, IInv, Types, world, cache, Steps, GetSteps
  <2>3. ListingInv(c)' /\ CachedInv(c)' /\ LoadingInv(c)' /\ SecondInv(c)'
    BY <2>1, Facts DEF ListingInv, CachedInv, LoadingInv, SecondInv, CachedSteps, LoadingSteps
  <2> QED
    BY <2>1, <2>2, <2>3, CacheKept, GetStep DEF GetSteps, CachedSteps
<1> QED
  BY <1>1, <1>2, <1>3

\* A loaded entry is kept if nothing changed while it was loaded.
LEMMA PublishStep == ASSUME IInv, NEW c \in Clients, Publish(c) PROVE IInv'
<1>1. CASE valid[c] /\ SameKey(c, "dataset")
  <2>1. Keyed(c) /\ pc[c] = "publish" /\ key[c]["dataset"] = config
    BY <1>1 DEF SameKey, Keyed, Publish
  <2>2. /\ EntryOK(met[config], config, dataset[c]) /\ dataset[c].info \in seen[c].info
        /\ ListedSeen(seen[c].episodes, dataset[c])
        /\ dataset[c].info_fingerprint = before[c]
    BY <1>1, <2>1, Facts DEF LoadingInv, LoadingSteps
  <2>3. call[c].phase = "second" /\ VideoKeyed(c) =>
           /\ SameManifest(met[config], config, video[c], dataset[c].info_fingerprint)
           /\ AllSame(dataset[c], video[c])
    BY <2>1, <2>2, Facts DEF SecondInv, LoadingSteps, VideoKeyed
  <2>4. /\ Got(c) /\ UNCHANGED <<call, attempt, key, next, dataset, video, seen>>
        /\ UNCHANGED world /\ UNCHANGED videos
        /\ datasets' = [datasets EXCEPT ![config] = dataset[c]]
    BY <1>1, <2>1 DEF Publish
  <2>5. CacheInv'
    BY <2>2, <2>4, Facts, WorldIs DEF Types, CacheInv
  <2>6. datasets' \in [Stores -> Entry]
    BY <2>4, Facts, LocalTypes DEF Types
  <2> QED
    BY <2>1, <2>2, <2>3, <2>4, <2>5, <2>6, GotStep
<1>2. CASE ~(valid[c] /\ SameKey(c, "dataset"))
  BY <1>2, RetryStep DEF Publish, Gets
<1> QED
  BY <1>1, <1>2

-----------------------------------------------------------------------------
(* The steps of a video Get *)

\* The key of the routes is the configuration.
LEMMA VideoKeyStep == ASSUME IInv, NEW c \in Clients, VideoKey(c) PROVE IInv'
<1>1. /\ pc[c] = "video_key" /\ pc'[c] = "key"
      /\ key'[c] = [key[c] EXCEPT !["video"] = config]
      /\ call'[c].phase = "first"
      /\ next'[c] = next[c] /\ dataset'[c] = dataset[c] /\ video'[c] = video[c]
      /\ seen'[c] = seen[c]
      /\ UNCHANGED world /\ UNCHANGED cache /\ OthersKept(c)
  BY DEF VideoKey, Goto, OthersKept, IInv, Types
<1>2. Types'
  BY DEF VideoKey, Goto, IInv, Types, world, cache, Steps, Gets
<1>3. key'[c]["video"] = config /\ key'[c]["dataset"] = key[c]["dataset"]
  BY <1>1 DEF IInv, Types, Gets
<1>4. SeenInv(c)' /\ ListingInv(c)'
  BY <1>1, Facts, WorldIs DEF SeenInv, ListingInv
<1>5. KeysInv(c)'
  <2>1. File(info) \in seen[c].info /\ File(info).store = config
    BY <1>1, Facts, FileType DEF SeenInv
  <2> QED
    BY <1>1, <1>3, <2>1, Facts, WorldIs DEF KeysInv, Keyed, VideoKeyed
<1>6. CachedInv(c)' /\ LoadingInv(c)' /\ GotInv(c)' /\ RoutesInv(c)' /\ SecondInv(c)' /\ ReturnInv(c)'
  BY <1>1 DEF CachedInv, LoadingInv, GotInv, RoutesInv, SecondInv, ReturnInv, CachedSteps, LoadingSteps
<1> QED
  BY <1>1, <1>2, <1>4, <1>5, <1>6, CacheKept, LocalStep DEF ClientInv

\* Cached routes of the entry of the dataset are those of its manifest, and of its listing.
LEMMA VideoCachedStep == ASSUME IInv, NEW c \in Clients, VideoCached(c) PROVE IInv'
<1> DEFINE d == dataset[c]
           v == videos[key[c]["video"]]
<1>1. /\ pc[c] = "got" /\ pc'[c] = "return" /\ VideoKeyed(c)
      /\ video'[c] = v /\ v # NoEntry /\ ValidFor(v, d)
      /\ call'[c] = call[c] /\ key'[c] = key[c] /\ next'[c] = next[c]
      /\ dataset'[c] = dataset[c] /\ seen'[c] = seen[c]
      /\ UNCHANGED world /\ UNCHANGED cache /\ OthersKept(c)
  BY DEF VideoCached, Goto, OthersKept, IInv, Types, SameKey, VideoKeyed
<1>2. Types'
  BY LocalTypes DEF VideoCached, Goto, IInv, Types, world, cache, Steps
<1>3. call[c].phase = "first" /\ key[c]["dataset"] = config /\ key[c]["video"] = config
  BY <1>1, Facts DEF KeysInv, Keyed, VideoKeyed
<1>4. SeenInv(c)' /\ ListingInv(c)'
  BY <1>1, Facts, WorldIs DEF SeenInv, ListingInv
<1>5. KeysInv(c)'
  BY <1>1, Facts, WorldIs DEF KeysInv, Keyed, VideoKeyed
<1>6. ReturnInv(c)'
  <2>1. /\ EntryOK(met[config], config, d) /\ d.info \in seen[c].info
        /\ ListedSeen(seen[c].episodes, d) /\ d \in Entry
    BY <1>1, <1>3, Facts, LocalTypes DEF GotInv
  <2>2. EntryOK(met[config], config, v) /\ v \in Entry
    BY <1>1, <1>3, Facts, LocalTypes DEF CacheInv, Types
  <2> HIDE DEF v, d
  <2>3. v.info = d.info
    BY <1>1, <2>1, <2>2 DEF EntryOK, ValidFor, Entry, FileState
  <2>4. ASSUME v.episode_files # Unlisted PROVE v.episodes = d.episodes
    <3>1. /\ d.episode_files = v.episode_files
          /\ Generations(v) = v.episode_files /\ Generations(d) = d.episode_files
          /\ v.episodes # NoRows /\ d.episodes # NoRows
      BY <1>1, <2>1, <2>2, <2>4 DEF EntryOK, ValidFor
    <3>2. ASSUME NEW f \in EpisodeFiles PROVE v.episodes[f] = d.episodes[f]
      <4>1. Generations(v)[f] = v.episodes[f].generation /\ Generations(d)[f] = d.episodes[f].generation
        BY DEF Generations
      <4>2. v.episodes[f].store = config /\ d.episodes[f].store = config
        BY <2>1, <2>2, <3>1 DEF EntryOK, With
      <4>3. v.episodes[f] \in FileState /\ d.episodes[f] \in FileState
        BY <2>1, <2>2, EntryType
      <4> QED
        BY <3>1, <4>1, <4>2, <4>3 DEF FileState
    <3> QED
      BY <2>1, <2>2, <3>2, EntryType
  <2>5. ListedSeen(seen[c].episodes, v)
    BY <1>1, <2>1, <2>4 DEF ListedSeen, ValidFor
  <2> QED
    BY <1>1, <2>1, <2>3, <2>5, WorldIs DEF ReturnInv, v
<1>7. CachedInv(c)' /\ LoadingInv(c)' /\ GotInv(c)' /\ RoutesInv(c)' /\ SecondInv(c)'
  BY <1>1, <1>3 DEF CachedInv, LoadingInv, GotInv, RoutesInv, SecondInv, CachedSteps, LoadingSteps
<1> QED
  BY <1>1, <1>2, <1>4, <1>5, <1>6, <1>7, CacheKept, LocalStep DEF ClientInv

\* The listing of an entry that may be kept, and that the call has seen, was the root's then.
LEMMA ListingSeen ==
    ASSUME NEW moments \in SUBSET [store : Stores, generation : Listing], NEW m, NEW s,
           NEW e \in Entry, EntryOK(m, s, e), ListedSeen(moments, e), e.episode_files # Unlisted
    PROVE  [store |-> s, generation |-> e.episode_files] \in moments
<1>1. PICK files \in moments : e.episodes = RowsOf(files)
  BY DEF ListedSeen
<1>2. files \in [store : Stores, generation : Listing]
  BY <1>1
<1>3. \A f \in EpisodeFiles :
         /\ e.episodes[f].store = s /\ Generations(e)[f] = e.episodes[f].generation
         /\ Generations(e) = e.episode_files
  BY DEF EntryOK, With, Generations
<1>4. \A f \in EpisodeFiles : e.episodes[f] = OneOf(files, f)
  BY <1>1 DEF RowsOf
<1>5. ASSUME NEW f \in EpisodeFiles
      PROVE  files.store = s /\ files.generation[f] = e.episode_files[f]
  <2>1. e.episodes[f].store = files.store /\ e.episodes[f].generation = files.generation[f]
    <3>1. OneOf(files, f).store = files.store /\ OneOf(files, f).generation = files.generation[f]
      BY DEF OneOf
    <3> QED
      BY <1>4, <3>1
  <2>2. e.episodes[f].store = s /\ Generations(e)[f] = e.episodes[f].generation
        /\ Generations(e)[f] = e.episode_files[f]
    BY <1>3
  <2> QED
    BY <2>1, <2>2
<1>6. files.generation = e.episode_files
  BY <1>2, <1>5, EntryType DEF Listing
<1>7. files.store = s
  BY <1>5, NoEntryType
<1> QED
  BY <1>1, <1>2, <1>6, <1>7

\* The routes are read for an entry of the dataset that was valid.
LEMMA VideoLoadStep == ASSUME IInv, NEW c \in Clients, VideoLoad(c) PROVE IInv'
<1> DEFINE d == dataset[c]
           v == [d EXCEPT !.episodes = NoRows]
<1>1. /\ pc[c] = "got" /\ pc'[c] = "load_video" /\ VideoKeyed(c)
      /\ video'[c] = v
      /\ call'[c] = call[c] /\ key'[c] = key[c] /\ next'[c] = next[c]
      /\ dataset'[c] = d /\ seen'[c] = seen[c]
      /\ UNCHANGED world /\ UNCHANGED cache /\ OthersKept(c)
  BY DEF VideoLoad, Goto, OthersKept, IInv, Types, SameKey, VideoKeyed
<1>2. /\ d \in Entry /\ v \in Entry /\ v.info = d.info /\ v.info_fingerprint = d.info_fingerprint
      /\ v.episode_files = d.episode_files /\ v.episodes = NoRows
  BY Facts, LocalTypes, NoEntryType DEF Entry
<1>3. Types'
  <2>1. video' \in [Clients -> Entry]
    BY <1>2 DEF VideoLoad, IInv, Types
  <2> QED
    BY <2>1 DEF VideoLoad, Goto, IInv, Types, world, cache, Steps
<1> HIDE DEF v
<1>4. call[c].phase = "first" /\ key[c]["dataset"] = config /\ key[c]["video"] = config
  BY <1>1, Facts DEF KeysInv, Keyed, VideoKeyed
<1>5. SeenInv(c)' /\ ListingInv(c)'
  BY <1>1, Facts, WorldIs DEF SeenInv, ListingInv
<1>6. KeysInv(c)'
  BY <1>1, <1>4, Facts, WorldIs DEF KeysInv, Keyed, VideoKeyed
<1>7. /\ EntryOK(met[config], config, d) /\ d.info \in seen[c].info
      /\ ListedSeen(seen[c].episodes, d)
  BY <1>1, <1>4, Facts DEF GotInv
<1>8. GotInv(c)'
  BY <1>1, <1>4, <1>7, WorldIs DEF GotInv
<1>9. RoutesInv(c)'
  <2>1. RowsSince(met[config], config, v)
    BY <1>2, NoEntryType DEF RowsSince
  <2>2. seen[c].episodes \in SUBSET [store : Stores, generation : Listing]
    BY Facts, LocalTypes DEF Moments
  <2>3. d.episode_files # Unlisted =>
           /\ <<d.info.generation, d.episode_files>> \in met[config]
           /\ [store |-> config, generation |-> d.episode_files] \in seen[c].episodes
    BY <1>2, <1>7, <2>2, ListingSeen DEF EntryOK
  <2>4. d.info.store = config /\ d.info.generation \in Nat /\ d.info.generation = d.info_fingerprint
    BY <1>7 DEF EntryOK
  <2> QED
    BY <1>1, <1>2, <1>4, <1>7, <2>1, <2>3, <2>4, WorldIs DEF RoutesInv
<1>10. CachedInv(c)' /\ LoadingInv(c)' /\ SecondInv(c)' /\ ReturnInv(c)'
  BY <1>1, <1>4 DEF CachedInv, LoadingInv, SecondInv, ReturnInv, CachedSteps, LoadingSteps
<1> QED
  BY <1>1, <1>3, <1>5, <1>6, <1>8, <1>9, <1>10, CacheKept, LocalStep DEF ClientInv

\* They are read after that.
LEMMA VideoReadStep == ASSUME IInv, NEW c \in Clients, VideoRead(c) PROVE IInv'
<1> DEFINE o == video[c]
<1>1. PICK f \in Unread(o) : video' = [video EXCEPT ![c].episodes[f] = OneOf(File(episodes), f)]
  BY DEF VideoRead
<1> DEFINE v == [o EXCEPT !.episodes[f] = OneOf(File(episodes), f)]
<1>2. /\ pc[c] = "load_video" /\ pc'[c] = "load_video" /\ dataset[c].episodes # NoRows
      /\ video'[c] = v
      /\ call'[c] = call[c] /\ key'[c] = key[c] /\ next'[c] = next[c]
      /\ dataset'[c] = dataset[c] /\ seen'[c] = seen[c]
      /\ UNCHANGED world /\ UNCHANGED cache /\ OthersKept(c)
  BY <1>1 DEF VideoRead, OthersKept, IInv, Types
<1>3. o \in Entry /\ f \in EpisodeFiles
  BY <1>1, Facts, LocalTypes DEF Unread
<1>4. /\ v \in Entry /\ v.info = o.info /\ v.info_fingerprint = o.info_fingerprint
      /\ v.episode_files = o.episode_files
  BY <1>3, Facts, RowRead
<1>5. Types'
  <2>1. video' \in [Clients -> Entry]
    BY <1>1, <1>4 DEF IInv, Types
  <2> QED
    BY <1>1, <2>1 DEF VideoRead, IInv, Types, world, cache
<1>6. SeenInv(c)' /\ ListingInv(c)'
  BY <1>2, Facts, WorldIs DEF SeenInv, ListingInv
<1>7. KeysInv(c)'
  BY <1>2, Facts, WorldIs DEF KeysInv, Keyed, VideoKeyed
<1>8. GotInv(c)'
  BY <1>2, Facts, WorldIs DEF GotInv
<1>9. VideoKeyed(c) => RowsSince(met[config], config, v)
  <2>1. ASSUME VideoKeyed(c)
        PROVE  /\ o.info.store = config /\ o.info \in seen[c].info
               /\ o.episode_files # Unlisted => <<o.info.generation, o.episode_files>> \in met[config]
               /\ RowsSince(met[config], config, o)
    BY <1>2, <2>1, Facts DEF RoutesInv, VideoKeyed
  <2>2. ASSUME VideoKeyed(c) PROVE o.info.generation <= info[config]
    BY <1>2, <2>1, <2>2, Facts DEF SeenInv
  <2>3. ASSUME VideoKeyed(c) PROVE NotAhead(episodes[config], o)
    <3>1. episodes[config] \in [EpisodeFiles -> Nat] /\ config \in Stores
      BY Facts, LocalTypes
    <3>2. CASE o.episode_files = Unlisted
      BY <3>1, <3>2, NoEntryType DEF NotAhead
    <3>3. CASE o.episode_files # Unlisted
      BY <2>1, <2>3, <3>1, <3>3, Facts DEF MetInv, NotAhead
    <3> QED
      BY <3>2, <3>3
  <2> QED
    BY <1>3, <1>4, <2>1, <2>2, <2>3, Facts, ReadNow
<1> HIDE DEF v
<1>10. RoutesInv(c)'
  BY <1>2, <1>4, <1>9, Facts, WorldIs DEF RoutesInv, VideoKeyed
<1>11. call[c].phase = "first"
  BY <1>2, Facts DEF KeysInv
<1>12. CachedInv(c)' /\ LoadingInv(c)' /\ SecondInv(c)' /\ ReturnInv(c)'
  BY <1>2, <1>11 DEF CachedInv, LoadingInv, SecondInv, ReturnInv, CachedSteps, LoadingSteps
<1> QED
  BY <1>2, <1>5, <1>6, <1>7, <1>8, <1>10, <1>12, CacheKept, LocalStep DEF ClientInv

\* All of them are read before the second Get of the dataset begins.
LEMMA VideoLoadedStep == ASSUME IInv, NEW c \in Clients, VideoLoaded(c) PROVE IInv'
<1> DEFINE v == video[c]
<1>1. /\ pc[c] = "load_video" /\ pc'[c] = "key"
      /\ dataset[c].episodes = NoRows \/ Unread(v) = {}
      /\ call'[c].phase = "second"
      /\ key'[c] = key[c] /\ next'[c] = next[c] /\ video'[c] = v /\ seen'[c] = seen[c]
      /\ UNCHANGED world /\ UNCHANGED cache /\ OthersKept(c)
  BY DEF VideoLoaded, Goto, OthersKept, IInv, Types
<1>2. Types'
  <2>1. call' \in [Clients -> [refresh : BOOLEAN, phase : {"only", "first", "second"}]]
    BY DEF VideoLoaded, IInv, Types
  <2>2. attempt' \in [Clients -> [Gets -> Nat]]
    BY DEF VideoLoaded, IInv, Types, Gets
  <2> QED
    BY <2>1, <2>2, NoEntryType DEF VideoLoaded, Goto, IInv, Types, world, cache, Steps
<1>3. SeenInv(c)' /\ ListingInv(c)'
  BY <1>1, Facts, WorldIs DEF SeenInv, ListingInv
<1>4. KeysInv(c)'
  <2>1. call[c].phase = "first"
    BY <1>1, Facts DEF KeysInv
  <2> QED
    BY <1>1, <2>1, Facts, WorldIs DEF KeysInv, Keyed, VideoKeyed
<1>5. Whole(v)
  <2>1. CASE Unread(v) = {}
    BY <2>1 DEF Whole
  <2>2. CASE dataset[c].episodes = NoRows
    <3>1. v.episodes = NoRows /\ v.episode_files = dataset[c].episode_files
      BY <1>1, <2>2, Facts DEF RoutesInv
    <3>2. dataset[c].episode_files = Unlisted
      BY <1>1, <2>2, Facts DEF GotInv, EntryOK
    <3> QED
      BY <3>1, <3>2 DEF Whole
  <2> QED
    BY <1>1, <2>1, <2>2
<1>6. RoutesInv(c)'
  BY <1>1, <1>5, Facts, WorldIs DEF RoutesInv, VideoKeyed
<1>7. CachedInv(c)' /\ LoadingInv(c)' /\ GotInv(c)' /\ SecondInv(c)' /\ ReturnInv(c)'
  BY <1>1 DEF CachedInv, LoadingInv, GotInv, SecondInv, ReturnInv, CachedSteps, LoadingSteps
<1> QED
  BY <1>1, <1>2, <1>3, <1>4, <1>6, <1>7, CacheKept, LocalStep DEF ClientInv

\* Routes of an attempt that another configuration began are not used.
LEMMA VideoOtherKeyStep == ASSUME IInv, NEW c \in Clients, VideoOtherKey(c) PROVE IInv'
BY RetryStep DEF VideoOtherKey, Gets

\* Routes are kept if the second Get of the dataset found what the first one had found.
LEMMA PublishVideoStep == ASSUME IInv, NEW c \in Clients, PublishVideo(c) PROVE IInv'
<1> DEFINE d == dataset[c]
           v == video[c]
<1>1. CASE ValidFor(v, d) /\ SameKey(c, "video")
  <2>1. VideoKeyed(c) /\ pc[c] = "compare" /\ key[c]["video"] = config
    BY <1>1 DEF SameKey, VideoKeyed, PublishVideo
  <2>2. call[c].phase = "second" /\ Keyed(c) /\ v \in Entry /\ config \in Stores
    BY <2>1, Facts, LocalTypes DEF KeysInv
  <2>3. /\ pc'[c] = "return" /\ call'[c] = call[c] /\ key'[c] = key[c] /\ video'[c] = v
        /\ next'[c] = next[c] /\ seen'[c] = seen[c]
        /\ OthersKept(c) /\ UNCHANGED world /\ UNCHANGED datasets
        /\ videos' = [videos EXCEPT ![config] = v]
    BY <1>1, <2>1 DEF PublishVideo, Goto, OthersKept, IInv, Types
  <2>4. /\ v.info.store = config /\ v.info.generation \in Nat
        /\ v.info.generation = v.info_fingerprint
        /\ v.info \in seen[c].info /\ Whole(v)
        /\ v.episode_files # Unlisted =>
              /\ <<v.info.generation, v.episode_files>> \in met[config]
              /\ [store |-> config, generation |-> v.episode_files] \in seen[c].episodes
        /\ RowsSince(met[config], config, v)
    BY <2>1, <2>2, Facts DEF RoutesInv
  <2>5. SameManifest(met[config], config, v, d.info_fingerprint) /\ AllSame(d, v)
    BY <2>1, <2>2, Facts DEF SecondInv
  <2>6. ASSUME v.episode_files # Unlisted
        PROVE  /\ v.episodes # NoRows /\ Generations(v) = v.episode_files
               /\ ListedSeen(seen[c].episodes, v)
    <3>1. \A f \in EpisodeFiles : v.episodes[f] # NoFile
      BY <2>2, <2>4, <2>6, WholeRead
    <3>2. v.episodes # NoRows
      BY <3>1, NoEntryType
    <3>3. \A f \in EpisodeFiles : f < Files + 1
      BY StoresAssumption DEF EpisodeFiles
    <3>4. \A f \in EpisodeFiles : v.episodes[f].generation = v.episode_files[f]
      BY <1>1, <2>5, <2>6, <3>3 DEF ValidFor, AllSame, SameFiles
    <3>5. Generations(v) = v.episode_files
      BY <2>2, <3>4, EntryType DEF Generations, Listing
    <3>6. v.episodes = RowsOf([store |-> config, generation |-> v.episode_files])
      <4>1. ASSUME NEW f \in EpisodeFiles
            PROVE  v.episodes[f] = [store |-> config, generation |-> v.episode_files[f]]
        <5>1. v.episodes[f].store = config
          BY <2>4, <3>1 DEF RowsSince, Since
        <5> QED
          BY <2>2, <3>4, <5>1, EntryType DEF FileState
      <4> QED
        BY <2>2, <4>1, EntryType DEF RowsOf, OneOf
    <3> QED
      BY <2>4, <2>6, <3>2, <3>5, <3>6 DEF ListedSeen
  <2>7. EntryOK(met[config], config, v)
    BY <1>1, <2>4, <2>5, <2>6 DEF EntryOK, SameManifest, ValidFor
  <2>8. Types'
    <3>1. videos' \in [Stores -> Entry]
      BY <2>2, <2>3, Facts DEF Types
    <3>2. pc' \in [Clients -> Steps]
      BY <1>1, Facts DEF PublishVideo, Goto, Types, Steps
    <3>3. UNCHANGED <<datasets, call, attempt, key, before, valid, next, dataset, video, seen>>
      BY <1>1 DEF PublishVideo
    <3> QED
      BY <2>3, <3>1, <3>2, <3>3, Facts DEF Types, world
  <2>9. CacheInv'
    BY <2>3, <2>7, Facts, WorldIs DEF Types, CacheInv
  <2>10. SeenInv(c)' /\ KeysInv(c)' /\ ListingInv(c)'
    BY <2>1, <2>2, <2>3, Facts, WorldIs DEF SeenInv, KeysInv, ListingInv, VideoKeyed, Keyed
  <2>11. ReturnInv(c)'
    BY <2>3, <2>4, <2>6 DEF ReturnInv, ListedSeen
  <2>12. CachedInv(c)' /\ LoadingInv(c)' /\ GotInv(c)' /\ RoutesInv(c)' /\ SecondInv(c)'
    BY <2>2, <2>3 DEF CachedInv, LoadingInv, GotInv, RoutesInv, SecondInv, CachedSteps, LoadingSteps
  <2> QED
    BY <2>3, <2>8, <2>9, <2>10, <2>11, <2>12, LocalStep DEF ClientInv
<1>2. CASE ~(ValidFor(video[c], dataset[c]) /\ SameKey(c, "video"))
  BY <1>2, RetryStep DEF PublishVideo, Gets
<1> QED
  BY <1>1, <1>2

-----------------------------------------------------------------------------
(* Steps of the others *)

\* What is said of an entry stays true when the histories grow.
LEMMA StoreGrows ==
    ASSUME NEW a, NEW b, a \subseteq b, NEW s
    PROVE  /\ \A e : EntryOK(a, s, e) => EntryOK(b, s, e)
           /\ \A e : RowsSince(a, s, e) => RowsSince(b, s, e)
           /\ \A v, g : SameManifest(a, s, v, g) => SameManifest(b, s, v, g)
<1>1. \A g, f, row : /\ With(a, s, g, f, row) => With(b, s, g, f, row)
                     /\ Since(a, s, g, f, row) => Since(b, s, g, f, row)
  BY DEF With, Since
<1>2. ASSUME NEW e, EntryOK(a, s, e) PROVE EntryOK(b, s, e)
  BY <1>1, <1>2 DEF EntryOK
<1>3. ASSUME NEW e, RowsSince(a, s, e) PROVE RowsSince(b, s, e)
  BY <1>1, <1>3 DEF RowsSince
<1>4. ASSUME NEW v, NEW g, SameManifest(a, s, v, g) PROVE SameManifest(b, s, v, g)
  BY <1>1, <1>4 DEF SameManifest
<1> QED
  BY <1>2, <1>3, <1>4

LEMMA MomentsGrow ==
    ASSUME NEW m, NEW k, m \subseteq k, NEW e, ListedSeen(m, e)
    PROVE  ListedSeen(k, e)
BY DEF ListedSeen

LEMMA CheckedGrows ==
    ASSUME NEW a, NEW b, a \subseteq b, NEW m, NEW k, m \subseteq k, NEW s, NEW e, NEW n,
           Checked(a, m, s, e, n)
    PROVE  Checked(b, k, s, e, n)
BY DEF Checked

\* The root changes for everyone.  What the clients hold stays, what they may have seen grows, and
\* under a configuration that no call under way has met nobody's key is the configuration.
LEMMA WorldStep ==
    ASSUME IInv, Saw,
           UNCHANGED <<cache, pc, call, attempt, key, before, valid, next, dataset, video>>,
           config' \in Stores, info' \in [Stores -> Nat],
           episodes' \in [Stores -> [EpisodeFiles -> Nat]],
           \A s \in Stores : /\ info[s] <= info'[s]
                             /\ \A f \in EpisodeFiles : episodes[s][f] <= episodes'[s][f],
           NoWayBack
    PROVE  IInv'
<1>1. Types /\ CacheInv /\ MetInv
  BY DEF IInv
<1> DEFINE I == [store |-> config', generation |-> info'[config']]
           E == [store |-> config', generation |-> episodes'[config']]
<1>2. /\ I \in FileState /\ E \in [store : Stores, generation : Listing]
      /\ I.store = config' /\ I.generation = info'[config']
      /\ File(info)' = I /\ File(episodes)' = E
  BY DEF FileState, Listing, File
<1>3. \A s \in Stores : met'[s] = met[s] \cup {<<info'[s], episodes'[s]>>}
  BY DEF Saw
<1>4. \A c \in Clients : pc[c] # "idle" =>
         seen'[c] = [info |-> seen[c].info \cup {I}, episodes |-> seen[c].episodes \cup {E}]
  BY DEF Saw
<1>5. Types'
  <2>1. met' \in [Stores -> SUBSET (Nat \X [EpisodeFiles -> Nat])]
    BY <1>1 DEF Saw, Types
  <2>2. ASSUME NEW c \in Clients
        PROVE  [info |-> seen[c].info \cup {I}, episodes |-> seen[c].episodes \cup {E}] \in Moments
    <3>1. seen[c].info \subseteq FileState /\ seen[c].episodes \subseteq [store : Stores, generation : Listing]
      BY <1>1, LocalTypes DEF Moments
    <3> QED
      BY <1>2, <3>1 DEF Moments
  <2>3. seen' \in [Clients -> Moments]
    <3> HIDE DEF I, E
    <3>1. \A c \in Clients : pc[c] # "idle" => seen'[c] \in Moments
      BY <1>4, <2>2
    <3>2. \A c \in Clients : pc[c] = "idle" => seen'[c] \in Moments
      BY NoEntryType DEF Saw
    <3>3. seen' = [c \in Clients |-> seen'[c]]
      BY DEF Saw
    <3> QED
      BY <3>1, <3>2, <3>3
  <2> QED
    BY <1>1, <2>1, <2>3 DEF Types, cache
<1> HIDE DEF I, E
<1>6. CacheInv'
  <2>1. datasets' = datasets /\ videos' = videos
    BY DEF cache
  <2> QED
    BY <1>1, <1>3, <2>1, StoreGrows DEF CacheInv
<1>7. MetInv'
  <2>1. SUFFICES ASSUME NEW s \in Stores
                 PROVE  /\ <<info'[s], episodes'[s]>> \in met'[s]
                        /\ \A had \in met'[s] :
                              had[1] <= info'[s] /\ \A f \in EpisodeFiles : had[2][f] <= episodes'[s][f]
    BY DEF MetInv
  <2>2. /\ info[s] \in Nat /\ info'[s] \in Nat /\ info[s] <= info'[s]
        /\ \A f \in EpisodeFiles : /\ episodes[s][f] \in Nat /\ episodes'[s][f] \in Nat
                                   /\ episodes[s][f] <= episodes'[s][f]
    BY <1>1 DEF Types
  <2>3. ASSUME NEW had \in met[s]
        PROVE  had[1] <= info'[s] /\ \A f \in EpisodeFiles : had[2][f] <= episodes'[s][f]
    <3>1. had[1] \in Nat /\ \A f \in EpisodeFiles : had[2][f] \in Nat
      BY <1>1, MetType
    <3>2. had[1] <= info[s] /\ \A f \in EpisodeFiles : had[2][f] <= episodes[s][f]
      BY <1>1 DEF MetInv
    <3> QED
      BY <2>2, <3>1, <3>2
  <2> QED
    BY <1>3, <2>2, <2>3
<1>8. ASSUME NEW c \in Clients, pc[c] = "idle" PROVE ClientInv(c)'
  <2>1. call[c].phase = "only" /\ next[c] = 1
    BY <1>8, Facts DEF KeysInv, ListingInv
  <2> QED
    BY <1>8, <2>1 DEF ClientInv, SeenInv, KeysInv, ListingInv, CachedInv, LoadingInv, GotInv,
          RoutesInv, SecondInv, ReturnInv, CachedSteps, LoadingSteps
<1>9. ASSUME NEW c \in Clients, pc[c] # "idle" PROVE ClientInv(c)'
  <2>1. /\ pc'[c] = pc[c] /\ call'[c] = call[c] /\ key'[c] = key[c] /\ before'[c] = before[c]
        /\ valid'[c] = valid[c] /\ next'[c] = next[c] /\ dataset'[c] = dataset[c]
        /\ video'[c] = video[c]
    OBVIOUS
  <2>2. /\ seen'[c].info = seen[c].info \cup {I} /\ seen'[c].episodes = seen[c].episodes \cup {E}
        /\ seen[c].info \subseteq seen'[c].info /\ seen[c].episodes \subseteq seen'[c].episodes
    <3>1. seen'[c] = [info |-> seen[c].info \cup {I}, episodes |-> seen[c].episodes \cup {E}]
      BY <1>4, <1>9
    <3>2. seen'[c].info = seen[c].info \cup {I} /\ seen'[c].episodes = seen[c].episodes \cup {E}
      BY <3>1
    <3> QED
      BY <3>2
  <2>3. config' = config \/ \A f \in seen[c].info : f.store # config'
    BY <1>9 DEF NoWayBack, Busy
  <2>4. pc[c] \notin {"key", "video_key"} /\ Keyed(c)' => Keyed(c) /\ config' = config
    BY <1>9, <2>1, <2>3, Facts DEF KeysInv, Keyed
  <2>5. (call[c].phase = "second" \/ (call[c].phase = "first" /\ pc[c] # "video_key"))
           /\ VideoKeyed(c)' => VideoKeyed(c) /\ config' = config
    BY <1>9, <2>1, <2>3, Facts DEF KeysInv, VideoKeyed
  <2>6. /\ dataset[c] \in Entry /\ video[c] \in Entry /\ config \in Stores /\ before[c] \in Int
        /\ key[c]["dataset"] \in Stores /\ key[c]["video"] \in Stores
        /\ call[c].phase \in {"only", "first", "second"}
    BY <1>1, LocalTypes
  <2>7. \A s \in Stores : met[s] \subseteq met'[s]
    BY <1>3
  <2>8. \A e : ListedSeen(seen[c].episodes, e) => ListedSeen(seen'[c].episodes, e)
    BY <2>2, MomentsGrow
  <2>9. \A e, n : Checked(met[config], seen[c].episodes, config, e, n) =>
                     Checked(met'[config], seen'[c].episodes, config, e, n)
    BY <2>2, <2>6, <2>7, CheckedGrows
  <2>10. \A s \in Stores :
            /\ \A e : EntryOK(met[s], s, e) => EntryOK(met'[s], s, e)
            /\ \A e : RowsSince(met[s], s, e) => RowsSince(met'[s], s, e)
            /\ \A v, g : SameManifest(met[s], s, v, g) => SameManifest(met'[s], s, v, g)
    BY <2>7, StoreGrows
  <2>11. SeenInv(c)'
    <3>1. ASSUME NEW f \in seen[c].info PROVE f.generation <= info'[f.store]
      <4>1. f \in FileState /\ f.generation <= info[f.store]
        BY <1>1, <1>9, LocalTypes, Facts DEF SeenInv, Moments
      <4> QED
        BY <1>1, <4>1 DEF FileState, Types
    <3>2. I.generation <= info'[I.store]
      BY <1>2
    <3> QED
      BY <1>2, <2>2, <3>1, <3>2 DEF SeenInv
  <2>12. KeysInv(c)'
    BY <1>9, <2>1, <2>2, <2>4, <2>5, <2>6, Facts DEF KeysInv, Keyed, VideoKeyed
  <2>13. ListingInv(c)'
    BY <2>1, Facts DEF ListingInv
  <2>14. CachedInv(c)'
    <3>1. CASE pc[c] \in CachedSteps
      <4>1. CachedInv(c)
        BY Facts
      <4>2. EntryOK(met'[key[c]["dataset"]], key[c]["dataset"], dataset[c])
        BY <2>6, <2>10, <3>1, <4>1 DEF CachedInv
      <4>3. Keyed(c)' => Keyed(c) /\ config' = config
        BY <2>4, <3>1 DEF CachedSteps
      <4> QED
        BY <2>1, <2>2, <2>8, <2>9, <4>1, <4>2, <4>3 DEF CachedInv
    <3>2. CASE pc[c] \notin CachedSteps
      BY <2>1, <3>2 DEF CachedInv, CachedSteps
    <3> QED
      BY <3>1, <3>2
  <2>15. LoadingInv(c)'
    <3>1. ASSUME Keyed(c)', pc[c] \in LoadingSteps
          PROVE  /\ Keyed(c) /\ config' = config
                 /\ \A g \in Int : g <= info[config] => g <= info'[config]
                 /\ NotAhead(episodes[config], dataset[c]) => NotAhead(episodes'[config], dataset[c])
      <4>1. Keyed(c) /\ config' = config
        BY <2>4, <3>1 DEF LoadingSteps
      <4>2. \A g \in Int : g <= info[config] => g <= info'[config]
        BY <1>1, <2>6 DEF Types
      <4>3. ASSUME NotAhead(episodes[config], dataset[c])
            PROVE  NotAhead(episodes'[config], dataset[c])
        <5>1. SUFFICES ASSUME NEW f \in EpisodeFiles
                       PROVE  dataset[c].episode_files[f] <= episodes'[config][f]
          BY DEF NotAhead
        <5>2. /\ dataset[c].episode_files[f] \in Int /\ episodes[config][f] \in Nat
              /\ episodes'[config][f] \in Nat /\ episodes[config][f] <= episodes'[config][f]
          BY <1>1, <2>6, EntryType DEF Types
        <5> QED
          BY <4>3, <5>2 DEF NotAhead
      <4> QED
        BY <4>1, <4>2, <4>3
    <3>2. LoadingInv(c)
      BY Facts
    <3> QED
      BY <2>1, <2>2, <2>6, <2>8, <2>9, <2>10, <3>1, <3>2 DEF LoadingInv, LoadingSteps
  <2>16. GotInv(c)'
    BY <2>1, <2>2, <2>6, <2>8, <2>10, Facts DEF GotInv
  <2>17. RoutesInv(c)'
    <3>1. pc[c] = "load_video" => call[c].phase = "first"
      BY Facts DEF KeysInv
    <3> QED
      BY <2>1, <2>2, <2>5, <2>6, <2>7, <2>10, <3>1, Facts DEF RoutesInv
  <2>18. SecondInv(c)'
    BY <2>1, <2>5, <2>6, <2>10, Facts DEF SecondInv, LoadingSteps
  <2>19. ReturnInv(c)'
    BY <2>1, <2>2, <2>8, Facts DEF ReturnInv
  <2> QED
    BY <2>11, <2>12, <2>13, <2>14, <2>15, <2>16, <2>17, <2>18, <2>19 DEF ClientInv
<1> QED
  BY <1>5, <1>6, <1>7, <1>8, <1>9 DEF IInv

\* Other connections may switch the configuration or rewrite the files at any moment.
LEMMA OthersStep ==
    ASSUME IInv, NEW s \in Stores,
           SwitchConfig(s) \/ RewriteInfo(s) \/ \E f \in EpisodeFiles : RewriteEpisodes(s, f),
           NoWayBack
    PROVE  IInv'
<1>1. Types
  BY DEF IInv
<1>2. \A x \in Stores : info[x] \in Nat /\ \A f \in EpisodeFiles : episodes[x][f] \in Nat
  BY <1>1 DEF Types
<1>3. CASE SwitchConfig(s)
  BY <1>1, <1>2, <1>3, WorldStep DEF SwitchConfig, Types
<1>4. CASE RewriteInfo(s)
  BY <1>1, <1>2, <1>4, WorldStep DEF RewriteInfo, Types
<1>5. ASSUME NEW f \in EpisodeFiles, RewriteEpisodes(s, f) PROVE IInv'
  <2>1. episodes' \in [Stores -> [EpisodeFiles -> Nat]]
    BY <1>1, <1>2, <1>5 DEF RewriteEpisodes, Types
  <2>2. \A x \in Stores : \A g \in EpisodeFiles : episodes[x][g] <= episodes'[x][g]
    BY <1>1, <1>2, <1>5 DEF RewriteEpisodes, Types
  <2> QED
    BY <1>1, <1>2, <1>5, <2>1, <2>2, WorldStep DEF RewriteEpisodes, Types
<1> QED
  BY <1>3, <1>4, <1>5

-----------------------------------------------------------------------------
(* The theorems *)

LEMMA InitInv == ASSUME Init PROVE IInv
<1>1. Types
  <2>1. /\ call = [c \in Clients |-> [refresh |-> FALSE, phase |-> "only"]]
        /\ attempt = [c \in Clients |-> [g \in Gets |-> 0]]
        /\ key = [c \in Clients |-> [g \in Gets |-> CHOOSE s \in Stores : TRUE]]
        /\ episodes = [s \in Stores |-> [f \in EpisodeFiles |-> 0]]
    BY DEF Init
  <2>2. /\ call \in [Clients -> [refresh : BOOLEAN, phase : {"only", "first", "second"}]]
        /\ attempt \in [Clients -> [Gets -> Nat]] /\ key \in [Clients -> [Gets -> Stores]]
        /\ episodes \in [Stores -> [EpisodeFiles -> Nat]]
    BY <2>1, NoEntryType
  <2>3. met \in [Stores -> SUBSET (Nat \X [EpisodeFiles -> Nat])]
    BY <2>2 DEF Init
  <2> QED
    BY <2>2, <2>3, NoEntryType DEF Init, Types, Steps
<1>2. CacheInv /\ MetInv
  BY DEF Init, CacheInv, MetInv
<1>3. ASSUME NEW c \in Clients PROVE ClientInv(c)
  BY DEF Init, ClientInv, SeenInv, KeysInv, ListingInv, CachedInv, LoadingInv, GotInv, RoutesInv,
        SecondInv, ReturnInv, CachedSteps, LoadingSteps
<1> QED
  BY <1>1, <1>2, <1>3 DEF IInv

LEMMA NextInv == ASSUME IInv, [Next]_vars, NoWayBack PROVE IInv'
<1>1. ASSUME NEW c \in Clients, GetDataset(c) PROVE IInv'
  BY <1>1, BeginStep, KeyStep, InvalidateStep, CachedStep, InfoValidStep, FilesValidStep,
     RecheckStep, BeforeStep, LoadInfoStep, LoadFilesStep, LoadEpisodesStep, LoadedValidStep,
     AfterStep, PublishStep DEF GetDataset
<1>2. ASSUME NEW c \in Clients, GetVideo(c) PROVE IInv'
  BY <1>2, BeginStep, VideoKeyStep, VideoCachedStep, VideoLoadStep, VideoReadStep,
     VideoLoadedStep, VideoOtherKeyStep, PublishVideoStep DEF GetVideo
<1>3. ASSUME NEW c \in Clients, Return(c) \/ Throw(c) PROVE IInv'
  BY <1>3, EndStep DEF Return, Throw
<1>4. ASSUME NEW s \in Stores,
             SwitchConfig(s) \/ RewriteInfo(s) \/ \E f \in EpisodeFiles : RewriteEpisodes(s, f)
      PROVE  IInv'
  BY <1>4, OthersStep
<1>5. CASE UNCHANGED vars
  <2>1. /\ UNCHANGED world /\ UNCHANGED cache
        /\ UNCHANGED <<pc, call, attempt, key, before, valid, next, dataset, video, seen>>
    BY <1>5 DEF vars
  <2>2. Types' /\ MetInv'
    BY <2>1, WorldIs DEF IInv, Types, MetInv, cache
  <2>3. CacheInv'
    BY <2>1, CacheKept
  <2>4. ASSUME NEW c \in Clients PROVE ClientInv(c)'
    BY <2>1, Untouched DEF IInv
  <2> QED
    BY <2>2, <2>3, <2>4 DEF IInv
<1> QED
  BY <1>1, <1>2, <1>3, <1>4, <1>5 DEF Next

LEMMA Kept == Spec /\ [][NoWayBack]_vars => []IInv
<1>1. IInv /\ [Next]_vars /\ [NoWayBack]_vars => IInv'
  <2>1. CASE NoWayBack
    BY <2>1, NextInv
  <2>2. CASE UNCHANGED vars
    BY <2>2, NextInv DEF NoWayBack, vars, world
  <2> QED
    BY <2>1, <2>2
<1> QED
  BY <1>1, InitInv, PTL DEF Spec

LEMMA Implied == IInv => EntryIsSnapshot /\ EntryIsItsFingerprint /\ KeptUnderItsKey /\ ReturnedCurrent
<1> SUFFICES ASSUME IInv PROVE EntryIsSnapshot /\ EntryIsItsFingerprint /\ KeptUnderItsKey /\ ReturnedCurrent
  OBVIOUS
<1>1. ASSUME NEW s \in Stores, NEW e \in Entries(s) PROVE EntryOK(met[s], s, e)
  BY DEF IInv, CacheInv, Entries
<1>2. EntryIsSnapshot
  <2>1. SUFFICES ASSUME NEW s \in Stores, NEW e \in Entries(s)
                 PROVE  /\ e.episode_files # Unlisted => <<e.info.generation, Generations(e)>> \in met[s]
                        /\ e.episodes # NoRows =>
                              \A f \in EpisodeFiles : \E had \in met[s] :
                                 had[1] = e.info.generation /\ had[2][f] = e.episodes[f].generation
    BY DEF EntryIsSnapshot
  <2> QED
    BY <1>1 DEF EntryOK, With
<1>3. EntryIsItsFingerprint
  BY <1>1 DEF EntryIsItsFingerprint, EntryOK
<1>4. KeptUnderItsKey
  <2>1. SUFFICES ASSUME NEW s \in Stores, NEW e \in Entries(s), NEW f \in Read(e) PROVE f.store = s
    BY DEF KeptUnderItsKey
  <2>2. CASE f = e.info
    BY <1>1, <2>2 DEF EntryOK
  <2>3. ASSUME NEW g \in EpisodeFiles, f = e.episodes[g], f # NoFile PROVE f.store = s
    <3>1. e.episodes # NoRows
      BY <2>3, NoEntryType
    <3> QED
      BY <1>1, <2>3, <3>1 DEF EntryOK, With
  <2> QED
    BY <2>2, <2>3 DEF Read
<1>5. ReturnedCurrent
  <2>1. SUFFICES ASSUME NEW c \in Clients, pc[c] = "return"
                 PROVE  LET entry == IF call[c].phase = "only" THEN dataset[c] ELSE video[c]
                        IN /\ entry.info \in seen[c].info
                           /\ entry.episode_files # Unlisted =>
                                 \E files \in seen[c].episodes : entry.episodes = RowsOf(files)
    BY DEF ReturnedCurrent
  <2>2. GotInv(c) /\ ReturnInv(c)
    BY Facts
  <2> QED
    BY <2>1, <2>2 DEF GotInv, ReturnInv, ListedSeen
<1> QED
  BY <1>2, <1>3, <1>4, <1>5

\* What Get keeps was read while the root had its manifest, although manifest and episode files
\* are read one after the other while writers rewrite them.  If the episode files were listed, as
\* those of a remote root are, the root had the manifest and all of them at one moment.  If they
\* were not, as those of a local root, whose entry is compared with the manifest alone, it had the
\* manifest and each of them at a moment of its own.
THEOREM KeptSnapshot == Spec /\ [][NoWayBack]_vars => []EntryIsSnapshot
BY Kept, Implied, PTL

\* An entry that Get keeps was read from the generations that it will be checked against.
THEOREM KeptFingerprint == Spec /\ [][NoWayBack]_vars => []EntryIsItsFingerprint
BY Kept, Implied, PTL

\* What Get keeps was read from the store that its key leads to.
THEOREM KeptStore == Spec /\ [][NoWayBack]_vars => []KeptUnderItsKey
BY Kept, Implied, PTL

\* What Get returns, cached or loaded, was the root's at some moment of the call: the manifest,
\* and all episode files together if they were listed.
THEOREM Current == Spec /\ [][NoWayBack]_vars => []ReturnedCurrent
BY Kept, Implied, PTL

-----------------------------------------------------------------------------
(* One change of the configuration leads nowhere back. *)

SeenOnlyThis ==
    /\ switches \in Nat
    /\ switches = 0 => \A c \in Busy : \A f \in seen[c].info : f.store = config

LEMMA SeenOnlyThisStep ==
    ASSUME IInv, SeenOnlyThis, [Next]_vars, MaxSwitches <= 1
    PROVE  SeenOnlyThis' /\ NoWayBack
<1>1. Types
  BY DEF IInv
<1>2. ASSUME NEW c \in Clients, GetDataset(c) \/ GetVideo(c) \/ Return(c) \/ Throw(c)
      PROVE  SeenOnlyThis' /\ NoWayBack
  <2>1. UNCHANGED world
    BY <1>2 DEF GetDataset, GetVideo, Return, Throw, BeginDataset, Key, Invalidate, Cached,
       InfoValid, FilesValid, Recheck, Before, LoadInfo, LoadFiles, LoadEpisodes, LoadedValid,
       After, Publish, BeginVideo, VideoKey, VideoCached, VideoLoad, VideoRead, VideoLoaded,
       VideoOtherKey, PublishVideo
  <2>2. config' = config /\ switches' = switches /\ NoWayBack
    BY <2>1 DEF world, NoWayBack
  <2>3. CASE BeginDataset(c) \/ BeginVideo(c)
    <3>1. /\ seen' = [seen EXCEPT ![c] = [info |-> {File(info)}, episodes |-> {File(episodes)}]]
          /\ \A x \in Clients \ {c} : pc'[x] = pc[x]
      BY <1>1, <2>3 DEF BeginDataset, BeginVideo, Goto, Types
    <3>2. File(info).store = config
      BY DEF File
    <3>3. seen'[c].info = {File(info)} /\ \A x \in Clients \ {c} : seen'[x] = seen[x]
      BY <1>1, <3>1 DEF Types
    <3> QED
      BY <2>2, <3>1, <3>2, <3>3 DEF SeenOnlyThis, Busy
  <2>4. CASE ~(BeginDataset(c) \/ BeginVideo(c))
    <3>1. /\ pc[c] # "idle"
          /\ \/ seen' = seen /\ \A x \in Clients \ {c} : pc'[x] = pc[x]
             \/ End(c)
      <4>1. CASE GetDataset(c)
        BY <1>1, <2>4, <4>1 DEF Types, GetDataset, Key, Invalidate, Cached, InfoValid, FilesValid,
           Recheck, Before, LoadInfo, LoadFiles, LoadEpisodes, LoadedValid, After, Publish,
           FilesAreValid, Visit, Goto, Got, Retry
      <4>2. CASE GetVideo(c)
        BY <1>1, <2>4, <4>2 DEF Types, GetVideo, VideoKey, VideoCached, VideoLoad, VideoRead,
           VideoLoaded, VideoOtherKey, PublishVideo, Goto, Retry
      <4>3. CASE Return(c) \/ Throw(c)
        BY <4>3 DEF Return, Throw
      <4> QED
        BY <1>2, <4>1, <4>2, <4>3
    <3>2. CASE End(c)
      <4>1. pc'[c] = "idle" /\ \A x \in Clients \ {c} : pc'[x] = pc[x] /\ seen'[x] = seen[x]
        BY <1>1, <3>2 DEF End, Goto, Types
      <4> QED
        BY <2>2, <4>1 DEF SeenOnlyThis, Busy
    <3> QED
      BY <2>2, <3>1, <3>2 DEF SeenOnlyThis, Busy
  <2> QED
    BY <2>3, <2>4
<1>3. ASSUME NEW s \in Stores, SwitchConfig(s) PROVE SeenOnlyThis' /\ NoWayBack
  BY <1>3, StoresAssumption DEF SwitchConfig, SeenOnlyThis, NoWayBack
<1>4. ASSUME NEW s \in Stores, RewriteInfo(s) \/ \E f \in EpisodeFiles : RewriteEpisodes(s, f)
      PROVE  SeenOnlyThis' /\ NoWayBack
  <2>1. config' = config /\ switches' = switches /\ pc' = pc /\ Saw
    BY <1>4 DEF RewriteInfo, RewriteEpisodes
  <2>2. ASSUME NEW c \in Clients, pc[c] # "idle", NEW f \in seen'[c].info, f \notin seen[c].info
        PROVE  f.store = config
    BY <2>1, <2>2 DEF Saw
  <2> QED
    BY <2>1, <2>2 DEF SeenOnlyThis, Busy, NoWayBack
<1>5. CASE UNCHANGED vars
  BY <1>5 DEF vars, world, SeenOnlyThis, Busy, NoWayBack
<1> QED
  BY <1>2, <1>3, <1>4, <1>5 DEF Next

LEMMA OneSwitch == ASSUME MaxSwitches <= 1 PROVE Spec => []IInv
<1>1. IInv /\ SeenOnlyThis /\ [Next]_vars => IInv' /\ SeenOnlyThis'
  BY SeenOnlyThisStep, NextInv
<1>2. Init => IInv /\ SeenOnlyThis
  BY InitInv DEF Init, SeenOnlyThis, Busy
<1> QED
  BY <1>1, <1>2, PTL DEF Spec

\* If the configuration changes only once, no hypothesis on it is needed.
THEOREM OneSwitchSnapshot == ASSUME MaxSwitches <= 1 PROVE Spec => []EntryIsSnapshot
BY OneSwitch, Implied, PTL

\* The same for what the entries are checked against.
THEOREM OneSwitchFingerprint == ASSUME MaxSwitches <= 1 PROVE Spec => []EntryIsItsFingerprint
BY OneSwitch, Implied, PTL

\* The same for what Get returns.
THEOREM OneSwitchCurrent == ASSUME MaxSwitches <= 1 PROVE Spec => []ReturnedCurrent
BY OneSwitch, Implied, PTL
=============================================================================
