-------------------------- MODULE TimestampLookup --------------------------
(***************************************************************************)
(* LerobotTimestampLookup, the timestamps of target frames, shared by the  *)
(* workers of one lerobot_video_targets operator                           *)
(* (src/src/storage/lerobot_timestamp_lookup.cpp).                         *)
(*                                                                         *)
(* A data shard that is looked up again and again is read once into an     *)
(* index.  One worker loads it, the others go on with filtered queries;    *)
(* nobody waits.  The mutex is released while files are read, so that a    *)
(* file may be rewritten, and its slot evicted, under a loader.  All       *)
(* indexes that anybody still holds fit the byte budget.                   *)
(***************************************************************************)
EXTENDS Integers, FiniteSets, Sequences, FiniteSetsExt, SequencesExt

CONSTANTS
    Workers,              \* the threads of the operator
    Shards,               \* the data files
    Rows,                 \* how many rows each version of a file has
    Limit,                \* the limit of IndexBudget, in rows
    MaxTracked,           \* MAX_TRACKED_SHARDS
    IndexOnVisit,         \* INDEX_ON_VISIT
    MinRequests,          \* min_requests
    LastVersion           \* bound: of the rewrites of a file

ASSUME LookupAssumption ==
    /\ IsFiniteSet(Workers) /\ IsFiniteSet(Shards) /\ Shards # {}
    /\ LastVersion \in Nat /\ Rows \in [0..LastVersion -> Nat]
    /\ Limit \in Nat \ {0}     \* without a budget GetIndex returns at once
    /\ MaxTracked \in Nat \ {0} /\ IndexOnVisit \in Nat \ {0} /\ MinRequests \in Nat

VARIABLES
    version,          \* external: the version of each file
    requests,         \* up to min_requests
    slots,            \* the slot of each tracked shard
    recency,          \* the tracked shards, the longest unused first
    slot,             \* the slots that are tracked or held
    pc,               \* the step of each worker
    todo,             \* the files its lookup has still to ask
    shard,            \* the file it asks
    held,             \* the slot it holds
    fingerprint,      \* the version it read
    row_count,        \* the rows the footer told
    unchanged,        \* whether the version was the same after loading
    index,            \* the index it holds
    since             \* history: the versions each file it asks had since the lookup began

files == <<version, since>>
cache == <<slots, recency, slot>>
locals == <<held, fingerprint, row_count, unchanged, index>>
vars == <<version, requests, slots, recency, slot, pc, todo, shard, locals, since>>

NoVersion == -1
NoSlot == 0
Slots == 1..(MaxTracked + Cardinality(Workers) + 1)

\* An index is known by its id as long as anybody holds it.
NoIndex == [id |-> 0, rows |-> 0, holds |-> {}]
NewSlot == [fingerprint |-> NoVersion, visits |-> 0, loading |-> FALSE, skipped |-> FALSE,
            index |-> NoIndex]

Loading == {"count", "reserve", "read", "reread", "recheck", "publish"}

Init ==
    /\ version = [s \in Shards |-> 0]
    /\ since = [w \in Workers |-> [s \in Shards |-> {}]]
    /\ requests = 0
    /\ slots = [s \in Shards |-> NoSlot] /\ recency = <<>>
    /\ slot = [i \in Slots |-> NewSlot]
    /\ pc = [w \in Workers |-> "idle"] /\ todo = [w \in Workers |-> {}]
    /\ shard \in [Workers -> {CHOOSE s \in Shards : TRUE}]
    /\ held = [w \in Workers |-> NoSlot] /\ fingerprint = [w \in Workers |-> NoVersion]
    /\ row_count = [w \in Workers |-> 0] /\ unchanged = [w \in Workers |-> FALSE]
    /\ index = [w \in Workers |-> NoIndex]

-----------------------------------------------------------------------------
(* Slots and indexes are shared pointers *)

\* What remains of the slots when the last reference to some is gone.
Kept(new_slot, new_slots, new_held) ==
    [i \in Slots |-> IF \/ \E s \in Shards : new_slots[s] = i
                        \/ \E w \in Workers : new_held[w] = i
                     THEN new_slot[i] ELSE NewSlot]

FreeSlot == CHOOSE i \in Slots : /\ \A s \in Shards : slots[s] # i
                                 /\ \A w \in Workers : held[w] # i

\* The indexes that are alive when the slots in `evicted' have let go of theirs.
LiveWithout(evicted) ==
    ({slot[i].index : i \in Slots \ evicted} \cup {index[w] : w \in Workers}) \ {NoIndex}
Live == LiveWithout({})
BytesOf(indexes) == Cardinality(UNION {{i} \X (1..i.rows) : i \in indexes})
NewId == CHOOSE n \in 1..(Cardinality(Live) + 1) : \A i \in Live : i.id # n

-----------------------------------------------------------------------------
(* A lookup *)

Goto(w, step) == pc' = [pc EXCEPT ![w] = step]

\* GetIndex returns: the worker lets go of its slot.
Return(w) ==
    /\ held' = [held EXCEPT ![w] = NoSlot]
    /\ fingerprint' = [fingerprint EXCEPT ![w] = NoVersion]
    /\ row_count' = [row_count EXCEPT ![w] = 0]
    /\ unchanged' = [unchanged EXCEPT ![w] = FALSE]
LetGo(w, new_slot) == Return(w) /\ slot' = Kept(new_slot, slots, held')

\* The lookup is through with some files.
Asked(w, through) == since' = [since EXCEPT ![w] = [s \in Shards |-> IF s \in through THEN {} ELSE @[s]]]

\* Lookup: its requests count toward the threshold, then it asks each of its files.
Begin(w) ==
    /\ pc[w] = "idle"
    /\ \E asked \in SUBSET Shards \ {{}} :
          /\ todo' = [todo EXCEPT ![w] = asked]
          /\ since' = [since EXCEPT ![w] = [s \in Shards |-> IF s \in asked THEN {version[s]} ELSE {}]]
    /\ \E n \in 1..Max({1, MinRequests}) : requests' = Min({MinRequests, requests + n})
    /\ Goto(w, "visit")
    /\ UNCHANGED <<version, cache, shard, locals>>

\* A new shard takes the place of the one unused for longest.
Evicted(s) == IF slots[s] = NoSlot /\ Len(recency) = MaxTracked THEN {Head(recency)} ELSE {}
PlacesOf(shards) == {n \in 1..Len(recency) : recency[n] \in shards}

\* GetIndex, its first locked section: the file is tracked and used.  One that was asked
\* seldom, or is being loaded, is left to the filtered query.
Visit(w, s) ==
    LET evicted == Evicted(s)
        left == PlacesOf(evicted \cup {s})
        i == IF slots[s] = NoSlot THEN FreeSlot ELSE slots[s]
        visits == Min({slot[i].visits + 1, IndexOnVisit})
        eligible == visits = IndexOnVisit /\ requests >= MinRequests /\ ~slot[i].loading
    IN /\ pc[w] = "visit" /\ s \in todo[w]
       /\ slots' = [x \in Shards |-> CASE x = s -> i [] x \in evicted -> NoSlot [] OTHER -> slots[x]]
       /\ recency' = Append(IF left = {} THEN recency ELSE RemoveAt(recency, CHOOSE n \in left : TRUE), s)
       /\ held' = IF eligible THEN [held EXCEPT ![w] = i] ELSE held
       /\ slot' = Kept([slot EXCEPT ![i].visits = visits], slots', held')
       /\ todo' = [todo EXCEPT ![w] = @ \ {s}]
       /\ IF eligible THEN /\ shard' = [shard EXCEPT ![w] = s] /\ Goto(w, "stat")
                           /\ UNCHANGED since
                      ELSE Asked(w, {s}) /\ UNCHANGED <<shard, pc>>
       /\ UNCHANGED <<version, requests, fingerprint, row_count, unchanged, index>>

\* ReadFingerprint, without the mutex.
Stat(w) ==
    /\ pc[w] = "stat"
    /\ fingerprint' = [fingerprint EXCEPT ![w] = version[shard[w]]]
    /\ Goto(w, "check")
    /\ UNCHANGED <<files, requests, cache, todo, shard, held, row_count, unchanged, index>>

\* GetIndex, its second locked section.
Slot(w) == slot[held[w]]
Current(w) == slots[shard[w]] = held[w]
SameFile(w) == Slot(w).fingerprint \in {NoVersion, fingerprint[w]}

\* The slot was evicted or replaced, or somebody loads it, or it shall not be loaded.
CheckMiss(w) ==
    /\ pc[w] = "check"
    /\ \/ ~Current(w) \/ Slot(w).loading
       \/ SameFile(w) /\ Slot(w).index = NoIndex /\ Slot(w).skipped
    /\ LetGo(w, slot) /\ Goto(w, "visit") /\ Asked(w, {shard[w]})
    /\ UNCHANGED <<version, requests, slots, recency, todo, shard, index>>

\* The file was rewritten: it starts over.
CheckChanged(w) ==
    LET i == FreeSlot
    IN /\ pc[w] = "check" /\ Current(w) /\ ~Slot(w).loading /\ ~SameFile(w)
       /\ slots' = [slots EXCEPT ![shard[w]] = i]
       /\ Return(w)
       /\ slot' = Kept([slot EXCEPT ![i] = [NewSlot EXCEPT !.fingerprint = fingerprint[w],
                                                           !.visits = 1]], slots', held')
       /\ Goto(w, "visit") /\ Asked(w, {shard[w]})
       /\ UNCHANGED <<version, requests, recency, todo, shard, index>>

\* Mutant: the index answers whatever became of the file.
HitUnchecked(w) ==
    /\ pc[w] = "check" /\ Current(w) /\ ~Slot(w).loading /\ Slot(w).index # NoIndex
    /\ index' = [index EXCEPT ![w] = Slot(w).index]
    /\ LetGo(w, slot) /\ Goto(w, "find")
    /\ UNCHANGED <<files, requests, slots, recency, todo, shard>>

CheckHit(w) ==
    /\ pc[w] = "check" /\ Current(w) /\ ~Slot(w).loading /\ SameFile(w)
    /\ Slot(w).index # NoIndex
    /\ index' = [index EXCEPT ![w] = Slot(w).index]
    /\ LetGo(w, slot) /\ Goto(w, "find")
    /\ UNCHANGED <<files, requests, slots, recency, todo, shard>>

CheckLoad(w) ==
    /\ pc[w] = "check" /\ Current(w) /\ ~Slot(w).loading /\ SameFile(w)
    /\ Slot(w).index = NoIndex /\ ~Slot(w).skipped
    /\ slot' = [slot EXCEPT ![held[w]].fingerprint = fingerprint[w], ![held[w]].loading = TRUE]
    /\ Goto(w, "count")
    /\ UNCHANGED <<files, requests, slots, recency, todo, shard, locals>>

-----------------------------------------------------------------------------
(* Loading an index *)

\* The footer tells how many rows there are.  More than the limit are not loaded.
CountRows(w) ==
    LET n == Rows[version[shard[w]]]
    IN /\ pc[w] = "count"
       /\ row_count' = [row_count EXCEPT ![w] = n]
       /\ Goto(w, IF n > Limit THEN "recheck" ELSE "reserve")
       /\ UNCHANGED <<files, requests, cache, todo, shard, held, fingerprint, unchanged, index>>

\* The slots of the k shards that were not used for longest.
Oldest(k) == {slots[recency[n]] : n \in 1..k}

\* Mutant: an index that is evicted no longer counts, whoever reads it.
FitsUnpinned(n, k) == n + BytesOf({slot[i].index : i \in Slots \ Oldest(k)} \ {NoIndex}) <= Limit

\* Whether n rows fit when these have let go of their indexes.  Indexes with a reader stay.
Fits(n, k) == n + BytesOf(LiveWithout(Oldest(k))) <= Limit

\* The oldest k let go of their indexes.  Their shards are not loaded again.
Evict(k) ==
    slot' = [i \in Slots |-> IF i \in Oldest(k) /\ slot[i].index # NoIndex
                             THEN [slot[i] EXCEPT !.index = NoIndex, !.skipped = TRUE]
                             ELSE slot[i]]

\* Reserve: indexes are evicted, the one unused for longest first, until the rows fit, or to
\* no avail.
Reserve(w) ==
    LET n == row_count[w]
        enough == {k \in 0..Len(recency) : Fits(n, k)}
    IN /\ pc[w] = "reserve"
       /\ \/ \E k \in enough :
                /\ \A j \in enough : k <= j
                /\ Evict(k)
                /\ index' = [index EXCEPT ![w] = [id |-> NewId, rows |-> n, holds |-> {}]]
                /\ Goto(w, "read")
          \/ enough = {} /\ Evict(Len(recency)) /\ Goto(w, "recheck") /\ UNCHANGED index
       /\ UNCHANGED <<files, requests, slots, recency, todo, shard, held, fingerprint, row_count,
                      unchanged>>

\* The columns are read while the file may be rewritten.
ReadSome(w) ==
    /\ pc[w] = "read"
    /\ index' = [index EXCEPT ![w].holds = {version[shard[w]]}]
    /\ Goto(w, "reread")
    /\ UNCHANGED <<files, requests, cache, todo, shard, held, fingerprint, row_count, unchanged>>

ReadRest(w) ==
    /\ pc[w] = "reread"
    /\ index' = [index EXCEPT ![w].holds = @ \cup {version[shard[w]]}]
    /\ Goto(w, "recheck")
    /\ UNCHANGED <<files, requests, cache, todo, shard, held, fingerprint, row_count, unchanged>>

\* There is no index: a query or the allocation failed, or the file has more rows than its
\* footer told.  The filtered query will decide whether the file can be read.
LoadFails(w) ==
    /\ pc[w] \in {"count", "read", "reread"}
    /\ index' = [index EXCEPT ![w] = NoIndex]
    /\ Goto(w, "recheck")
    /\ UNCHANGED <<files, requests, cache, todo, shard, held, fingerprint, row_count, unchanged>>

\* Mutant: what was loaded is taken for the version it was asked for.
AssumeUnchanged(w) ==
    /\ pc[w] = "recheck"
    /\ unchanged' = [unchanged EXCEPT ![w] = TRUE]
    /\ Goto(w, "publish")
    /\ UNCHANGED <<files, requests, cache, todo, shard, held, fingerprint, row_count, index>>

\* ReadFingerprint once more, without the mutex.
Recheck(w) ==
    /\ pc[w] = "recheck"
    /\ unchanged' = [unchanged EXCEPT ![w] = version[shard[w]] = fingerprint[w]]
    /\ Goto(w, "publish")
    /\ UNCHANGED <<files, requests, cache, todo, shard, held, fingerprint, row_count, index>>

\* GetIndex, its third locked section.  The index is kept if the slot is still tracked.
Publish(w) ==
    LET kept == unchanged[w] /\ Current(w)
        done == [Slot(w) EXCEPT !.loading = FALSE]
    IN /\ pc[w] = "publish"
       /\ LetGo(w, [slot EXCEPT ![held[w]] =
             IF kept THEN [done EXCEPT !.skipped = index[w] = NoIndex, !.index = index[w]] ELSE done])
       /\ Goto(w, IF index[w] = NoIndex THEN "visit" ELSE IF kept THEN "find" ELSE "drop")
       /\ IF index[w] = NoIndex THEN Asked(w, {shard[w]}) ELSE UNCHANGED since
       /\ UNCHANGED <<version, requests, slots, recency, todo, shard, index>>

\* The index goes after the mutex: unused, or when the lookup has searched it.
DropIndex(w) ==
    /\ pc[w] \in {"drop", "find"}
    /\ index' = [index EXCEPT ![w] = NoIndex]
    /\ Goto(w, "visit") /\ Asked(w, {shard[w]})
    /\ UNCHANGED <<version, requests, cache, todo, shard, held, fingerprint, row_count, unchanged>>

\* The filtered query over the files without an index, and the return.
Finish(w) ==
    /\ pc[w] = "visit" /\ todo[w] = {}
    /\ Goto(w, "idle")
    /\ UNCHANGED <<files, requests, cache, todo, shard, locals>>

\* Mutant: the slot is left loading.
ThrowLoading(w) ==
    /\ pc[w] \notin {"idle", "check", "publish", "drop", "failed"}
    /\ LetGo(w, slot)
    /\ index' = [index EXCEPT ![w] = NoIndex]
    /\ Goto(w, "failed") /\ Asked(w, Shards) /\ todo' = [todo EXCEPT ![w] = {}]
    /\ UNCHANGED <<version, requests, slots, recency, shard>>

\* An interrupt, or an error that is not suppressed.  A loader resets its slot.
Throw(w) ==
    /\ pc[w] \notin {"idle", "check", "publish", "drop", "failed"}
    /\ LetGo(w, IF pc[w] \in Loading THEN [slot EXCEPT ![held[w]].loading = FALSE] ELSE slot)
    /\ index' = [index EXCEPT ![w] = NoIndex]
    /\ Goto(w, "failed") /\ Asked(w, Shards) /\ todo' = [todo EXCEPT ![w] = {}]
    /\ UNCHANGED <<version, requests, slots, recency, shard>>

-----------------------------------------------------------------------------

\* External: a file is rewritten, and its fingerprint shows that.
Rewrite(s) ==
    /\ version[s] < LastVersion
    /\ version' = [version EXCEPT ![s] = @ + 1]
    /\ since' = [w \in Workers |-> IF since[w][s] = {} THEN since[w]
                                   ELSE [since[w] EXCEPT ![s] = @ \cup {version'[s]}]]
    /\ UNCHANGED <<requests, cache, pc, todo, shard, locals>>

Terminated == (\A w \in Workers : pc[w] = "failed") /\ UNCHANGED vars

Check(w) == CheckMiss(w) \/ CheckChanged(w) \/ CheckHit(w) \/ CheckLoad(w)
Load(w) == CountRows(w) \/ Reserve(w) \/ ReadSome(w) \/ ReadRest(w) \/ LoadFails(w)

Next ==
    \/ \E w \in Workers :
          \/ Begin(w) \/ Stat(w) \/ Check(w) \/ Load(w) \/ Recheck(w) \/ Publish(w)
          \/ DropIndex(w) \/ Finish(w) \/ Throw(w)
          \/ \E s \in Shards : Visit(w, s)
    \/ \E s \in Shards : Rewrite(s)
    \/ Terminated

Spec == Init /\ [][Next]_vars

-----------------------------------------------------------------------------
(* Invariants *)

\* All indexes in memory, those of evicted slots that somebody still reads or loads included,
\* fit the budget.
BudgetKept == BytesOf(Live) <= Limit

\* A tracked slot never holds an index of another version than its fingerprint, nor one read
\* while the file was rewritten.
PublishedIndexExact ==
    \A s \in Shards :
       slots[s] # NoSlot /\ slot[slots[s]].index # NoIndex =>
          slot[slots[s]].index.holds = {slot[slots[s]].fingerprint}

\* An index answers with the file as it was at some moment of the lookup.
AnswersCurrent ==
    \A w \in Workers : pc[w] = "find" =>
       \E v \in since[w][shard[w]] : index[w].holds = {v}

\* A slot is loading exactly while one worker loads it: a failed or interrupted loader does
\* not keep the others from ever using an index.
LoadingHasLoader ==
    \A i \in Slots :
       LET loaders == {w \in Workers : held[w] = i /\ pc[w] \in Loading}
       IN Cardinality(loaders) = IF slot[i].loading THEN 1 ELSE 0
=============================================================================
