---------------------------- MODULE DecoderCache ----------------------------
(***************************************************************************)
(* LerobotDecoderCache, the open video decoders of a scan or of a          *)
(* lerobot_video_targets operator                                          *)
(* (src/src/function/video/lerobot_video_frames.cpp).                      *)
(*                                                                         *)
(* A user acquires a decoder of one shard at a time: an idle one of the    *)
(* shard if there is one, else a new one in a free slot or in the slot of  *)
(* an evicted one.  Opening and closing happen outside the mutex.  A user  *)
(* gives the decoder back when its buffer is done, discards it when it     *)
(* failed, or is dropped by DuckDB together with it.  VideoTargets         *)
(* composes the cache with its users.                                      *)
(***************************************************************************)
EXTENDS Integers, FiniteSets, Sequences

CONSTANTS
    Users,                \* the threads that decode
    Shards,               \* the video files
    MaxCachedDecoders,    \* max_cached_decoders
    Dropping              \* users may be dropped while they hold a decoder

ASSUME UsersAssumption == IsFiniteSet(Users) /\ IsFiniteSet(Shards)
ASSUME CacheAssumption == MaxCachedDecoders \in Nat \ {0} /\ Dropping \in BOOLEAN

VARIABLES
    open_count,
    idle_lru,        \* the shard of every idle decoder, most recently released first
    idle_decoders,   \* how many idle decoders each shard has
    user             \* the step each user is at, and the shard it works on

cacheVars == <<open_count, idle_lru, idle_decoders, user>>

CacheInit ==
    /\ open_count = 0
    /\ idle_lru = <<>> /\ idle_decoders = [s \in Shards |-> 0]
    /\ user = [u \in Users |-> [pc |-> "idle", shard |-> CHOOSE s \in Shards : TRUE]]

-----------------------------------------------------------------------------

Goto(u, pc) == [user EXCEPT ![u].pc = pc]
At(pc) == {u \in Users : user[u].pc = pc}

\* notify_all: the waiting users look again.
Notified(steps) ==
    [u \in Users |-> IF steps[u].pc = "wait" THEN [steps[u] EXCEPT !.pc = "acquire"] ELSE steps[u]]

RemovedAt(s, i) == SubSeq(s, 1, i - 1) \o SubSeq(s, i + 1, Len(s))

\* A user needs a decoder of a shard.
StartAcquire(u, s) ==
    /\ user[u].pc = "idle"
    /\ user' = [user EXCEPT ![u] = [pc |-> "acquire", shard |-> s]]
    /\ UNCHANGED <<open_count, idle_lru, idle_decoders>>

\* Mutant: the decoder leaves the deque and its shard stays in the list.
ReuseStillListed(u) ==
    LET s == user[u].shard
    IN /\ user[u].pc = "acquire" /\ idle_decoders[s] > 0
       /\ UNCHANGED idle_lru
       /\ idle_decoders' = [idle_decoders EXCEPT ![s] = @ - 1]
       /\ user' = Goto(u, "using")
       /\ UNCHANGED open_count

\* The most recently released idle decoder of the shard.
Reuse(u) ==
    LET s == user[u].shard
    IN /\ user[u].pc = "acquire" /\ idle_decoders[s] > 0
       /\ \E i \in DOMAIN idle_lru :
             /\ idle_lru[i] = s /\ \A k \in 1..(i - 1) : idle_lru[k] # s
             /\ idle_lru' = RemovedAt(idle_lru, i)
       /\ idle_decoders' = [idle_decoders EXCEPT ![s] = @ - 1]
       /\ user' = Goto(u, "using")
       /\ UNCHANGED open_count

\* Mutant: off by one.
TakeSlotAtLimit(u) ==
    /\ user[u].pc = "acquire" /\ idle_decoders[user[u].shard] = 0
    /\ open_count <= MaxCachedDecoders
    /\ open_count' = open_count + 1
    /\ user' = Goto(u, "opening")
    /\ UNCHANGED <<idle_lru, idle_decoders>>

\* A slot is free.
TakeSlot(u) ==
    /\ user[u].pc = "acquire" /\ idle_decoders[user[u].shard] = 0
    /\ open_count < MaxCachedDecoders
    /\ open_count' = open_count + 1
    /\ user' = Goto(u, "opening")
    /\ UNCHANGED <<idle_lru, idle_decoders>>

\* The least recently released decoder makes room: its slot passes to the new one.
Evict(u) ==
    /\ user[u].pc = "acquire" /\ idle_decoders[user[u].shard] = 0
    /\ open_count >= MaxCachedDecoders /\ idle_lru # <<>>
    /\ idle_lru' = RemovedAt(idle_lru, Len(idle_lru))
    /\ idle_decoders' = [idle_decoders EXCEPT ![idle_lru[Len(idle_lru)]] = @ - 1]
    /\ user' = Goto(u, "evicting")
    /\ UNCHANGED open_count

\* Every slot is in use: wait for a release.
Wait(u) ==
    /\ user[u].pc = "acquire" /\ idle_decoders[user[u].shard] = 0
    /\ open_count >= MaxCachedDecoders /\ idle_lru = <<>>
    /\ user' = Goto(u, "wait")
    /\ UNCHANGED <<open_count, idle_lru, idle_decoders>>

\* Outside the mutex: the evicted decoder is closed before the new one is opened.
CloseEvicted(u) ==
    /\ user[u].pc = "evicting"
    /\ user' = Goto(u, "opening")
    /\ UNCHANGED <<open_count, idle_lru, idle_decoders>>

OpenSucceeds(u) ==
    /\ user[u].pc = "opening"
    /\ user' = Goto(u, "using")
    /\ UNCHANGED <<open_count, idle_lru, idle_decoders>>

\* Mutant: the slot of a decoder that could not be opened is not given back.
OpenFailsKeepingSlot(u) ==
    /\ user[u].pc = "opening"
    /\ user' = Notified(Goto(u, "idle"))
    /\ UNCHANGED <<open_count, idle_lru, idle_decoders>>

OpenFails(u) ==
    /\ user[u].pc = "opening"
    /\ open_count' = open_count - 1
    /\ user' = Notified(Goto(u, "idle"))
    /\ UNCHANGED <<idle_lru, idle_decoders>>

\* Mutant: nobody learns of the idle decoder.
ReleaseQuietly(u) ==
    /\ user[u].pc = "using"
    /\ idle_lru' = <<user[u].shard>> \o idle_lru
    /\ idle_decoders' = [idle_decoders EXCEPT ![user[u].shard] = @ + 1]
    /\ user' = Goto(u, "idle")
    /\ UNCHANGED open_count

Release(u) ==
    /\ user[u].pc = "using"
    /\ idle_lru' = <<user[u].shard>> \o idle_lru
    /\ idle_decoders' = [idle_decoders EXCEPT ![user[u].shard] = @ + 1]
    /\ user' = Notified(Goto(u, "idle"))
    /\ UNCHANGED open_count

\* The decoder failed: its slot is free before the decoder is closed.
Discard(u) ==
    /\ user[u].pc = "using"
    /\ open_count' = open_count - 1
    /\ user' = Notified(Goto(u, "closing"))
    /\ UNCHANGED <<idle_lru, idle_decoders>>

CloseDiscarded(u) ==
    /\ user[u].pc = "closing"
    /\ user' = Goto(u, "idle")
    /\ UNCHANGED <<open_count, idle_lru, idle_decoders>>

\* External: DuckDB destroys the local state between two chunks.  The decoder it holds is
\* closed without the cache learning of it.
Drop(u) ==
    /\ Dropping /\ user[u].pc = "using"
    /\ user' = Goto(u, "dropped")
    /\ UNCHANGED <<open_count, idle_lru, idle_decoders>>

\* The steps of Acquire that end with a decoder or wait for one.
Acquire(u) == Reuse(u) \/ TakeSlot(u) \/ Evict(u) \/ Wait(u) \/ CloseEvicted(u) \/ OpenSucceeds(u)

\* Any users, in any order: what they work on is not the cache's business.
CacheNext ==
    \E u \in Users :
       \/ Acquire(u) \/ OpenFails(u) \/ Release(u) \/ Discard(u) \/ CloseDiscarded(u) \/ Drop(u)
       \/ \E s \in Shards : StartAcquire(u, s)

CacheSpec == CacheInit /\ [][CacheNext]_cacheVars

-----------------------------------------------------------------------------

InUse == At("evicting") \cup At("opening") \cup At("using") \cup At("dropped")

\* open_count is the number of slots in use: idle decoders, decoders that are being opened
\* (an evicted one gives its slot to its successor), decoders in use, and those that were
\* lost with a dropped user; there are never more than max_cached_decoders.  What Acquire reuses or evicts exists: idle_lru has one entry
\* for each idle decoder of a shard.
SlotsAccounted ==
    /\ open_count = Len(idle_lru) + Cardinality(InUse) /\ open_count <= MaxCachedDecoders
    /\ \A s \in Shards : idle_decoders[s] = Cardinality({i \in DOMAIN idle_lru : idle_lru[i] = s})

\* A thread that waits in Acquire, where it would not see an interrupt, waits for others that
\* hold every slot: every critical section that makes room notifies, so no wakeup is lost
\* although there is no timeout.  With no more threads than slots, which MaxThreads ensures,
\* nobody ever waits.
WaitsForOthers ==
    At("wait") # {} => /\ idle_lru = <<>>
                       /\ Cardinality(InUse) = MaxCachedDecoders

=============================================================================
