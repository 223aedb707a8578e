---------------------------- MODULE VideoFrames ----------------------------
(***************************************************************************)
(* The parallel scan behind lerobot_video_frames and lerobot_video_windows *)
(* (src/src/function/video/lerobot_video_frames.cpp).                      *)
(*                                                                         *)
(* Producer tasks run the source queries and turn every row into decode    *)
(* targets, one per video shard that shows the row.  LerobotVideoProducer- *)
(* State gathers the targets of a shard in a partial buffer, publishes     *)
(* full buffers in ready_buffers, and blocks producers when too many       *)
(* targets are pending.  Consumers (the scan's pipeline tasks) claim ready *)
(* buffers, one consumer per shard at a time, decode and emit the targets. *)
(*                                                                         *)
(* The loop of QueueTargets holds the mutex over several targets, so the   *)
(* mutex is a variable here; every other critical section is one action.   *)
(* DuckDB's side (rescheduling and cancelling tasks, interrupts, dropping  *)
(* the state of a consumer whose LIMIT is reached) is external.            *)
(***************************************************************************)
EXTENDS Integers, FiniteSets, Sequences, SequencesExt

CONSTANTS
    Shards,              \* the video files
    Consumers,           \* the pipeline tasks of the scan, at most MaxThreads()
    FrameQueries,        \* each source query: its rows, each the sequence of its targets
    ProducerThreads,     \* producer_threads
    TargetBufferSize,    \* target_buffer_size
    MaxPendingTargets,   \* max_pending_targets
    EarlyStop            \* a LIMIT above the scan may be satisfied before its end

NoTask == 0
Producers == 1..(IF ProducerThreads <= Len(FrameQueries) THEN ProducerThreads
                                                         ELSE Len(FrameQueries))

\* A target is [shard |-> the file that shows it, id |-> which row it stands for].
TargetsOf(q) == UNION {Range(FrameQueries[q][r]) : r \in DOMAIN FrameQueries[q]}
Targets == UNION {TargetsOf(q) : q \in DOMAIN FrameQueries}

ASSUME BudgetAssumption ==
    /\ ProducerThreads \in Nat \ {0} /\ TargetBufferSize \in Nat \ {0}
    /\ MaxPendingTargets \in Nat \ {0} /\ EarlyStop \in BOOLEAN
\* A scan has at least one pipeline task.
ASSUME SetsAssumption ==
    IsFiniteSet(Shards) /\ IsFiniteSet(Consumers) /\ Consumers # {} /\ IsFiniteSet(Targets)
\* Every row is read once, and its targets differ in their route.
ASSUME QueriesAssumption ==
    /\ FrameQueries \in Seq(Seq(Seq(Targets)))
    /\ \A t \in Targets : t.shard \in Shards
    /\ \A q1, q2 \in DOMAIN FrameQueries :
          \A r1 \in DOMAIN FrameQueries[q1], r2 \in DOMAIN FrameQueries[q2] :
             \A i1 \in DOMAIN FrameQueries[q1][r1], i2 \in DOMAIN FrameQueries[q2][r2] :
                FrameQueries[q1][r1][i1] = FrameQueries[q2][r2][i2] =>
                   <<q1, r1, i1>> = <<q2, r2, i2>>

VARIABLES
    lock,                 \* the task that holds LerobotVideoProducerState::lock across steps
    active_producers, source_exhausted, stop_requested, error,
    partial_buffers,      \* the targets gathered for each shard
    partial_lru,          \* the shards with a partial buffer, most recently touched first
    ready_buffers,        \* the published buffers, oldest first
    busy_shards, blocked_producers, pending_target_count,
    producer,             \* the members of each LerobotVideoProducerTask
    consumer,             \* the local state of each scan task
    emitted,              \* targets written to output chunks
    interrupted, cancelled, destroyed
                          \* external: the query was interrupted; its executor cancels its
                          \* tasks; the scan's global state is gone

queueVars == <<partial_buffers, partial_lru, ready_buffers, pending_target_count>>
stateVars == <<active_producers, source_exhausted, stop_requested, error, queueVars,
               busy_shards, blocked_producers>>
scanVars == <<consumer, emitted>>
hostVars == <<interrupted, cancelled, destroyed>>
vars == <<lock, stateVars, producer, scanVars, hostVars>>

NoBuffer == [shard |-> "none", targets |-> {}]
Scanning == {"claim", "wait", "decode"}
Ended == {"finished", "failed", "dropped"}

Init ==
    /\ lock = NoTask
    /\ active_producers = Cardinality(Producers)
    /\ source_exhausted = (Producers = {})
    /\ stop_requested = FALSE /\ error = "none"
    /\ partial_buffers = [s \in Shards |-> {}] /\ partial_lru = <<>> /\ ready_buffers = <<>>
    /\ busy_shards = {} /\ blocked_producers = {} /\ pending_target_count = 0
    /\ producer = [p \in Producers |->
          [pc |-> "loop", next_query |-> p, query |-> 0, row |-> 0, pending |-> <<>>,
           connected |-> FALSE, exception |-> "none"]]
    /\ consumer = [c \in Consumers |-> [pc |-> "claim", buffer |-> NoBuffer]]
    /\ emitted = {}
    /\ interrupted = FALSE /\ cancelled = FALSE /\ destroyed = FALSE

-----------------------------------------------------------------------------
(* Buffers *)

Goto(p, pc) == [producer EXCEPT ![p].pc = pc]

\* TouchPartialBuffer, and the removal of the entry of a flushed buffer.
Without(s) ==
    IF s \in Range(partial_lru)
    THEN RemoveAt(partial_lru, CHOOSE i \in DOMAIN partial_lru : partial_lru[i] = s)
    ELSE partial_lru
Touched(s) == <<s>> \o Without(s)

PartialBuffer(s) == [shard |-> s, targets |-> partial_buffers[s]]
Gathered == {s \in Shards : partial_buffers[s] # {}}

\* Mutant: the least recently touched buffer is left alone.
KeepPartialBuffers == UNCHANGED <<partial_buffers, partial_lru, ready_buffers>>

\* The least recently touched partial buffer is published.
FlushOldestPartialBuffer ==
    IF partial_lru = <<>>
    THEN UNCHANGED <<partial_buffers, partial_lru, ready_buffers>>
    ELSE LET s == Last(partial_lru)
         IN /\ ready_buffers' = Append(ready_buffers, PartialBuffer(s))
            /\ partial_buffers' = [partial_buffers EXCEPT ![s] = {}]
            /\ partial_lru' = Without(s)

\* All partial buffers are published, in the order of a hash table.
FlushAllPartialBuffers ==
    /\ \E order \in [1..Cardinality(Gathered) -> Gathered] :
          /\ Range(order) = Gathered
          /\ ready_buffers' = ready_buffers \o [i \in DOMAIN order |-> PartialBuffer(order[i])]
    /\ partial_buffers' = [s \in Shards |-> {}]
    /\ partial_lru' = <<>>
    /\ UNCHANGED pending_target_count

\* Mutant: the count of the dropped targets is kept.
DropUncounted ==
    /\ partial_buffers' = [s \in Shards |-> {}] /\ partial_lru' = <<>>
    /\ ready_buffers' = <<>>
    /\ UNCHANGED pending_target_count

\* After a stop nothing more is produced: whatever no consumer holds is dropped.
DropQueued ==
    /\ partial_buffers' = [s \in Shards |-> {}] /\ partial_lru' = <<>>
    /\ ready_buffers' = <<>>
    /\ pending_target_count' = 0

\* TakeBlockedProducers and RescheduleProducers: blocked tasks go back to the scheduler,
\* which takes no task of a cancelled executor.
ResumeBlocked(tasks) ==
    /\ producer' = [p \in Producers |-> IF p \in blocked_producers /\ ~cancelled
                                        THEN [tasks[p] EXCEPT !.pc = "loop"] ELSE tasks[p]]
    /\ blocked_producers' = {}

\* RequestStop: no more output is wanted.
RequestStop(tasks) == stop_requested' = TRUE /\ ResumeBlocked(tasks)

-----------------------------------------------------------------------------
(* LerobotVideoProducerTask::ExecuteTask.  A task that has processed enough  *)
(* rows for one turn returns to the scheduler and starts at the top again.   *)

\* The top of the loop.
CheckStop(p) ==
    /\ producer[p].pc = "loop"
    /\ producer' = Goto(p, IF interrupted \/ stop_requested THEN "stop"
                           ELSE IF producer[p].pending # <<>> THEN "queue" ELSE "fetch")
    /\ UNCHANGED <<lock, stateVars, scanVars, hostVars>>

\* An interrupted producer stops the whole scan.
StopScan(p) ==
    /\ producer[p].pc = "stop" /\ lock = NoTask
    /\ RequestStop(Goto(p, "finish"))
    /\ UNCHANGED <<lock, active_producers, source_exhausted, error, queueVars, busy_shards,
                   scanVars, hostVars>>

\* Mutant: whether the scan has stopped is not looked at again under the lock.
LockQueueUnchecked(p) ==
    /\ producer[p].pc = "queue" /\ lock = NoTask
    /\ lock' = p /\ producer' = Goto(p, "queueing")
    /\ UNCHANGED <<stateVars, scanVars, hostVars>>

\* QueueTargets takes the lock; once the scan has stopped nothing is queued.
LockQueue(p) ==
    /\ producer[p].pc = "queue" /\ lock = NoTask
    /\ IF stop_requested
       THEN lock' = lock /\ producer' = Goto(p, "finish")
       ELSE lock' = p /\ producer' = Goto(p, "queueing")
    /\ UNCHANGED <<stateVars, scanVars, hostVars>>

\* One turn of its loop: gather the next target, publish the buffer if it is full.
QueueTarget(p) ==
    LET t == Head(producer[p].pending)
        gathered == partial_buffers[t.shard] \cup {t}
    IN /\ producer[p].pc = "queueing"
       /\ producer[p].pending # <<>> /\ pending_target_count < MaxPendingTargets
       /\ pending_target_count' = pending_target_count + 1
       /\ IF Cardinality(gathered) >= TargetBufferSize
          THEN /\ ready_buffers' = Append(ready_buffers, [shard |-> t.shard, targets |-> gathered])
               /\ partial_buffers' = [partial_buffers EXCEPT ![t.shard] = {}]
               /\ partial_lru' = Without(t.shard)
          ELSE /\ partial_buffers' = [partial_buffers EXCEPT ![t.shard] = gathered]
               /\ partial_lru' = Touched(t.shard)
               /\ UNCHANGED ready_buffers
       /\ producer' = [producer EXCEPT ![p].pending = Tail(@)]
       /\ UNCHANGED <<lock, active_producers, source_exhausted, stop_requested, error,
                      busy_shards, blocked_producers, scanVars, hostVars>>

\* Every target of the row is queued.
TargetsQueued(p) ==
    /\ producer[p].pc = "queueing" /\ producer[p].pending = <<>>
    /\ lock' = NoTask
    /\ producer' = Goto(p, "loop")
    /\ UNCHANGED <<stateVars, scanVars, hostVars>>

\* Mutant: the resumed producer starts again with the first target of its row.
BlockProducerForRow(p) ==
    /\ producer[p].pc = "queueing" /\ producer[p].pending # <<>>
    /\ pending_target_count >= MaxPendingTargets
    /\ FlushOldestPartialBuffer
    /\ blocked_producers' = blocked_producers \cup {p}
    /\ lock' = NoTask
    /\ producer' = [producer EXCEPT ![p].pc = "blocked",
                     ![p].pending = FrameQueries[producer[p].query][producer[p].row]]
    /\ UNCHANGED <<active_producers, source_exhausted, stop_requested, error,
                   pending_target_count, busy_shards, scanVars, hostVars>>

\* The bound is reached: publish the oldest partial buffer, then wait to be resumed.
BlockProducer(p) ==
    /\ producer[p].pc = "queueing" /\ producer[p].pending # <<>>
    /\ pending_target_count >= MaxPendingTargets
    /\ FlushOldestPartialBuffer
    /\ blocked_producers' = blocked_producers \cup {p}
    /\ lock' = NoTask
    /\ producer' = Goto(p, "blocked")
    /\ UNCHANGED <<active_producers, source_exhausted, stop_requested, error,
                   pending_target_count, busy_shards, scanVars, hostVars>>

\* GetQuery: the next query of this producer, if there is one and the scan goes on.
GetQuery(p) ==
    /\ producer[p].pc = "fetch" /\ producer[p].query = 0
    /\ producer' =
          IF stop_requested \/ producer[p].next_query > Len(FrameQueries)
          THEN Goto(p, "finish")
          ELSE [producer EXCEPT ![p].pc = "opening", ![p].query = producer[p].next_query,
                                ![p].next_query = @ + Cardinality(Producers)]
    /\ UNCHANGED <<lock, stateVars, scanVars, hostVars>>

\* The query starts; a new connection is not used when the scan has stopped meanwhile.
StartQuery(p) ==
    LET give_up == ~producer[p].connected /\ (interrupted \/ stop_requested)
    IN /\ producer[p].pc = "opening"
       /\ producer' = [producer EXCEPT
             ![p].pc = IF give_up THEN "fail" ELSE "fetch",
             ![p].exception = IF give_up THEN "interrupt" ELSE @,
             ![p].connected = TRUE]
       /\ UNCHANGED <<lock, stateVars, scanVars, hostVars>>

\* The next row and its targets.
ReadRow(p) ==
    LET rows == FrameQueries[producer[p].query]
    IN /\ producer[p].pc = "fetch" /\ producer[p].query # 0
       /\ producer[p].row < Len(rows)
       /\ producer' = [producer EXCEPT ![p].pc = "loop", ![p].row = @ + 1,
                                       ![p].pending = rows[producer[p].row + 1]]
       /\ UNCHANGED <<lock, stateVars, scanVars, hostVars>>

EndQuery(p) ==
    /\ producer[p].pc = "fetch" /\ producer[p].query # 0
    /\ producer[p].row = Len(FrameQueries[producer[p].query])
    /\ producer' = [producer EXCEPT ![p].pc = "loop", ![p].query = 0, ![p].row = 0]
    /\ UNCHANGED <<lock, stateVars, scanVars, hostVars>>

\* The query fails, or a row has invalid metadata.
SourceFails(p) ==
    /\ \/ producer[p].pc = "opening"
       \/ producer[p].pc = "fetch" /\ producer[p].query # 0
    /\ producer' = [producer EXCEPT ![p].pc = "fail", ![p].exception = "source"]
    /\ UNCHANGED <<lock, stateVars, scanVars, hostVars>>

\* Mutant: the exception is dropped.
NoError(p) == error

FirstError(p) == IF error = "none" THEN producer[p].exception ELSE error

\* Fail: the first exception is kept, and the scan stops.
Fail(p) ==
    /\ producer[p].pc = "fail" /\ lock = NoTask
    /\ error' = FirstError(p)
    /\ RequestStop(Goto(p, "finish"))
    /\ UNCHANGED <<lock, active_producers, source_exhausted, queueVars, busy_shards,
                   scanVars, hostVars>>

\* ProducerFinished.  `abandoned': the task is destroyed without having run to its end.
ProducerFinished(p, abandoned) ==
    LET stops == stop_requested \/ abandoned
    IN /\ lock = NoTask
       /\ stop_requested' = stops
       /\ active_producers' = active_producers - 1
       /\ IF stops THEN DropQueued
          ELSE IF active_producers = 1 THEN FlushAllPartialBuffers
          ELSE UNCHANGED queueVars
       /\ source_exhausted' = (source_exhausted \/ active_producers = 1)
       /\ producer' = Goto(p, "done")
       /\ UNCHANGED <<lock, error, busy_shards, blocked_producers, scanVars, hostVars>>

Finish(p) == producer[p].pc = "finish" /\ ProducerFinished(p, FALSE)

\* The destructor of a blocked task.
Abandon(p) == producer[p].pc = "blocked" /\ cancelled /\ ProducerFinished(p, TRUE)

-----------------------------------------------------------------------------
(* The scan: ProduceLerobotVideoFrames *)

\* Mutant: a buffer is claimed although another consumer decodes the shard.
ClaimableAnyway(i) == TRUE

Claimable(i) == ready_buffers[i].shard \notin busy_shards
ConsumerCanProgress ==
    \/ error # "none" \/ source_exhausted \/ stop_requested
    \/ \E i \in DOMAIN ready_buffers : Claimable(i)

\* ClaimBuffer: an error goes before the buffers, the first claimable buffer before the
\* end of the scan.  A claim makes room, so the blocked producers are resumed.
ClaimReady(c) ==
    /\ consumer[c].pc = "claim" /\ lock = NoTask /\ error = "none"
    /\ \E i \in DOMAIN ready_buffers :
          /\ Claimable(i) /\ \A k \in 1..(i - 1) : ~Claimable(k)
          /\ consumer' = [consumer EXCEPT ![c] = [pc |-> "decode", buffer |-> ready_buffers[i]]]
          /\ ready_buffers' = RemoveAt(ready_buffers, i)
          /\ busy_shards' = busy_shards \cup {ready_buffers[i].shard}
          /\ pending_target_count' = pending_target_count - Cardinality(ready_buffers[i].targets)
    /\ ResumeBlocked(producer)
    /\ UNCHANGED <<lock, active_producers, source_exhausted, stop_requested, error,
                   partial_buffers, partial_lru, emitted, hostVars>>

\* No buffer to claim: the error, the end of the scan, or a wait.
ClaimNothing(c) ==
    /\ consumer[c].pc = "claim" /\ lock = NoTask
    /\ error # "none" \/ \A i \in DOMAIN ready_buffers : ~Claimable(i)
    /\ consumer' = [consumer EXCEPT ![c].pc =
          IF error # "none" THEN "failed"
          ELSE IF source_exhausted \/ stop_requested THEN "finished" ELSE "wait"]
    /\ UNCHANGED <<lock, stateVars, producer, emitted, hostVars>>

\* WaitForBuffer and WaitForConsumer poll: at most 10 ms pass between two looks.
Wait(c) ==
    /\ consumer[c].pc = "wait" /\ lock = NoTask
    /\ ConsumerCanProgress
    /\ consumer' = [consumer EXCEPT ![c].pc = "claim"]
    /\ UNCHANGED <<lock, stateVars, producer, emitted, hostVars>>

\* A waiting consumer that sees the interrupt stops the scan; the synchronous wait then
\* throws, the asynchronous one looks for a buffer again.
WaitInterrupted(c) ==
    /\ consumer[c].pc = "wait" /\ lock = NoTask /\ interrupted
    /\ RequestStop(producer)
    /\ \E pc \in {"failed", "claim"} : consumer' = [consumer EXCEPT ![c].pc = pc]
    /\ UNCHANGED <<lock, active_producers, source_exhausted, error, queueVars, busy_shards,
                   emitted, hostVars>>

\* The next target of the claimed buffer is decoded and written.
Emit(c) ==
    /\ consumer[c].pc = "decode"
    /\ \E t \in consumer[c].buffer.targets :
          /\ consumer' = [consumer EXCEPT ![c].buffer.targets = @ \ {t}]
          /\ emitted' = emitted \cup {t}
    /\ UNCHANGED <<lock, stateVars, producer, hostVars>>

\* FinishBuffer, after the last target or because the decoder failed.
FinishBuffer(c) ==
    /\ consumer[c].pc = "decode" /\ lock = NoTask
    /\ \E pc \in {"claim", "failed"} :
          /\ pc = "claim" => consumer[c].buffer.targets = {}
          /\ consumer' = [consumer EXCEPT ![c] = [pc |-> pc, buffer |-> NoBuffer]]
    /\ busy_shards' = busy_shards \ {consumer[c].buffer.shard}
    /\ UNCHANGED <<lock, active_producers, source_exhausted, stop_requested, error, queueVars,
                   blocked_producers, producer, emitted, hostVars>>

-----------------------------------------------------------------------------
(* DuckDB *)

\* The local state of a consumer goes away between two chunks: its query was interrupted
\* or cancelled, or the operators above need no more rows.  A claimed buffer is dropped
\* with it; the shard stays busy.
DropConsumer(c) ==
    /\ consumer[c].pc \in Scanning
    /\ \/ interrupted \/ cancelled
       \/ EarlyStop /\ consumer[c].pc = "decode" /\ emitted # {}
    /\ consumer' = [consumer EXCEPT ![c] = [pc |-> "dropped", buffer |-> NoBuffer]]
    /\ UNCHANGED <<lock, stateVars, producer, emitted, hostVars>>

Interrupt ==
    /\ ~interrupted
    /\ interrupted' = TRUE
    /\ UNCHANGED <<lock, stateVars, producer, scanVars, cancelled, destroyed>>

\* CancelTasks, after an error or an interrupt.
Cancel ==
    /\ ~cancelled /\ (interrupted \/ \E c \in Consumers : consumer[c].pc = "failed")
    /\ cancelled' = TRUE
    /\ UNCHANGED <<lock, stateVars, producer, scanVars, interrupted, destroyed>>

\* The destructor of the global state, when the last consumer has ended.
DestroyScan ==
    /\ \A c \in Consumers : consumer[c].pc \in Ended
    /\ lock = NoTask /\ ~destroyed
    /\ RequestStop(producer)
    /\ destroyed' = TRUE
    /\ UNCHANGED <<lock, active_producers, source_exhausted, error, queueVars, busy_shards,
                   scanVars, interrupted, cancelled>>

\* Every task has ended.
Terminated ==
    /\ destroyed
    /\ \A p \in Producers : producer[p].pc = "done"
    /\ UNCHANGED vars

ProducerStep(p) ==
    \/ CheckStop(p) \/ StopScan(p)
    \/ LockQueue(p) \/ QueueTarget(p) \/ TargetsQueued(p) \/ BlockProducer(p)
    \/ GetQuery(p) \/ StartQuery(p) \/ ReadRow(p) \/ EndQuery(p) \/ SourceFails(p)
    \/ Fail(p) \/ Finish(p) \/ Abandon(p)

ConsumerStep(c) ==
    \/ ClaimReady(c) \/ ClaimNothing(c) \/ Wait(c) \/ WaitInterrupted(c)
    \/ Emit(c) \/ FinishBuffer(c)

Next ==
    \/ \E p \in Producers : ProducerStep(p)
    \/ \E c \in Consumers : ConsumerStep(c) \/ DropConsumer(c)
    \/ Interrupt \/ Cancel \/ DestroyScan \/ Terminated

Spec == Init /\ [][Next]_vars

\* Tasks are scheduled, source queries and decoders return, DuckDB cancels a failed query
\* and destroys the scan after it.
FairSpec ==
    /\ Spec
    /\ \A p \in Producers : WF_vars(ProducerStep(p))
    /\ \A c \in Consumers : WF_vars(ConsumerStep(c))
    /\ WF_vars(Cancel) /\ WF_vars(DestroyScan)

-----------------------------------------------------------------------------
(* Safety *)

Queued == (UNION {partial_buffers[s] : s \in Shards})
             \cup (UNION {ready_buffers[i].targets : i \in DOMAIN ready_buffers})

\* pending_target_count, which consumers decrease and producers increase, is exactly the
\* number of targets in partial and ready buffers, and never exceeds max_pending_targets.
\* partial_lru names the shards with a partial buffer, each once: what a blocking producer
\* flushes exists, and no partial buffer is forgotten.
PendingTargetsExact ==
    /\ pending_target_count = Cardinality(Queued)
    /\ pending_target_count <= MaxPendingTargets
    /\ \A s \in Shards : partial_buffers[s] # {} <=> s \in Range(partial_lru)
    /\ \A i, k \in DOMAIN partial_lru : partial_lru[i] = partial_lru[k] => i = k

\* A shard has one consumer at a time: targets of one file are decoded in the order of
\* their buffers and the file is opened once.
OneConsumerPerShard ==
    \A c, d \in Consumers :
       /\ consumer[c].pc = "decode" => consumer[c].buffer.shard \in busy_shards
       /\ consumer[c].pc = "decode" /\ consumer[d].pc = "decode" /\ c # d =>
             consumer[c].buffer.shard # consumer[d].buffer.shard

\* While a producer is blocked in a query that goes on, there is a buffer that a consumer
\* can claim now or once the consumer that holds its shard comes back.
CapacityCanBeCreated ==
    /\ blocked_producers # {} /\ ~stop_requested /\ ~interrupted /\ ~cancelled
    /\ \E c \in Consumers : consumer[c].pc \in Scanning
    => \E i \in DOMAIN ready_buffers :
          \/ Claimable(i)
          \/ \E c \in Consumers : consumer[c].pc = "decode"
                                  /\ consumer[c].buffer.shard = ready_buffers[i].shard

\* A scan whose consumers all report the end has emitted every target of every row, unless
\* the query was interrupted or cancelled: a failed source query never shortens a result.
NoSilentTruncation ==
    /\ \A c \in Consumers : consumer[c].pc = "finished"
    /\ ~interrupted /\ ~cancelled
    => emitted = Targets

\* The places a target can be in after its row was read.
PlaceOf(t) ==
    [queued |-> t \in Queued, emitted |-> t \in emitted,
     pending |-> \E p \in Producers : t \in Range(producer[p].pending),
     claimed |-> \E c \in Consumers : t \in consumer[c].buffer.targets]

\* No target is emitted twice: it is waiting in its producer, queued, claimed or emitted,
\* and in one of these places only, whatever blocks, resumes or stops its producer.
NoTargetTwice ==
    \A t \in Targets :
       Cardinality({f \in DOMAIN PlaceOf(t) : PlaceOf(t)[f]}) <= 1

-----------------------------------------------------------------------------
(* Liveness *)

\* Every consumer ends: it is never left waiting for a producer that is blocked, failed or
\* destroyed.
ConsumersEnd == \A c \in Consumers : consumer[c].pc \in Scanning ~> consumer[c].pc \in Ended

\* Every producer task ends, blocked ones too, when the scan is over.
ProducersEnd == (\A c \in Consumers : consumer[c].pc \in Ended)
                   ~> \A p \in Producers : producer[p].pc = "done"

=============================================================================
