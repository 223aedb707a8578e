------------------------ MODULE CodecExecutorProofs ------------------------
(***************************************************************************)
(* What holds of the codec executor for every number of calls, jobs,       *)
(* workers and threads: the types, the accounting of reservations and of   *)
(* jobs, the bound on the codec threads of the process, what a call may    *)
(* return and when, and the size of the pool.                              *)
(***************************************************************************)
EXTENDS CodecExecutor, FiniteSetTheorems, TLAPS

\* As BatchState, but nothing is assumed yet about the counters that are decremented.
BatchRecord ==
    [job_count : 0..MaxJobs, max_workers : 1..MaxThreads,
     codec_thread_budget : 1..MaxThreads, host_thread_budget : 1..MaxThreads,
     ticket : Nat, active_workers : Int, active_codec_threads : Int, remaining_jobs : Int,
     results : SUBSET (1..MaxJobs), error : {"none", "codec", "interrupt"},
     completed_jobs : Nat, cancelled : BOOLEAN]

Types ==
    /\ queue \subseteq Jobs
    /\ batches \subseteq Batches
    /\ workers \subseteq Workers
    /\ active_codec_threads \in Int
    /\ stopping \in BOOLEAN /\ joining \in BOOLEAN
    /\ batch \in [Batches -> BatchRecord]
    /\ call \in [Batches -> CallState]
    /\ worker \in [Workers -> WorkerState]

\* A worker that has a job has a job of some call; only such a worker has a reservation,
\* and it is a reservation within the largest limit.  Only failures are settled.
WorkersConsistent ==
    \A w \in Workers :
       /\ worker[w].pc \in Carrying => worker[w].job \in Jobs
       /\ worker[w].reserved_budget =>
             worker[w].pc \in Holding /\ CodecThreads(worker[w].job) \in 0..MaxThreads
       /\ worker[w].pc \in {"settling", "recording"} =>
             worker[w].outcome \in {"codec", "interrupt"}

\* A call that has not started has left no trace.
IdleCallsAbsent ==
    \A b \in Batches : call[b].pc = "idle" =>
       QueuedOf(b) = {} /\ WorkersWith(b, Carrying) = {}

\* The counters under the executor's lock.
CountersExact ==
    /\ active_codec_threads = Cardinality(ReservedThreads(Reserving))
    /\ \A b \in Batches :
          /\ batch[b].active_workers = Cardinality(ReservingFor(b))
          /\ batch[b].active_codec_threads = Cardinality(ReservedThreads(ReservingFor(b)))
          /\ batch[b].remaining_jobs =
                Cardinality(QueuedOf(b)) + Cardinality(WorkersWith(b, Holding))

WithinLimits ==
    \A b \in Batches :
       /\ batch[b].active_workers <= batch[b].max_workers
       /\ batch[b].active_codec_threads <= batch[b].codec_thread_budget

\* A batch with jobs left is never dropped from the executor's list.
UnfinishedRegistered == \A b \in Batches : batch[b].remaining_jobs # 0 => b \in batches

Consistent == WorkersConsistent /\ IdleCallsAbsent /\ CountersExact /\ WithinLimits
                /\ UnfinishedRegistered /\ HostBudgetRespected
IInv == Types /\ Consistent

-----------------------------------------------------------------------------
(* Types *)

\* The updates of a batch that the actions make keep its type.
LEMMA BatchUpdates ==
    ASSUME NEW x \in BatchRecord
    PROVE  /\ \A f \in BOOLEAN : [x EXCEPT !.cancelled = f] \in BatchRecord
           /\ \A e \in {"none", "codec", "interrupt"} : [x EXCEPT !.error = e] \in BatchRecord
           /\ \A n \in Nat : [x EXCEPT !.completed_jobs = n] \in BatchRecord
           /\ \A n \in Int : [x EXCEPT !.remaining_jobs = n] \in BatchRecord
           /\ \A s \in SUBSET (1..MaxJobs), n \in Nat :
                 [x EXCEPT !.results = s, !.completed_jobs = n] \in BatchRecord
           /\ \A n, t \in Int :
                 [x EXCEPT !.active_workers = n, !.active_codec_threads = t] \in BatchRecord
           /\ \A n, t, m \in Int :
                 [x EXCEPT !.active_workers = n, !.active_codec_threads = t,
                           !.remaining_jobs = m] \in BatchRecord
BY DEF BatchRecord

\* So do the updates of a worker's locals.
LEMMA WorkerUpdates ==
    ASSUME NEW x \in WorkerState, NEW p \in {"ready", "asleep", "exited"} \cup Carrying
    PROVE  /\ [x EXCEPT !.pc = p] \in WorkerState
           /\ \A f \in BOOLEAN : [x EXCEPT !.pc = p, !.reserved_budget = f] \in WorkerState
           /\ \A f \in BOOLEAN, j \in Jobs :
                 [x EXCEPT !.pc = p, !.job = j, !.reserved_budget = f] \in WorkerState
           /\ \A o \in {"none", "ok", "codec", "interrupt"} :
                 /\ [x EXCEPT !.pc = p, !.job = NoJob, !.outcome = o] \in WorkerState
                 /\ [x EXCEPT !.outcome = o, !.pc = p] \in WorkerState
BY DEF WorkerState

\* And the updates of a call's locals.
LEMMA CallUpdates ==
    ASSUME NEW x \in CallState
    PROVE  /\ [x EXCEPT !.is_interrupted = TRUE] \in CallState
           /\ \A p \in {"idle"} \cup Active \cup Done :
                 /\ [x EXCEPT !.pc = p] \in CallState
                 /\ \A f, g \in BOOLEAN :
                       [x EXCEPT !.interrupted = f, !.discarded_queue = g, !.pc = p] \in CallState
                 /\ \A n \in Nat : [x EXCEPT !.discarded_jobs = n, !.pc = p] \in CallState
BY DEF CallState

\* There are finitely many jobs.
LEMMA JobsFinite == IsFiniteSet(Jobs)
<1>1. IsFiniteSet(1..MaxJobs)
  BY FS_Interval, BoundsAssumption
<1> QED
  BY <1>1, FS_Product, FiniteAssumption DEF Jobs

\* The arguments of a call are within the bounds.
LEMMA RequestType ==
    ASSUME NEW b \in Batches, NEW r \in Requests[b]
    PROVE  /\ r.jobs \in 0..MaxJobs /\ r.max_workers \in 0..MaxThreads
           /\ r.codec_thread_budget \in 0..MaxThreads /\ r.threads \in 0..MaxThreads
BY RequestsAssumption

\* The batch of an accepted call is well-typed.
LEMMA NewBatchType ==
    ASSUME NEW b \in Batches, NEW r \in Requests[b], r.jobs # 0, BudgetFits(r), NEW n \in Nat
    PROVE  AcceptedBatch(r, n) \in BatchRecord
<1>1. r.jobs \in 1..MaxJobs /\ r.max_workers \in 1..MaxThreads
        /\ r.codec_thread_budget \in 1..MaxThreads /\ r.threads \in 0..MaxThreads
  BY RequestType, BoundsAssumption DEF BudgetFits
<1>2. HostBudget(r) \in 1..MaxThreads
  BY <1>1, BoundsAssumption DEF HostBudget
<1>3. Smaller(Smaller(r.max_workers, r.jobs), r.codec_thread_budget) \in 1..MaxThreads
  BY <1>1, BoundsAssumption DEF Smaller
<1> QED
  BY <1>1, <1>2, <1>3, BoundsAssumption DEF AcceptedBatch, NewBatch, BatchRecord

\* The types hold initially.
LEMMA InitTypes == Init => Types
<1> SUFFICES ASSUME Init PROVE Types
  OBVIOUS
<1>1. batch \in [Batches -> BatchRecord]
  <2>1. NewBatch(0, 1, 1, 1, 0) \in BatchRecord
    BY BoundsAssumption DEF NewBatch, BatchRecord
  <2>2. batch = [b \in Batches |-> NewBatch(0, 1, 1, 1, 0)]
    BY Zenon DEF Init
  <2> QED
    BY <2>1, <2>2
<1>2. call \in [Batches -> CallState]
  BY DEF Init, CallState, Active, Done
<1>3. worker \in [Workers -> WorkerState]
  BY DEF Init, WorkerState, NoJob, Carrying, Holding, Jobs
<1>4. /\ queue = {} /\ batches = {} /\ workers = {}
      /\ active_codec_threads = 0 /\ stopping = FALSE /\ joining = FALSE
  BY Zenon DEF Init
<1>5. 0 \in Int
  OBVIOUS
<1> QED
  BY <1>1, <1>2, <1>3, <1>4, <1>5, Zenon DEF Types

\* notify_all keeps the types of the workers.
LEMMA NotifyAllType ==
    ASSUME worker \in [Workers -> WorkerState]
    PROVE  NotifyAll(worker) \in [Workers -> WorkerState]
BY DEF NotifyAll, WorkerState

\* The codec threads of a job are a natural number.
LEMMA CodecThreadsType ==
    ASSUME Types, NEW j \in Jobs
    PROVE  CodecThreads(j) \in Nat
<1> DEFINE mw == batch[j[1]].max_workers
           budget == batch[j[1]].codec_thread_budget
<1>1. j[1] \in Batches /\ j[2] \in 1..MaxJobs
  BY DEF Jobs
<1>2. mw \in Nat \ {0} /\ budget \in Nat
  BY <1>1, BoundsAssumption DEF Types, BatchRecord
<1>3. budget \div mw \in Nat
  BY <1>2
<1> QED
  BY <1>3 DEF CodecThreads

\* Every step keeps the types.
LEMMA NextTypes == Types /\ WorkersConsistent /\ [Next]_vars => Types'
<1> SUFFICES ASSUME Types, WorkersConsistent, [Next]_vars PROVE Types'
  OBVIOUS
<1> USE DEF Types, poolVars
<1>1. ASSUME NEW b \in Batches, ExecuteEmpty(b) \/ ExecuteRejected(b) \/ Finish(b)
      PROVE  Types'
  <2>1. PICK p \in Done : call' = [call EXCEPT ![b] = [call[b] EXCEPT !.pc = p]]
    BY <1>1, Zenon DEF ExecuteEmpty, ExecuteRejected, Finish, Done
  <2>2. call' \in [Batches -> CallState]
    BY <2>1, CallUpdates
  <2> QED
    BY <1>1, <2>2 DEF ExecuteEmpty, ExecuteRejected, Finish
<1>2. ASSUME NEW b \in Batches, NEW r \in Requests[b], Enqueue(b, r)
      PROVE  Types'
  <2>1. 1 + Cardinality({c \in Batches : batch[c].ticket # 0}) \in Nat
    BY FS_Subset, FS_CardinalityType, FiniteAssumption
  <2>2. batch' \in [Batches -> BatchRecord]
    BY <1>2, <2>1, NewBatchType DEF Enqueue, CreateBatch
  <2>3. queue' \subseteq Jobs
    <3>1. r.jobs \in 0..MaxJobs
      BY RequestType
    <3> QED
      BY <1>2, <3>1, BoundsAssumption DEF Enqueue, Jobs
  <2>4. workers' \subseteq Workers
    BY <1>2 DEF Enqueue, GrowPool
  <2>5. call' \in [Batches -> CallState]
    BY <1>2, CallUpdates DEF Enqueue, Active
  <2> QED
    BY <1>2, <2>2, <2>3, <2>4, <2>5 DEF Enqueue
<1>3. ASSUME NEW b \in Batches, NEW r \in Requests[b], EnqueueFails(b, r)
      PROVE  Types'
  <2>1. workers' \subseteq Workers
    BY <1>3 DEF EnqueueFails
  <2>2. call' \in [Batches -> CallState]
    BY <1>3, CallUpdates DEF EnqueueFails, Done
  <2> QED
    BY <1>3, <2>1, <2>2 DEF EnqueueFails
<1>4. ASSUME NEW b \in Batches, NotifyEnqueued(b) \/ Renotify(b)
      PROVE  Types'
  <2>1. call' = [call EXCEPT ![b] = [call[b] EXCEPT !.pc = "loop"]]
    BY <1>4, Zenon DEF NotifyEnqueued, Renotify
  <2>2. call' \in [Batches -> CallState]
    BY <2>1, CallUpdates DEF Active
  <2> QED
    BY <1>4, <2>2, NotifyAllType DEF NotifyEnqueued, Renotify
<1>5. ASSUME NEW b \in Batches, Poll(b)
      PROVE  Types'
  <2> DEFINE cancels == batch[b].cancelled \/ call[b].is_interrupted
             p == IF cancels /\ ~call[b].discarded_queue THEN "discard" ELSE "loop"
             seen == call[b].interrupted \/ call[b].is_interrupted
             gone == call[b].discarded_queue \/ cancels
  <2>1. cancels \in BOOLEAN /\ seen \in BOOLEAN /\ gone \in BOOLEAN /\ p \in Active
    BY DEF Active
  <2>2. /\ batch' = [batch EXCEPT ![b] = [batch[b] EXCEPT !.cancelled = cancels]]
        /\ call' = [call EXCEPT ![b] = [call[b] EXCEPT !.interrupted = seen,
                                             !.discarded_queue = gone, !.pc = p]]
    BY <1>5, Zenon DEF Poll
  <2> HIDE DEF cancels, p, seen, gone
  <2>3. batch' \in [Batches -> BatchRecord]
    BY <2>1, <2>2, BatchUpdates
  <2>4. call' \in [Batches -> CallState]
    BY <2>1, <2>2, CallUpdates
  <2> QED
    BY <1>5, <2>3, <2>4 DEF Poll
<1>6. ASSUME NEW b \in Batches, Discard(b)
      PROVE  Types'
  <2>1. Cardinality(QueuedOf(b)) \in Nat
    BY JobsFinite, FS_Subset, FS_CardinalityType DEF QueuedOf
  <2>2. batch[b].remaining_jobs - Cardinality(QueuedOf(b)) \in Int
    BY <2>1 DEF BatchRecord
  <2>3. batch' \in [Batches -> BatchRecord]
    BY <1>6, <2>2, BatchUpdates DEF Discard
  <2>4. call' \in [Batches -> CallState]
    BY <1>6, <2>1, CallUpdates DEF Discard, Active
  <2> QED
    BY <1>6, <2>3, <2>4 DEF Discard
<1>7. ASSUME NEW b \in Batches, CreditDiscarded(b)
      PROVE  Types'
  <2>1. batch[b].completed_jobs + call[b].discarded_jobs \in Nat
    BY DEF BatchRecord, CallState
  <2>2. batch' \in [Batches -> BatchRecord]
    BY <1>7, <2>1, BatchUpdates DEF CreditDiscarded
  <2>3. call' \in [Batches -> CallState]
    BY <1>7, CallUpdates DEF CreditDiscarded, Active
  <2> QED
    BY <1>7, <2>2, <2>3 DEF CreditDiscarded
<1>8. ASSUME NEW b \in Batches, Interrupt(b)
      PROVE  Types'
  <2>1. call' \in [Batches -> CallState]
    BY <1>8, CallUpdates DEF Interrupt
  <2> QED
    BY <1>8, <2>1 DEF Interrupt
<1>9. ASSUME NEW w \in Workers, TakeJob(w)
      PROVE  Types'
  <2>1. PICK j \in queue :
          LET reserves == ~batch[j[1]].cancelled
          IN /\ reserves => Admissible(j)
             /\ \A i \in queue : Precedes(i, j) => ~Admissible(i)
             /\ queue' = queue \ {j}
             /\ worker' = [worker EXCEPT ![w].pc = "taken", ![w].job = j,
                                         ![w].reserved_budget = reserves]
             /\ IF reserves
                THEN /\ batch' = [batch EXCEPT
                           ![j[1]].active_workers = @ + 1,
                           ![j[1]].active_codec_threads = @ + CodecThreads(j)]
                     /\ active_codec_threads' = active_codec_threads + CodecThreads(j)
                ELSE UNCHANGED <<batch, active_codec_threads>>
    BY <1>9, Zenon DEF TakeJob
  <2>2. j \in Jobs /\ j[1] \in Batches /\ CodecThreads(j) \in Nat
    BY CodecThreadsType DEF Jobs
  <2>3. /\ batch[j[1]].active_workers + 1 \in Int
        /\ batch[j[1]].active_codec_threads + CodecThreads(j) \in Int
    BY <2>2 DEF BatchRecord
  <2>4. batch' \in [Batches -> BatchRecord]
    <3>1. CASE batch[j[1]].cancelled
      BY <2>1, <3>1
    <3>2. CASE ~batch[j[1]].cancelled
      <4>1. batch' = [batch EXCEPT ![j[1]] = [batch[j[1]] EXCEPT
                                !.active_workers = @ + 1,
                                !.active_codec_threads = @ + CodecThreads(j)]]
        BY <2>1, <3>2, Zenon
      <4> QED
        BY <4>1, <2>2, <2>3, BatchUpdates
    <3> QED
      BY <3>1, <3>2
  <2>5. worker' \in [Workers -> WorkerState]
    BY <2>1, <2>2, WorkerUpdates DEF Carrying, Holding
  <2>6. active_codec_threads' \in Int
    BY <2>1, <2>2
  <2> QED
    BY <1>9, <2>1, <2>4, <2>5, <2>6 DEF TakeJob, Live
<1>10. ASSUME NEW w \in Workers, Idle(w)
       PROVE  Types'
  <2>1. worker' \in [Workers -> WorkerState]
    BY <1>10, WorkerUpdates DEF Idle
  <2> QED
    BY <1>10, <2>1 DEF Idle, Live
<1>11. ASSUME NEW w \in Workers, BeginEncoding(w) \/ FinishEncoding(w)
       PROVE  Types'
  <2>1. worker' \in [Workers -> WorkerState]
    <3>1. CASE BeginEncoding(w)
      BY <3>1, WorkerUpdates DEF BeginEncoding, Carrying, Holding
    <3>2. CASE FinishEncoding(w)
      <4>1. PICK o \in {"ok", "codec", "interrupt"}, p \in {"releasing", "settling"} :
               worker' = [worker EXCEPT ![w] = [worker[w] EXCEPT !.outcome = o, !.pc = p]]
        BY <3>2, Zenon DEF FinishEncoding
      <4> QED
        BY <4>1, WorkerUpdates DEF Carrying, Holding
    <3> QED
      BY <1>11, <3>1, <3>2
  <2> QED
    BY <1>11, <2>1 DEF BeginEncoding, FinishEncoding
<1>12. ASSUME NEW w \in Workers, CancelBatch(w) \/ RecordError(w)
       PROVE  Types'
  <2>1. worker' \in [Workers -> WorkerState]
    <3>1. PICK p \in {"recording", "releasing"} :
               worker' = [worker EXCEPT ![w] = [worker[w] EXCEPT !.pc = p]]
      BY <1>12, Zenon DEF CancelBatch, RecordError
    <3> QED
      BY <3>1, WorkerUpdates DEF Carrying, Holding
  <2>2. worker[w].job[1] \in Batches
    BY <1>12 DEF CancelBatch, RecordError, WorkersConsistent, Carrying, Holding, Jobs
  <2>3. CASE CancelBatch(w)
    <3>1. batch' \in [Batches -> BatchRecord]
      BY <2>2, <2>3, BatchUpdates DEF CancelBatch
    <3> QED
      BY <2>1, <2>3, <3>1 DEF CancelBatch
  <2>4. CASE RecordError(w)
    <3>1. worker[w].outcome \in {"none", "codec", "interrupt"}
      BY <2>4 DEF RecordError, WorkersConsistent
    <3>2. batch' \in [Batches -> BatchRecord]
      BY <2>2, <2>4, <3>1, BatchUpdates DEF RecordError
    <3> QED
      BY <2>1, <2>4, <3>2 DEF RecordError
  <2> QED
    BY <1>12, <2>3, <2>4
<1>13. ASSUME NEW w \in Workers, ReleaseBudget(w)
       PROVE  Types'
  <2> DEFINE b == worker[w].job[1]
             back == IF HasReservation(w) THEN 1 ELSE 0
             threads == back * CodecThreads(worker[w].job)
  <2>1. worker[w].job \in Jobs /\ b \in Batches
    BY <1>13 DEF ReleaseBudget, WorkersConsistent, Carrying, Holding, Jobs
  <2>2. back \in Int /\ threads \in Int
    BY <2>1, CodecThreadsType
  <2>3. /\ batch' = [batch EXCEPT ![b] = [batch[b] EXCEPT
                         !.active_workers = @ - back, !.active_codec_threads = @ - threads,
                         !.remaining_jobs = @ - 1]]
        /\ active_codec_threads' = active_codec_threads - threads
    BY <1>13, Zenon DEF ReleaseBudget
  <2> HIDE DEF b, back, threads
  <2>4. /\ batch[b].active_workers - back \in Int
        /\ batch[b].active_codec_threads - threads \in Int
        /\ batch[b].remaining_jobs - 1 \in Int
    BY <2>1, <2>2 DEF BatchRecord
  <2>5. batch' \in [Batches -> BatchRecord]
    BY <2>1, <2>3, <2>4, BatchUpdates
  <2>6. worker' \in [Workers -> WorkerState]
    BY <1>13, WorkerUpdates DEF ReleaseBudget, Carrying
  <2> QED
    BY <1>13, <2>2, <2>3, <2>5, <2>6 DEF ReleaseBudget
<1>14. ASSUME NEW w \in Workers, PublishResult(w)
       PROVE  Types'
  <2> DEFINE b == worker[w].job[1]
             stored == IF worker[w].outcome = "ok" /\ ~batch[b].cancelled
                       THEN {worker[w].job[2]} ELSE {}
  <2>1. b \in Batches /\ stored \in SUBSET (1..MaxJobs)
    BY <1>14 DEF PublishResult, WorkersConsistent, Carrying, Jobs
  <2>2. batch' = [batch EXCEPT ![b] = [batch[b] EXCEPT
                     !.results = @ \cup stored, !.completed_jobs = @ + 1]]
    BY <1>14, Zenon DEF PublishResult
  <2> HIDE DEF b, stored
  <2>3. batch[b].results \in SUBSET (1..MaxJobs) /\ batch[b].completed_jobs + 1 \in Nat
    BY <2>1 DEF BatchRecord
  <2>6. batch[b].results \cup stored \in SUBSET (1..MaxJobs)
    BY <2>1, <2>3
  <2>4. batch' \in [Batches -> BatchRecord]
    BY <2>1, <2>2, <2>3, <2>6, BatchUpdates
  <2>5. worker' \in [Workers -> WorkerState]
    BY <1>14, WorkerUpdates DEF PublishResult, Carrying
  <2> QED
    BY <1>14, <2>4, <2>5 DEF PublishResult
<1>15. ASSUME NEW w \in Workers, NotifyCompleted(w)
       PROVE  Types'
  <2>1. worker' \in [Workers -> WorkerState]
    BY <1>15, NotifyAllType, WorkerUpdates DEF NotifyCompleted
  <2> QED
    BY <1>15, <2>1 DEF NotifyCompleted
<1>16. CASE Stop
  <2>1. batch' \in [Batches -> BatchRecord]
    BY <1>16, BatchUpdates DEF Stop
  <2> QED
    BY <1>16, <2>1 DEF Stop
<1>17. CASE StopNotify
  BY <1>17, NotifyAllType DEF StopNotify
<1>18. CASE Terminated \/ UNCHANGED vars
  BY <1>18 DEF Terminated, vars
<1> QED
  BY <1>1, <1>2, <1>3, <1>4, <1>5, <1>6, <1>7, <1>8, <1>9, <1>10, <1>11, <1>12, <1>13,
     <1>14, <1>15, <1>16, <1>17, <1>18 DEF Next, CallerStep, WorkerStep

-----------------------------------------------------------------------------
(* Counting *)

\* A worker with c codec threads stands for c elements of ReservedThreads, a call with c
\* jobs for c elements of the queue.
LEMMA PairsWith ==
    ASSUME NEW w, NEW c \in Nat
    PROVE  IsFiniteSet({w} \X (1..c)) /\ Cardinality({w} \X (1..c)) = c
<1>2. IsFiniteSet(1..c) /\ Cardinality(1..c) = c
  BY FS_Interval
<1>3. IsFiniteSet({w}) /\ Cardinality({w}) = 1
  BY FS_Singleton
<1>4. IsFiniteSet({w} \X (1..c)) /\ Cardinality({w} \X (1..c)) = 1 * c
  BY <1>2, <1>3, FS_Product
<1> QED
  BY <1>4

\* A worker that reserves adds its threads to those of the others ...
LEMMA AddThreads ==
    ASSUME NEW S, IsFiniteSet(S), NEW w, NEW c \in Nat,
           S \cap ({w} \X (1..c)) = {}
    PROVE  Cardinality(S \cup ({w} \X (1..c))) = Cardinality(S) + c
<1> DEFINE T == {w} \X (1..c)
<1>1. IsFiniteSet(T) /\ Cardinality(T) = c
  BY PairsWith
<1>2. Cardinality(S) \in Nat
  BY FS_CardinalityType
<1>3. Cardinality(S \cap T) = 0
  BY FS_EmptySet, Zenon
<1> HIDE DEF T
<1>4. Cardinality(S \cup T) = Cardinality(S) + Cardinality(T) - Cardinality(S \cap T)
  BY <1>1, FS_Union, Zenon
<1>5. Cardinality(S \cup T) = Cardinality(S) + c
  BY <1>1, <1>2, <1>3, <1>4
<1> QED
  BY <1>5 DEF T

\* ... and one that releases takes them away.
LEMMA RemoveThreads ==
    ASSUME NEW S, IsFiniteSet(S), NEW w, NEW c \in Nat,
           ({w} \X (1..c)) \subseteq S
    PROVE  Cardinality(S \ ({w} \X (1..c))) = Cardinality(S) - c
<1> DEFINE T == {w} \X (1..c)
<1>1. S \cap T = T
  OBVIOUS
<1>2. IsFiniteSet(T) /\ Cardinality(T) = c
  BY PairsWith
<1> HIDE DEF T
<1>3. Cardinality(S \ T) = Cardinality(S) - Cardinality(S \cap T)
  BY FS_Difference, Zenon
<1>4. Cardinality(S \ T) = Cardinality(S) - c
  BY <1>1, <1>2, <1>3, Zenon
<1> QED
  BY <1>4 DEF T

\* The sets that the counters count are finite.
LEMMA CountedFinite ==
    ASSUME Types
    PROVE  /\ IsFiniteSet(Reserving) /\ IsFiniteSet(ReservedThreads(Reserving))
           /\ \A b \in Batches :
                 /\ IsFiniteSet(QueuedOf(b))
                 /\ IsFiniteSet(WorkersWith(b, Holding))
                 /\ IsFiniteSet(ReservingFor(b))
                 /\ IsFiniteSet(ReservedThreads(ReservingFor(b)))
<1>0. IsFiniteSet(1..MaxThreads)
  BY FS_Interval, BoundsAssumption
<1>1. IsFiniteSet(Workers \X (1..MaxThreads))
  BY <1>0, FS_Product, FiniteAssumption
<1>2. Reserving \subseteq Workers
  BY DEF Reserving
<1>3. ReservedThreads(Reserving) \subseteq Workers \X (1..MaxThreads)
  BY <1>2 DEF ReservedThreads
<1>4. ASSUME NEW b \in Batches
      PROVE  /\ QueuedOf(b) \subseteq Jobs /\ WorkersWith(b, Holding) \subseteq Workers
             /\ ReservingFor(b) \subseteq Workers
             /\ ReservedThreads(ReservingFor(b)) \subseteq Workers \X (1..MaxThreads)
  BY DEF Types, QueuedOf, WorkersWith, ReservingFor, Reserving, ReservedThreads
<1> QED
  BY <1>1, <1>2, <1>3, <1>4, JobsFinite, FiniteAssumption, FS_Subset

\* The counters are natural numbers.
LEMMA CountersNatural ==
    ASSUME Types, CountersExact
    PROVE  /\ active_codec_threads \in Nat
           /\ \A b \in Batches : /\ batch[b].active_workers \in Nat
                                /\ batch[b].active_codec_threads \in Nat
                                /\ batch[b].remaining_jobs \in Nat
<1>1. \A b \in Batches : /\ Cardinality(QueuedOf(b)) \in Nat
                        /\ Cardinality(WorkersWith(b, Holding)) \in Nat
                        /\ Cardinality(ReservingFor(b)) \in Nat
                        /\ Cardinality(ReservedThreads(ReservingFor(b))) \in Nat
  BY CountedFinite, FS_CardinalityType
<1>2. Cardinality(ReservedThreads(Reserving)) \in Nat
  BY CountedFinite, FS_CardinalityType
<1> QED
  BY <1>1, <1>2 DEF CountersExact

\* A batch with a queued job, or a job with a worker, is live.
LEMMA BusyBatchLive ==
    ASSUME IInv, NEW b \in Batches,
           QueuedOf(b) # {} \/ WorkersWith(b, Holding) # {} \/ batch[b].active_workers > 0
    PROVE  b \in Live
<1> USE DEF IInv, Consistent
<1>1. IsFiniteSet(QueuedOf(b)) /\ IsFiniteSet(WorkersWith(b, Holding)) /\ IsFiniteSet(ReservingFor(b))
  BY CountedFinite
<1>2. /\ Cardinality(QueuedOf(b)) \in Nat /\ Cardinality(WorkersWith(b, Holding)) \in Nat
      /\ QueuedOf(b) # {} => Cardinality(QueuedOf(b)) # 0
      /\ WorkersWith(b, Holding) # {} => Cardinality(WorkersWith(b, Holding)) # 0
      /\ ReservingFor(b) = {} => Cardinality(ReservingFor(b)) = 0
  BY <1>1, FS_CardinalityType, FS_EmptySet
<1>3. ReservingFor(b) # {} => WorkersWith(b, Holding) # {}
  BY DEF ReservingFor, Reserving, WorkersWith, WorkersConsistent
<1>4. batch[b].remaining_jobs # 0
  BY <1>2, <1>3 DEF CountersExact
<1> QED
  BY <1>4 DEF UnfinishedRegistered, Live

-----------------------------------------------------------------------------
(* Preservation *)

\* What a step that only touches results, flags and program counters keeps of a batch, of a
\* worker, of all of them, and of the pool.
SameCounters(y, x) ==
    /\ y.max_workers = x.max_workers /\ y.codec_thread_budget = x.codec_thread_budget
    /\ y.host_thread_budget = x.host_thread_budget
    /\ y.active_workers = x.active_workers /\ y.active_codec_threads = x.active_codec_threads
    /\ y.remaining_jobs = x.remaining_jobs
SameHold(y, x) ==
    /\ y.reserved_budget = x.reserved_budget
    /\ y.pc \in Holding <=> x.pc \in Holding
    /\ y.pc \in Carrying => x.pc \in Carrying /\ y.job = x.job
    /\ y.pc \in {"settling", "recording"} => y.outcome \in {"codec", "interrupt"}

BatchesKept == \A b \in Batches : SameCounters(batch'[b], batch[b])
CallsKept == \A b \in Batches : call'[b].pc = "idle" => call[b].pc = "idle"
WorkersKept == \A w \in Workers : SameHold(worker'[w], worker[w])
PoolKept == /\ queue' = queue /\ (batches' = batches \/ batches' = Live)
            /\ active_codec_threads' = active_codec_threads
Kept == BatchesKept /\ CallsKept /\ WorkersKept /\ PoolKept

\* A step that leaves the state under the executor's lock as it is, but for finished
\* batches that are dropped, keeps what is said about it.
LEMMA LockedStateKept == ASSUME IInv, Types', Kept PROVE Consistent'
<1> USE DEF IInv, Consistent, Kept
<1>0. /\ queue' = queue /\ (batches' = batches \/ batches' = Live)
      /\ active_codec_threads' = active_codec_threads
  BY DEF PoolKept
<1>1. \A w \in Workers : worker[w].pc \in Holding => worker'[w].job = worker[w].job
  BY DEF WorkersKept, SameHold, Carrying
<1>2. \A w \in Workers : worker[w].reserved_budget =>
         /\ worker[w].pc \in Holding /\ worker[w].job \in Jobs
         /\ worker'[w].job = worker[w].job
         /\ CodecThreads(worker[w].job)' = CodecThreads(worker[w].job)
  <2> SUFFICES ASSUME NEW w \in Workers, worker[w].reserved_budget
               PROVE  /\ worker[w].pc \in Holding /\ worker[w].job \in Jobs
                      /\ worker'[w].job = worker[w].job
                      /\ CodecThreads(worker[w].job)' = CodecThreads(worker[w].job)
    OBVIOUS
  <2>1. worker[w].pc \in Holding /\ worker[w].job \in Jobs
    BY DEF WorkersConsistent, Carrying
  <2>2. worker'[w].job = worker[w].job
    BY <1>1, <2>1
  <2>3. worker[w].job[1] \in Batches
    BY <2>1 DEF Jobs
  <2> QED
    BY <2>1, <2>2, <2>3 DEF CodecThreads, BatchesKept, SameCounters
<1>3. Reserving' = Reserving
  BY DEF Reserving, WorkersKept, SameHold
<1>4. ASSUME NEW b \in Batches
      PROVE  /\ ReservingFor(b)' = ReservingFor(b)
             /\ WorkersWith(b, Holding)' = WorkersWith(b, Holding)
             /\ WorkersWith(b, Carrying)' \subseteq WorkersWith(b, Carrying)
             /\ QueuedOf(b)' = QueuedOf(b)
  <2>1. ReservingFor(b)' = ReservingFor(b)
    BY <1>2, <1>3 DEF ReservingFor, Reserving
  <2>2. WorkersWith(b, Holding)' = WorkersWith(b, Holding)
    BY <1>1 DEF WorkersWith, WorkersKept, SameHold
  <2>3. WorkersWith(b, Carrying)' \subseteq WorkersWith(b, Carrying)
    BY DEF WorkersWith, WorkersKept, SameHold
  <2>4. QueuedOf(b)' = QueuedOf(b)
    BY <1>0, Zenon DEF QueuedOf
  <2> QED
    BY <2>1, <2>2, <2>3, <2>4
<1>5. ASSUME NEW ws \in SUBSET Reserving
      PROVE  {s \in ws \X (1..MaxThreads) : s[2] <= CodecThreads(worker[s[1]].job)'}
               = ReservedThreads(ws)
  BY <1>2 DEF ReservedThreads, Reserving
<1>6. ReservedThreads(Reserving)' = ReservedThreads(Reserving)
  BY <1>3, <1>5 DEF ReservedThreads
<1>7. ASSUME NEW b \in Batches
      PROVE  ReservedThreads(ReservingFor(b))' = ReservedThreads(ReservingFor(b))
  BY <1>4, <1>5 DEF ReservedThreads, ReservingFor
<1>8. WorkersConsistent'
  BY <1>2 DEF WorkersConsistent, WorkersKept, SameHold
<1>9. IdleCallsAbsent'
  BY <1>4 DEF IdleCallsAbsent, CallsKept
<1>10. CountersExact'
  BY <1>0, <1>4, <1>6, <1>7 DEF CountersExact, BatchesKept, SameCounters
<1>11. WithinLimits' /\ HostBudgetRespected'
  BY <1>0 DEF WithinLimits, HostBudgetRespected, BatchesKept, SameCounters
<1>12. UnfinishedRegistered'
  BY <1>0 DEF UnfinishedRegistered, Live, BatchesKept, SameCounters
<1> QED
  BY <1>8, <1>9, <1>10, <1>11, <1>12

\* Updates of the other fields of a batch keep its counters.
LEMMA CountersFrame ==
    ASSUME NEW x \in BatchRecord
    PROVE  /\ \A f : SameCounters([x EXCEPT !.cancelled = f], x)
           /\ \A e : SameCounters([x EXCEPT !.error = e], x)
           /\ \A n : SameCounters([x EXCEPT !.completed_jobs = n], x)
           /\ \A s, n : SameCounters([x EXCEPT !.results = s, !.completed_jobs = n], x)
BY DEF BatchRecord, SameCounters

\* A worker that moves within one phase of its job keeps its hold on it.
LEMMA HoldFrame ==
    ASSUME NEW x \in WorkerState,
           x.pc \in {"settling", "recording"} => x.outcome \in {"codec", "interrupt"}
    PROVE  /\ SameHold(x, x)
           /\ \A p \in {"asleep", "exited", "ready"} :
                 x.pc \notin Carrying => SameHold([x EXCEPT !.pc = p], x)
           /\ \A p \in Holding \ {"settling", "recording"} :
                 x.pc \in Holding => SameHold([x EXCEPT !.pc = p], x)
           /\ \A p \in {"settling", "recording"} :
                 x.pc \in {"settling", "recording"} => SameHold([x EXCEPT !.pc = p], x)
           /\ \A o \in {"codec", "interrupt"} :
                 x.pc \in Holding => SameHold([x EXCEPT !.outcome = o, !.pc = "settling"], x)
           /\ x.pc \in Holding => SameHold([x EXCEPT !.outcome = "ok", !.pc = "releasing"], x)
           /\ x.pc = "publishing" => SameHold([x EXCEPT !.pc = "notifying"], x)
           /\ x.pc = "notifying" =>
                 SameHold([x EXCEPT !.pc = "ready", !.job = NoJob, !.outcome = "none"], x)
BY DEF WorkerState, SameHold, Carrying, Holding

\* The steps that only touch results, flags and program counters.
QuietCallStep(b) ==
    \/ ExecuteEmpty(b) \/ ExecuteRejected(b) \/ Interrupt(b) \/ NotifyEnqueued(b)
    \/ Poll(b) \/ Finish(b) \/ CreditDiscarded(b) \/ Renotify(b)
    \/ \E r \in Requests[b] : EnqueueFails(b, r)
QuietWorkerStep(w) ==
    \/ Idle(w) \/ BeginEncoding(w) \/ FinishEncoding(w) \/ CancelBatch(w)
    \/ RecordError(w) \/ PublishResult(w) \/ NotifyCompleted(w)

\* No call goes back to where it has not started.
LEMMA CallsFrame ==
    ASSUME Types, NEW b \in Batches,
           NEW c, call' = [call EXCEPT ![b] = c], c.pc # "idle" \/ c.pc = call[b].pc
    PROVE  CallsKept
BY DEF Types, CallsKept

\* A notification keeps every worker's hold on its job.
LEMMA NotifyAllHolds ==
    ASSUME IInv, NEW w \in Workers
    PROVE  SameHold(NotifyAll(worker)[w], worker[w])
<1>1. /\ worker[w] \in WorkerState
      /\ worker[w].pc \in {"settling", "recording"} =>
            worker[w].outcome \in {"codec", "interrupt"}
  BY DEF IInv, Types, Consistent, WorkersConsistent
<1>2. CASE worker[w].pc = "asleep"
  <2>1. /\ NotifyAll(worker)[w] = [worker[w] EXCEPT !.pc = "ready"]
        /\ worker[w].pc \notin Carrying
    BY <1>2 DEF NotifyAll, Carrying, Holding
  <2> QED
    BY <1>1, <2>1, HoldFrame
<1>3. CASE worker[w].pc # "asleep"
  <2>1. NotifyAll(worker)[w] = worker[w]
    BY <1>3 DEF NotifyAll
  <2> QED
    BY <1>1, <2>1, HoldFrame
<1> QED
  BY <1>2, <1>3

\* A quiet step of a call keeps what is under the executor's lock.
LEMMA QuietCallSteps ==
    ASSUME IInv, NEW b \in Batches, QuietCallStep(b)
    PROVE  Kept
<1> USE DEF IInv, Types, poolVars
<1>1. call[b] \in CallState /\ batch[b] \in BatchRecord
  OBVIOUS
<1>2. batch' = batch => BatchesKept
  BY DEF BatchesKept, SameCounters
<1>3. \A w \in Workers : SameHold(worker[w], worker[w])
  BY HoldFrame DEF Consistent, WorkersConsistent
<1>4. worker' = worker => WorkersKept
  BY <1>3 DEF WorkersKept
<1>5. worker' = NotifyAll(worker) => WorkersKept
  BY NotifyAllHolds DEF WorkersKept
<1>6. ASSUME poolVars' = poolVars PROVE PoolKept
  BY <1>6 DEF PoolKept
<1>7. CASE ExecuteEmpty(b) \/ ExecuteRejected(b) \/ Finish(b)
  <2>1. PICK p \in Done : call' = [call EXCEPT ![b] = [call[b] EXCEPT !.pc = p]]
    BY <1>7, Zenon DEF ExecuteEmpty, ExecuteRejected, Finish, Done
  <2>2. CallsKept
    BY <1>1, <2>1, CallsFrame DEF CallState, Done
  <2>3. batch' = batch /\ worker' = worker /\ poolVars' = poolVars
    BY <1>7, Zenon DEF ExecuteEmpty, ExecuteRejected, Finish
  <2> QED
    BY <1>2, <1>4, <1>6, <2>2, <2>3, Zenon DEF Kept
<1>8. ASSUME NEW r \in Requests[b], EnqueueFails(b, r) PROVE Kept
  <2>1. call' = [call EXCEPT ![b] = [call[b] EXCEPT !.pc = "enqueue_failed"]]
    BY <1>8, Zenon DEF EnqueueFails
  <2>2. CallsKept
    BY <1>1, <2>1, CallsFrame DEF CallState
  <2>3. batch' = batch /\ worker' = worker /\ PoolKept
    BY <1>8, Zenon DEF EnqueueFails, PoolKept
  <2> QED
    BY <1>2, <1>4, <2>2, <2>3, Zenon DEF Kept
<1>9. CASE Interrupt(b)
  <2>1. call' = [call EXCEPT ![b] = [call[b] EXCEPT !.is_interrupted = TRUE]]
    BY <1>9, Zenon DEF Interrupt
  <2>2. CallsKept
    BY <1>1, <2>1, CallsFrame DEF CallState
  <2>3. batch' = batch /\ worker' = worker /\ poolVars' = poolVars
    BY <1>9, Zenon DEF Interrupt
  <2> QED
    BY <1>2, <1>4, <1>6, <2>2, <2>3, Zenon DEF Kept
<1>10. CASE NotifyEnqueued(b) \/ Renotify(b)
  <2>1. call' = [call EXCEPT ![b] = [call[b] EXCEPT !.pc = "loop"]]
    BY <1>10, Zenon DEF NotifyEnqueued, Renotify
  <2>2. CallsKept
    BY <1>1, <2>1, CallsFrame DEF CallState
  <2>3. batch' = batch /\ worker' = NotifyAll(worker) /\ poolVars' = poolVars
    BY <1>10, Zenon DEF NotifyEnqueued, Renotify
  <2> QED
    BY <1>2, <1>5, <1>6, <2>2, <2>3, Zenon DEF Kept
<1>11. CASE Poll(b)
  <2> DEFINE cancels == batch[b].cancelled \/ call[b].is_interrupted
             p == IF cancels /\ ~call[b].discarded_queue THEN "discard" ELSE "loop"
             f == call[b].interrupted \/ call[b].is_interrupted
             g == call[b].discarded_queue \/ cancels
  <2>0. call' = [call EXCEPT ![b] = [call[b] EXCEPT !.interrupted = f,
                                             !.discarded_queue = g, !.pc = p]]
    BY <1>11, Zenon DEF Poll
  <2>1. p \in {"discard", "loop"}
    OBVIOUS
  <2> HIDE DEF p, f, g
  <2>2. CallsKept
    BY <1>1, <2>0, <2>1, CallsFrame DEF CallState
  <2>3. batch' = [batch EXCEPT ![b] = [batch[b] EXCEPT !.cancelled = cancels]]
    BY <1>11, Zenon DEF Poll
  <2> HIDE DEF cancels
  <2>4. BatchesKept
    BY <1>1, <1>2, <2>3, CountersFrame DEF BatchesKept, SameCounters
  <2>5. worker' = worker /\ poolVars' = poolVars
    BY <1>11, Zenon DEF Poll
  <2> QED
    BY <1>4, <1>6, <2>2, <2>4, <2>5, Zenon DEF Kept
<1>12. CASE CreditDiscarded(b)
  <2>1. call' = [call EXCEPT ![b] = [call[b] EXCEPT !.pc = "renotify"]]
    BY <1>12, Zenon DEF CreditDiscarded
  <2>2. CallsKept
    BY <1>1, <2>1, CallsFrame DEF CallState
  <2>3. \E n : batch' = [batch EXCEPT ![b] = [batch[b] EXCEPT !.completed_jobs = n]]
    BY <1>12, Zenon DEF CreditDiscarded
  <2>4. BatchesKept
    BY <1>1, <2>3, CountersFrame DEF BatchesKept, SameCounters
  <2>5. worker' = worker /\ poolVars' = poolVars
    BY <1>12, Zenon DEF CreditDiscarded
  <2> QED
    BY <1>4, <1>6, <2>2, <2>4, <2>5, Zenon DEF Kept
<1> QED
  BY <1>7, <1>8, <1>9, <1>10, <1>11, <1>12, Zenon DEF QuietCallStep

\* A quiet step of a worker keeps what is under the executor's lock.
LEMMA QuietWorkerSteps ==
    ASSUME IInv, NEW w \in Workers, QuietWorkerStep(w)
    PROVE  Kept
<1> USE DEF IInv, Types, poolVars
<1>1. worker[w] \in WorkerState
  OBVIOUS
<1>2. batch' = batch => BatchesKept
  BY DEF BatchesKept, SameCounters
<1>3. call' = call => CallsKept
  BY DEF CallsKept
<1>4. \A v \in Workers : /\ SameHold(worker[v], worker[v])
                         /\ worker[v].pc \in {"settling", "recording"} =>
                               worker[v].outcome \in {"codec", "interrupt"}
  BY HoldFrame DEF Consistent, WorkersConsistent
<1>5. ASSUME NEW x, worker' = [worker EXCEPT ![w] = x], SameHold(x, worker[w])
      PROVE  WorkersKept
  BY <1>4, <1>5 DEF WorkersKept
<1>6. ASSUME poolVars' = poolVars PROVE PoolKept
  BY <1>6 DEF PoolKept
<1>7. CASE Idle(w)
  <2>1. PICK p \in {"asleep", "exited"} : worker' = [worker EXCEPT ![w] = [worker[w] EXCEPT !.pc = p]]
    BY <1>7, Zenon DEF Idle
  <2>2. worker[w].pc \notin Carrying
    BY <1>7 DEF Idle, Carrying, Holding
  <2>3. WorkersKept
    BY <1>1, <1>4, <1>5, <2>1, <2>2, HoldFrame
  <2>4. batch' = batch /\ call' = call /\ PoolKept
    BY <1>7, Zenon DEF Idle, PoolKept
  <2> QED
    BY <1>2, <1>3, <2>3, <2>4, Zenon DEF Kept
<1>8. CASE BeginEncoding(w)
  <2>1. PICK p \in {"releasing", "encoding"} :
           worker' = [worker EXCEPT ![w] = [worker[w] EXCEPT !.pc = p]]
    BY <1>8, Zenon DEF BeginEncoding
  <2>2. p \in Holding \ {"settling", "recording"} /\ worker[w].pc \in Holding
    BY <1>8 DEF BeginEncoding, Holding
  <2>3. WorkersKept
    BY <1>1, <1>4, <1>5, <2>1, <2>2, HoldFrame
  <2>4. batch' = batch /\ call' = call /\ poolVars' = poolVars
    BY <1>8, Zenon DEF BeginEncoding
  <2> QED
    BY <1>2, <1>3, <1>6, <2>3, <2>4, Zenon DEF Kept
<1>9. CASE FinishEncoding(w)
  <2>1. PICK o \in {"ok", "codec", "interrupt"} :
           worker' = [worker EXCEPT ![w] = [worker[w] EXCEPT !.outcome = o,
                                        !.pc = IF o = "ok" THEN "releasing" ELSE "settling"]]
    BY <1>9, Zenon DEF FinishEncoding
  <2>2. worker[w].pc \in Holding
    BY <1>9 DEF FinishEncoding, Holding
  <2>3. SameHold([worker[w] EXCEPT !.outcome = o,
                     !.pc = IF o = "ok" THEN "releasing" ELSE "settling"], worker[w])
    <3>1. CASE o = "ok"
      BY <1>1, <1>4, <2>2, <3>1, HoldFrame
    <3>2. CASE o # "ok"
      BY <1>1, <1>4, <2>2, <3>2, HoldFrame
    <3> QED
      BY <3>1, <3>2
  <2>4. batch' = batch /\ call' = call /\ poolVars' = poolVars
    BY <1>9, Zenon DEF FinishEncoding
  <2> QED
    BY <1>2, <1>3, <1>5, <1>6, <2>1, <2>3, <2>4, Zenon DEF Kept
<1>10. CASE CancelBatch(w)
  <2>1. PICK p \in {"recording", "releasing"} :
           worker' = [worker EXCEPT ![w] = [worker[w] EXCEPT !.pc = p]]
    BY <1>10, Zenon DEF CancelBatch
  <2>2. worker[w].pc = "settling" /\ worker[w].job[1] \in Batches
    BY <1>10 DEF CancelBatch, Consistent, WorkersConsistent, Carrying, Holding, Jobs
  <2>3. SameHold([worker[w] EXCEPT !.pc = p], worker[w])
    BY <1>1, <1>4, <2>2, HoldFrame DEF Holding
  <2>4. batch' = [batch EXCEPT ![worker[w].job[1]] =
                     [batch[worker[w].job[1]] EXCEPT !.cancelled = TRUE]]
    BY <1>10, Zenon DEF CancelBatch
  <2>5. BatchesKept
    BY <2>2, <2>4, CountersFrame DEF BatchesKept, SameCounters
  <2>6. call' = call /\ poolVars' = poolVars
    BY <1>10, Zenon DEF CancelBatch
  <2> QED
    BY <1>3, <1>5, <1>6, <2>1, <2>3, <2>5, <2>6, Zenon DEF Kept
<1>11. CASE RecordError(w)
  <2>1. worker' = [worker EXCEPT ![w] = [worker[w] EXCEPT !.pc = "releasing"]]
    BY <1>11, Zenon DEF RecordError
  <2>2. worker[w].pc = "recording" /\ worker[w].job[1] \in Batches
    BY <1>11 DEF RecordError, Consistent, WorkersConsistent, Carrying, Holding, Jobs
  <2>3. SameHold([worker[w] EXCEPT !.pc = "releasing"], worker[w])
    BY <1>1, <1>4, <2>2, HoldFrame DEF Holding
  <2>4. batch' = [batch EXCEPT ![worker[w].job[1]] =
                     [batch[worker[w].job[1]] EXCEPT !.error = worker[w].outcome]]
    BY <1>11, Zenon DEF RecordError
  <2>5. BatchesKept
    BY <2>2, <2>4, CountersFrame DEF BatchesKept, SameCounters
  <2>6. call' = call /\ poolVars' = poolVars
    BY <1>11, Zenon DEF RecordError
  <2> QED
    BY <1>3, <1>5, <1>6, <2>1, <2>3, <2>5, <2>6, Zenon DEF Kept
<1>12. CASE PublishResult(w)
  <2> DEFINE b == worker[w].job[1]
             stored == IF worker[w].outcome = "ok" /\ ~batch[b].cancelled
                       THEN {worker[w].job[2]} ELSE {}
             s == batch[b].results \cup stored
             n == batch[b].completed_jobs + 1
  <2>1. worker' = [worker EXCEPT ![w] = [worker[w] EXCEPT !.pc = "notifying"]]
    BY <1>12, Zenon DEF PublishResult
  <2>2. worker[w].pc = "publishing" /\ b \in Batches
    BY <1>12 DEF PublishResult, Consistent, WorkersConsistent, Carrying, Jobs
  <2>3. SameHold([worker[w] EXCEPT !.pc = "notifying"], worker[w])
    BY <1>1, <1>4, <2>2, HoldFrame
  <2>4. batch' = [batch EXCEPT ![b] = [batch[b] EXCEPT !.results = s, !.completed_jobs = n]]
    BY <1>12, Zenon DEF PublishResult
  <2>5. BatchesKept
    <3> HIDE DEF b, s, n
    <3> QED
      BY <2>2, <2>4, CountersFrame DEF BatchesKept, SameCounters
  <2>6. call' = call /\ poolVars' = poolVars
    BY <1>12, Zenon DEF PublishResult
  <2> QED
    BY <1>3, <1>5, <1>6, <2>1, <2>3, <2>5, <2>6, Zenon DEF Kept
<1>13. CASE NotifyCompleted(w)
  <2> DEFINE x == [worker[w] EXCEPT !.pc = "ready", !.job = NoJob, !.outcome = "none"]
  <2>1. worker[w].pc = "notifying"
    BY <1>13 DEF NotifyCompleted
  <2>2. NotifyAll(worker)[w] = worker[w]
    BY <2>1 DEF NotifyAll
  <2>3. worker' = [NotifyAll(worker) EXCEPT ![w] = x]
    BY <1>13, <2>2 DEF NotifyCompleted
  <2>4. SameHold(x, worker[w])
    BY <1>1, <1>4, <2>1, HoldFrame
  <2>5. \A v \in Workers : SameHold(NotifyAll(worker)[v], worker[v])
    BY NotifyAllHolds
  <2> HIDE DEF x
  <2>6. WorkersKept
    BY <2>3, <2>4, <2>5 DEF WorkersKept, NotifyAll
  <2>7. batch' = batch /\ call' = call /\ poolVars' = poolVars
    BY <1>13, Zenon DEF NotifyCompleted
  <2> QED
    BY <1>2, <1>3, <1>6, <2>6, <2>7, Zenon DEF Kept
<1> QED
  BY <1>7, <1>8, <1>9, <1>10, <1>11, <1>12, <1>13, Zenon DEF QuietWorkerStep

\* So does the destructor.
LEMMA QuietStop ==
    ASSUME IInv, Stop \/ StopNotify \/ Terminated \/ UNCHANGED vars
    PROVE  Kept
<1> USE DEF IInv, Types, poolVars
<1>1. WorkersKept
  <2>1. worker' = worker \/ worker' = NotifyAll(worker)
    BY Zenon DEF Stop, StopNotify, Terminated, vars
  <2> QED
    BY <2>1, NotifyAllHolds, HoldFrame DEF WorkersKept, Consistent, WorkersConsistent
<1>2. BatchesKept
  <2>1. CASE Stop
    <3>1. \A b \in Batches : \E f : batch'[b] = [batch[b] EXCEPT !.cancelled = f]
      BY <2>1, Zenon DEF Stop
    <3>2. ASSUME NEW b \in Batches PROVE SameCounters(batch'[b], batch[b])
      <4>1. batch[b] \in BatchRecord
        OBVIOUS
      <4>2. PICK f : batch'[b] = [batch[b] EXCEPT !.cancelled = f]
        BY <3>1
      <4> QED
        BY <4>1, <4>2, CountersFrame, Zenon
    <3> QED
      BY <3>2 DEF BatchesKept
  <2>2. CASE StopNotify \/ Terminated \/ UNCHANGED vars
    <3>1. batch' = batch
      BY <2>2, Zenon DEF StopNotify, Terminated, vars
    <3> QED
      BY <3>1 DEF BatchesKept, SameCounters
  <2> QED
    BY <2>1, <2>2
<1>3. CallsKept
  <2>1. call' = call
    BY Zenon DEF Stop, StopNotify, Terminated, vars
  <2> QED
    BY <2>1 DEF CallsKept
<1>4. PoolKept
  BY Zenon DEF Stop, StopNotify, Terminated, vars, PoolKept
<1> QED
  BY <1>1, <1>2, <1>3, <1>4 DEF Kept

\* When jobs of a call that had not started arrive, they are the only ones of their batch.
LEMMA EnqueueStep ==
    ASSUME IInv, Types', NEW b \in Batches, NEW r \in Requests[b], Enqueue(b, r)
    PROVE  Consistent'
<1> USE DEF IInv, Consistent, Types
<1>1. /\ call[b].pc = "idle" /\ queue' = queue \cup ({b} \X (1..r.jobs))
      /\ batches' = batches \cup {b} /\ worker' = worker
      /\ active_codec_threads' = active_codec_threads
      /\ call' = [call EXCEPT ![b] = [call[b] EXCEPT !.pc = "notify"]]
  BY Zenon DEF Enqueue, CallMayStart
<1>2. r.jobs \in 1..MaxJobs
  BY RequestType, BoundsAssumption DEF Enqueue
<1>3. PICK n : batch' = [batch EXCEPT ![b] = AcceptedBatch(r, n)]
  BY Zenon DEF Enqueue, CreateBatch
<1>4. /\ batch'[b].active_workers = 0 /\ batch'[b].active_codec_threads = 0
      /\ batch'[b].remaining_jobs = r.jobs
      /\ \A c \in Batches \ {b} : batch'[c] = batch[c]
  BY <1>3 DEF AcceptedBatch, NewBatch
<1>5. QueuedOf(b) = {} /\ WorkersWith(b, Carrying) = {}
  BY <1>1 DEF IdleCallsAbsent
<1>6. WorkersWith(b, Holding) = {} /\ ReservingFor(b) = {}
  BY <1>5 DEF WorkersWith, ReservingFor, Reserving, Carrying, WorkersConsistent
<1>7. \A w \in Workers : worker[w].reserved_budget =>
         /\ worker[w].job \in Jobs
         /\ CodecThreads(worker[w].job)' = CodecThreads(worker[w].job)
  <2> SUFFICES ASSUME NEW w \in Workers, worker[w].reserved_budget
               PROVE  /\ worker[w].job \in Jobs
                      /\ CodecThreads(worker[w].job)' = CodecThreads(worker[w].job)
    OBVIOUS
  <2>1. worker[w].job \in Jobs
    BY DEF WorkersConsistent, Carrying
  <2>2. worker[w].job[1] \in Batches \ {b}
    BY <1>6, <2>1 DEF Jobs, ReservingFor, Reserving
  <2> QED
    BY <1>1, <1>4, <2>1, <2>2 DEF CodecThreads
<1>8. Reserving' = Reserving /\ \A c \in Batches : ReservingFor(c)' = ReservingFor(c)
  BY <1>1 DEF Reserving, ReservingFor
<1>9. ASSUME NEW ws \in SUBSET Reserving
      PROVE  {s \in ws \X (1..MaxThreads) : s[2] <= CodecThreads(worker[s[1]].job)'}
               = ReservedThreads(ws)
  BY <1>7 DEF ReservedThreads, Reserving
<1>10. ReservedThreads(Reserving)' = ReservedThreads(Reserving)
  BY <1>8, <1>9 DEF ReservedThreads
<1>11. ASSUME NEW c \in Batches
       PROVE  ReservedThreads(ReservingFor(c))' = ReservedThreads(ReservingFor(c))
  BY <1>8, <1>9 DEF ReservedThreads, ReservingFor
<1>12. \A c \in Batches : \A stages : WorkersWith(c, stages)' = WorkersWith(c, stages)
  BY <1>1 DEF WorkersWith
<1>13. \A c \in Batches \ {b} : QueuedOf(c)' = QueuedOf(c)
  BY <1>1 DEF QueuedOf
<1>14. Cardinality(QueuedOf(b)') = r.jobs
  <2>1. QueuedOf(b)' = {b} \X (1..r.jobs)
    BY <1>1, <1>5 DEF QueuedOf
  <2>2. r.jobs \in Nat
    BY <1>2, BoundsAssumption
  <2> QED
    BY <2>1, <2>2, PairsWith, Zenon
<1>15. WorkersConsistent'
  BY <1>1, <1>7 DEF WorkersConsistent
<1>16. IdleCallsAbsent'
  <2>1. \A c \in Batches : call'[c].pc = "idle" => c # b /\ call[c].pc = "idle"
    BY <1>1 DEF CallState
  <2> QED
    BY <1>12, <1>13, <2>1 DEF IdleCallsAbsent
<1>17. CountersExact'
  <2>1. active_codec_threads' = Cardinality(ReservedThreads(Reserving)')
    BY <1>1, <1>10 DEF CountersExact
  <2>2. ASSUME NEW c \in Batches
        PROVE  /\ batch'[c].active_workers = Cardinality(ReservingFor(c)')
               /\ batch'[c].active_codec_threads = Cardinality(ReservedThreads(ReservingFor(c))')
               /\ batch'[c].remaining_jobs =
                     Cardinality(QueuedOf(c)') + Cardinality(WorkersWith(c, Holding)')
    <3>1. CASE c = b
      <4>1. ReservedThreads({}) = {} /\ Cardinality({}) = 0
        BY FS_EmptySet DEF ReservedThreads
      <4>2. ReservingFor(b)' = {} /\ WorkersWith(b, Holding)' = {}
        BY <1>6, <1>8, <1>12
      <4>3. ReservedThreads(ReservingFor(b))' = {}
        BY <1>6, <1>11, <4>1
      <4>4. Cardinality(QueuedOf(b)') + Cardinality(WorkersWith(b, Holding)') = r.jobs
        BY <1>2, <1>14, <4>1, <4>2, BoundsAssumption
      <4> QED
        BY <1>4, <3>1, <4>1, <4>2, <4>3, <4>4
    <3>2. CASE c # b
      BY <1>4, <1>8, <1>11, <1>12, <1>13, <3>2 DEF CountersExact
    <3> QED
      BY <3>1, <3>2
  <2> QED
    BY <2>1, <2>2 DEF CountersExact
<1>18. WithinLimits'
  <2>1. batch'[b] \in BatchRecord
    OBVIOUS
  <2>2. 0 <= batch'[b].max_workers /\ 0 <= batch'[b].codec_thread_budget
    BY <2>1, BoundsAssumption DEF BatchRecord
  <2> QED
    BY <1>4, <2>2 DEF WithinLimits
<1>19. HostBudgetRespected'
  BY <1>1, <1>4 DEF HostBudgetRespected
<1>20. UnfinishedRegistered'
  BY <1>1, <1>4 DEF UnfinishedRegistered
<1> QED
  BY <1>15, <1>16, <1>17, <1>18, <1>19, <1>20

\* Erasing the queued jobs of a batch takes their number off remaining_jobs.
LEMMA DiscardStep ==
    ASSUME IInv, Types', NEW b \in Batches, Discard(b)
    PROVE  Consistent'
<1> USE DEF IInv, Consistent, Types
<1> DEFINE n == Cardinality(QueuedOf(b))
<1>1. /\ queue' = queue \ QueuedOf(b) /\ batches' = batches /\ worker' = worker
      /\ active_codec_threads' = active_codec_threads
      /\ call' = [call EXCEPT ![b] = [call[b] EXCEPT !.discarded_jobs = n, !.pc = "credit"]]
      /\ batch' = [batch EXCEPT ![b] = [batch[b] EXCEPT !.remaining_jobs = @ - n]]
  BY Zenon DEF Discard
<1>2. /\ \A c \in Batches :
            /\ batch'[c].max_workers = batch[c].max_workers
            /\ batch'[c].codec_thread_budget = batch[c].codec_thread_budget
            /\ batch'[c].host_thread_budget = batch[c].host_thread_budget
            /\ batch'[c].active_workers = batch[c].active_workers
            /\ batch'[c].active_codec_threads = batch[c].active_codec_threads
            /\ c # b => batch'[c].remaining_jobs = batch[c].remaining_jobs
      /\ batch'[b].remaining_jobs = batch[b].remaining_jobs - n
  BY <1>1 DEF BatchRecord
<1>3. \A c \in Batches : \A stages : /\ WorkersWith(c, stages)' = WorkersWith(c, stages)
                                 /\ ReservingFor(c)' = ReservingFor(c)
  BY <1>1 DEF WorkersWith, ReservingFor, Reserving
<1>4. QueuedOf(b)' = {} /\ \A c \in Batches \ {b} : QueuedOf(c)' = QueuedOf(c)
  BY <1>1 DEF QueuedOf
<1>5. \A w \in Workers : worker[w].reserved_budget =>
         CodecThreads(worker[w].job)' = CodecThreads(worker[w].job)
  <2> SUFFICES ASSUME NEW w \in Workers, worker[w].reserved_budget
               PROVE  CodecThreads(worker[w].job)' = CodecThreads(worker[w].job)
    OBVIOUS
  <2>1. worker[w].job[1] \in Batches
    BY DEF WorkersConsistent, Carrying, Jobs
  <2> QED
    BY <1>1, <1>2, <2>1 DEF CodecThreads
<1>6. ASSUME NEW ws \in SUBSET Reserving
      PROVE  {s \in ws \X (1..MaxThreads) : s[2] <= CodecThreads(worker[s[1]].job)'}
               = ReservedThreads(ws)
  BY <1>5 DEF ReservedThreads, Reserving
<1>7. Reserving' = Reserving
  BY <1>1 DEF Reserving
<1>8. ReservedThreads(Reserving)' = ReservedThreads(Reserving)
  BY <1>1, <1>6, <1>7 DEF ReservedThreads
<1>9. ASSUME NEW c \in Batches
      PROVE  ReservedThreads(ReservingFor(c))' = ReservedThreads(ReservingFor(c))
  BY <1>1, <1>3, <1>6 DEF ReservedThreads, ReservingFor
<1>10. n \in Nat /\ Cardinality(WorkersWith(b, Holding)) \in Nat /\ Cardinality({}) = 0
  BY CountedFinite, FS_CardinalityType, FS_EmptySet
<1>11. WorkersConsistent'
  BY <1>1, <1>5 DEF WorkersConsistent
<1>12. IdleCallsAbsent'
  <2>1. \A c \in Batches : call'[c].pc = "idle" => c # b /\ call[c].pc = "idle"
    BY <1>1 DEF CallState
  <2> QED
    BY <1>3, <1>4, <2>1 DEF IdleCallsAbsent
<1>13. CountersExact'
  <2>1. active_codec_threads' = Cardinality(ReservedThreads(Reserving)')
    BY <1>1, <1>8 DEF CountersExact
  <2>2. ASSUME NEW c \in Batches
        PROVE  /\ batch'[c].active_workers = Cardinality(ReservingFor(c)')
               /\ batch'[c].active_codec_threads = Cardinality(ReservedThreads(ReservingFor(c))')
    BY <1>2, <1>3, <1>9 DEF CountersExact
  <2>3. ASSUME NEW c \in Batches
        PROVE  batch'[c].remaining_jobs =
                     Cardinality(QueuedOf(c)') + Cardinality(WorkersWith(c, Holding)')
    <3>1. CASE c = b
      <4>1. batch[b].remaining_jobs = n + Cardinality(WorkersWith(b, Holding))
        BY DEF CountersExact
      <4>2. QueuedOf(c)' = {} /\ WorkersWith(c, Holding)' = WorkersWith(b, Holding)
        BY <1>3, <1>4, <3>1, Zenon
      <4>3. batch'[c].remaining_jobs = batch[b].remaining_jobs - n
        BY <1>2, <3>1, Zenon
      <4> HIDE DEF n
      <4> QED
        BY <1>10, <4>1, <4>2, <4>3
    <3>2. CASE c # b
      BY <1>2, <1>3, <1>4, <3>2 DEF CountersExact
    <3> QED
      BY <3>1, <3>2
  <2> QED
    BY <2>1, <2>2, <2>3 DEF CountersExact
<1>14. WithinLimits' /\ HostBudgetRespected'
  BY <1>1, <1>2 DEF WithinLimits, HostBudgetRespected
<1>15. UnfinishedRegistered'
  <2>1. batch[b].remaining_jobs = n + Cardinality(WorkersWith(b, Holding))
    BY DEF CountersExact
  <2>2. batch'[b].remaining_jobs # 0 => batch[b].remaining_jobs # 0
    <3> HIDE DEF n
    <3> QED
      BY <1>2, <1>10, <2>1
  <2> QED
    BY <1>1, <1>2, <2>2 DEF UnfinishedRegistered
<1> QED
  BY <1>11, <1>12, <1>13, <1>14, <1>15

\* A job moves from the queue to a worker; a reservation is made only within the budgets of
\* its batch and the host budgets of all live batches.
LEMMA TakeJobStep ==
    ASSUME IInv, Types', NEW w \in Workers, TakeJob(w)
    PROVE  Consistent'
<1> USE DEF IInv, Consistent, Types
<1>1. PICK j \in queue :
          LET reserves == ~batch[j[1]].cancelled
          IN /\ reserves => Admissible(j)
             /\ \A i \in queue : Precedes(i, j) => ~Admissible(i)
             /\ queue' = queue \ {j}
             /\ worker' = [worker EXCEPT ![w].pc = "taken", ![w].job = j,
                                         ![w].reserved_budget = reserves]
             /\ IF reserves
                THEN /\ batch' = [batch EXCEPT
                           ![j[1]].active_workers = @ + 1,
                           ![j[1]].active_codec_threads = @ + CodecThreads(j)]
                     /\ active_codec_threads' = active_codec_threads + CodecThreads(j)
                ELSE UNCHANGED <<batch, active_codec_threads>>
  BY Zenon DEF TakeJob
<1> DEFINE b == j[1]
           t == CodecThreads(j)
<1>2. j \in Jobs /\ b \in Batches /\ t \in Nat
  BY CodecThreadsType DEF Jobs
<1>3. worker[w].pc = "ready" /\ batches' = Live /\ call' = call
  BY Zenon DEF TakeJob
<1>4. /\ worker'[w].pc = "taken" /\ worker'[w].job = j
      /\ worker'[w].reserved_budget = ~batch[b].cancelled
      /\ \A v \in Workers \ {w} : worker'[v] = worker[v]
  BY <1>1 DEF WorkerState
<1>5. /\ w \notin Reserving
      /\ \A c \in Batches : w \notin WorkersWith(c, Holding) /\ w \notin WorkersWith(c, Carrying)
  BY <1>3 DEF Reserving, WorkersWith, WorkersConsistent, Holding, Carrying
<1>6. /\ \A c \in Batches :
            /\ batch'[c].max_workers = batch[c].max_workers
            /\ batch'[c].codec_thread_budget = batch[c].codec_thread_budget
            /\ batch'[c].host_thread_budget = batch[c].host_thread_budget
            /\ batch'[c].remaining_jobs = batch[c].remaining_jobs
            /\ c # b \/ batch[b].cancelled =>
                  /\ batch'[c].active_workers = batch[c].active_workers
                  /\ batch'[c].active_codec_threads = batch[c].active_codec_threads
      /\ ~batch[b].cancelled =>
            /\ batch'[b].active_workers = batch[b].active_workers + 1
            /\ batch'[b].active_codec_threads = batch[b].active_codec_threads + t
            /\ active_codec_threads' = active_codec_threads + t
      /\ batch[b].cancelled => active_codec_threads' = active_codec_threads
  <2>1. CASE batch[b].cancelled
    <3>1. batch' = batch /\ active_codec_threads' = active_codec_threads
      BY <1>1, <2>1
    <3> QED
      BY <2>1, <3>1
  <2>2. CASE ~batch[b].cancelled
    <3>1. batch' = [batch EXCEPT ![j[1]] = [batch[j[1]] EXCEPT
                              !.active_workers = @ + 1,
                              !.active_codec_threads = @ + CodecThreads(j)]]
      BY <1>1, <2>2, Zenon
    <3>2. active_codec_threads' = active_codec_threads + CodecThreads(j)
      BY <1>1, <2>2
    <3>3. \A x \in BatchRecord : \A n :
             LET y == [x EXCEPT !.active_workers = @ + 1, !.active_codec_threads = @ + n]
             IN /\ y.max_workers = x.max_workers
                /\ y.codec_thread_budget = x.codec_thread_budget
                /\ y.host_thread_budget = x.host_thread_budget
                /\ y.remaining_jobs = x.remaining_jobs
                /\ y.active_workers = x.active_workers + 1
                /\ y.active_codec_threads = x.active_codec_threads + n
      BY DEF BatchRecord
    <3>4. /\ \A c \in Batches \ {b} : batch'[c] = batch[c]
          /\ batch'[b] = [batch[b] EXCEPT !.active_workers = @ + 1, !.active_codec_threads = @ + t]
      BY <1>2, <3>1
    <3>5. batch[b] \in BatchRecord
      BY <1>2
    <3>6. /\ batch'[b].max_workers = batch[b].max_workers
          /\ batch'[b].codec_thread_budget = batch[b].codec_thread_budget
          /\ batch'[b].host_thread_budget = batch[b].host_thread_budget
          /\ batch'[b].remaining_jobs = batch[b].remaining_jobs
          /\ batch'[b].active_workers = batch[b].active_workers + 1
          /\ batch'[b].active_codec_threads = batch[b].active_codec_threads + t
      <4> HIDE DEF b, t
      <4> QED
        BY <3>3, <3>4, <3>5
    <3> QED
      BY <2>2, <3>2, <3>4, <3>6
  <2> QED
    BY <2>1, <2>2
<1>7. ~batch[b].cancelled => Admissible(j)
  BY <1>1
<1>8. \A i \in Jobs : CodecThreads(i)' = CodecThreads(i)
  BY <1>6 DEF CodecThreads, Jobs
<1>9. QueuedOf(b)' = QueuedOf(b) \ {j} /\ \A c \in Batches \ {b} : QueuedOf(c)' = QueuedOf(c)
  BY <1>1 DEF QueuedOf
<1>10. /\ WorkersWith(b, Holding)' = WorkersWith(b, Holding) \cup {w}
       /\ WorkersWith(b, Carrying)' = WorkersWith(b, Carrying) \cup {w}
       /\ \A c \in Batches \ {b} : /\ WorkersWith(c, Holding)' = WorkersWith(c, Holding)
                                   /\ WorkersWith(c, Carrying)' = WorkersWith(c, Carrying)
  BY <1>3, <1>4 DEF WorkersWith, Holding, Carrying
<1>11. b \in Live
  <2>1. QueuedOf(b) # {}
    BY DEF QueuedOf
  <2> QED
    BY <1>2, <2>1, BusyBatchLive
<1>12. ~batch[b].cancelled => t \in 0..MaxThreads
  <2>1. batch[b].active_codec_threads \in Nat
    BY <1>2, CountersNatural
  <2>2. batch[b].codec_thread_budget \in 1..MaxThreads
    BY <1>2 DEF BatchRecord
  <2> HIDE DEF t, b
  <2>3. ~batch[b].cancelled => batch[b].active_codec_threads + t <= batch[b].codec_thread_budget
    BY <1>7 DEF Admissible, t, b
  <2> QED
    BY <1>2, <2>1, <2>2, <2>3, BoundsAssumption
<1>13. WorkersConsistent'
  BY <1>2, <1>4, <1>8, <1>12 DEF WorkersConsistent, Holding, Carrying
<1>14. IdleCallsAbsent'
  <2>1. call[b].pc # "idle"
    BY <1>2 DEF IdleCallsAbsent, QueuedOf
  <2> QED
    BY <1>3, <1>9, <1>10, <2>1 DEF IdleCallsAbsent
<1> DEFINE mine == IF batch[b].cancelled THEN {} ELSE {w}
           pairs == IF batch[b].cancelled THEN {} ELSE {w} \X (1..t)
<1>15. /\ Reserving' = Reserving \cup mine
       /\ ReservingFor(b)' = ReservingFor(b) \cup mine
       /\ \A c \in Batches \ {b} : ReservingFor(c)' = ReservingFor(c)
  <2>1. Reserving' = Reserving \cup mine
    BY <1>4, <1>5 DEF Reserving
  <2>2. \A v \in Reserving : worker'[v] = worker[v]
    BY <1>4, <1>5 DEF Reserving
  <2>3. worker'[w].job[1] = b
    BY <1>4
  <2>4. \A c \in Batches : ReservingFor(c)' = {v \in Reserving \cup mine : worker'[v].job[1] = c}
    BY <2>1 DEF ReservingFor
  <2>5. mine \subseteq {w}
    OBVIOUS
  <2>6. \A c \in Batches : ReservingFor(c) = {v \in Reserving : worker'[v].job[1] = c}
    BY <2>2 DEF ReservingFor
  <2> HIDE DEF mine, b
  <2>7. ReservingFor(b)' = ReservingFor(b) \cup mine
    BY <1>2, <2>3, <2>4, <2>5, <2>6
  <2>8. ASSUME NEW c \in Batches \ {b}
        PROVE  ReservingFor(c)' = ReservingFor(c)
    <3>1. \A v \in mine : worker'[v].job[1] # c
      BY <2>3, <2>5
    <3>2. ReservingFor(c)' = {v \in Reserving \cup mine : worker'[v].job[1] = c}
            /\ ReservingFor(c) = {v \in Reserving : worker'[v].job[1] = c}
      BY <2>4, <2>6
    <3> QED
      BY <3>1, <3>2
  <2> QED
    BY <2>1, <2>7, <2>8
<1>16. ASSUME NEW ws \in SUBSET Reserving
       PROVE  {s \in ws \X (1..MaxThreads) : s[2] <= CodecThreads(worker[s[1]].job)'}
                = ReservedThreads(ws)
  <2>1. \A v \in ws : worker'[v] = worker[v] /\ worker[v].job \in Jobs
    BY <1>4, <1>5 DEF Reserving, WorkersConsistent, Carrying
  <2>2. \A v \in ws : CodecThreads(worker[v].job)' = CodecThreads(worker[v].job)
    BY <1>6, <2>1 DEF CodecThreads, Jobs
  <2> QED
    BY <2>2 DEF ReservedThreads
<1>17. {s \in mine \X (1..MaxThreads) : s[2] <= CodecThreads(worker[s[1]].job)'} = pairs
  <2>1. CASE batch[b].cancelled
    BY <2>1
  <2>2. CASE ~batch[b].cancelled
    <3>1. CodecThreads(worker[w].job)' = t
      BY <1>2, <1>4, <1>6 DEF CodecThreads
    <3>2. {s \in {w} \X (1..MaxThreads) : s[2] <= t} = {w} \X (1..t)
      <4> HIDE DEF t
      <4> QED
        BY <1>12, <2>2, BoundsAssumption
    <3> HIDE DEF t
    <3> QED
      BY <2>2, <3>1, <3>2
  <2> QED
    BY <2>1, <2>2
<1>18. ASSUME NEW ws \in SUBSET Reserving
       PROVE  {s \in (ws \cup mine) \X (1..MaxThreads) : s[2] <= CodecThreads(worker[s[1]].job)'}
                = ReservedThreads(ws) \cup pairs
  <2> HIDE DEF mine, pairs
  <2>1. {s \in (ws \cup mine) \X (1..MaxThreads) : s[2] <= CodecThreads(worker[s[1]].job)'}
         = {s \in ws \X (1..MaxThreads) : s[2] <= CodecThreads(worker[s[1]].job)'}
           \cup {s \in mine \X (1..MaxThreads) : s[2] <= CodecThreads(worker[s[1]].job)'}
    OBVIOUS
  <2> QED
    BY <1>16, <1>17, <2>1
<1>19. /\ ReservedThreads(Reserving)' = ReservedThreads(Reserving) \cup pairs
       /\ ReservedThreads(ReservingFor(b))' = ReservedThreads(ReservingFor(b)) \cup pairs
       /\ \A c \in Batches \ {b} :
             ReservedThreads(ReservingFor(c))' = ReservedThreads(ReservingFor(c))
  <2> HIDE DEF mine, pairs
  <2>1. \A c \in Batches : ReservingFor(c) \in SUBSET Reserving
    BY DEF ReservingFor
  <2>2. Reserving \in SUBSET Reserving
    OBVIOUS
  <2>3. ReservedThreads(Reserving)' = ReservedThreads(Reserving) \cup pairs
    BY <1>15, <1>18, <2>2 DEF ReservedThreads
  <2>4. ReservedThreads(ReservingFor(b))' = ReservedThreads(ReservingFor(b)) \cup pairs
    BY <1>2, <1>15, <1>18, <2>1 DEF ReservedThreads
  <2>5. \A c \in Batches \ {b} :
             ReservedThreads(ReservingFor(c))' = ReservedThreads(ReservingFor(c))
    BY <1>15, <1>16, <2>1 DEF ReservedThreads
  <2> QED
    BY <2>3, <2>4, <2>5
<1>20. CountersExact'
  <2>1. active_codec_threads' = Cardinality(ReservedThreads(Reserving)')
    <3>1. /\ IsFiniteSet(ReservedThreads(Reserving))
          /\ ReservedThreads(Reserving) \cap ({w} \X (1..t)) = {}
      BY CountedFinite, <1>5 DEF ReservedThreads
    <3>2. active_codec_threads = Cardinality(ReservedThreads(Reserving))
      BY DEF CountersExact
    <3>3. CASE batch[b].cancelled
      BY <1>6, <1>19, <3>2, <3>3
    <3>4. CASE ~batch[b].cancelled
      <4>1. ReservedThreads(Reserving)' = ReservedThreads(Reserving) \cup ({w} \X (1..t))
        BY <1>19, <3>4
      <4>2. active_codec_threads' = active_codec_threads + t
        BY <1>6, <3>4
      <4>3. Cardinality(ReservedThreads(Reserving) \cup ({w} \X (1..t)))
              = Cardinality(ReservedThreads(Reserving)) + t
        BY <1>2, <3>1, AddThreads, Zenon
      <4> QED
        BY <3>2, <4>1, <4>2, <4>3, Zenon
    <3> QED
      BY <3>3, <3>4
  <2>2. ASSUME NEW c \in Batches
        PROVE  batch'[c].active_workers = Cardinality(ReservingFor(c)')
    <3>1. /\ IsFiniteSet(ReservingFor(c)) /\ w \notin ReservingFor(c)
          /\ batch[c].active_workers = Cardinality(ReservingFor(c))
      BY CountedFinite, <1>5 DEF ReservingFor, CountersExact
    <3>2. CASE c # b \/ batch[b].cancelled
      <4>1. ReservingFor(c)' = ReservingFor(c)
        BY <1>15, <3>2
      <4> QED
        BY <1>6, <3>1, <3>2, <4>1
    <3>3. CASE c = b /\ ~batch[b].cancelled
      <4>1. ReservingFor(c)' = ReservingFor(c) \cup {w}
        BY <1>15, <3>3
      <4>2. Cardinality(ReservingFor(c) \cup {w}) = Cardinality(ReservingFor(c)) + 1
        BY <3>1, FS_AddElement
      <4> QED
        BY <1>6, <3>1, <3>3, <4>1, <4>2
    <3> QED
      BY <3>2, <3>3
  <2>3. ASSUME NEW c \in Batches
        PROVE  batch'[c].active_codec_threads = Cardinality(ReservedThreads(ReservingFor(c))')
    <3>1. /\ IsFiniteSet(ReservedThreads(ReservingFor(c)))
          /\ ReservedThreads(ReservingFor(c)) \cap ({w} \X (1..t)) = {}
      BY CountedFinite, <1>5 DEF ReservedThreads, ReservingFor
    <3>2. batch[c].active_codec_threads = Cardinality(ReservedThreads(ReservingFor(c)))
      BY DEF CountersExact
    <3>3. CASE c # b \/ batch[b].cancelled
      <4>1. ReservedThreads(ReservingFor(c))' = ReservedThreads(ReservingFor(c))
        BY <1>19, <3>3
      <4> QED
        BY <1>6, <3>2, <3>3, <4>1
    <3>4. CASE c = b /\ ~batch[b].cancelled
      <4>1. ReservedThreads(ReservingFor(c))' = ReservedThreads(ReservingFor(c)) \cup ({w} \X (1..t))
        BY <1>19, <3>4
      <4>2. batch'[c].active_codec_threads = batch[c].active_codec_threads + t
        BY <1>6, <3>4
      <4>3. Cardinality(ReservedThreads(ReservingFor(c)) \cup ({w} \X (1..t)))
              = Cardinality(ReservedThreads(ReservingFor(c))) + t
        BY <1>2, <3>1, AddThreads, Zenon
      <4> QED
        BY <3>2, <4>1, <4>2, <4>3, Zenon
    <3> QED
      BY <3>3, <3>4
  <2>4. ASSUME NEW c \in Batches
        PROVE  batch'[c].remaining_jobs =
                     Cardinality(QueuedOf(c)') + Cardinality(WorkersWith(c, Holding)')
    <3>1. /\ batch'[c].remaining_jobs = batch[c].remaining_jobs
          /\ batch[c].remaining_jobs =
                Cardinality(QueuedOf(c)) + Cardinality(WorkersWith(c, Holding))
      BY <1>6 DEF CountersExact
    <3>2. CASE c # b
      BY <1>9, <1>10, <3>1, <3>2
    <3>3. CASE c = b
      <4>1. j \in QueuedOf(c) /\ w \notin WorkersWith(c, Holding)
        BY <1>5, <3>3 DEF QueuedOf
      <4>2. IsFiniteSet(QueuedOf(c)) /\ IsFiniteSet(WorkersWith(c, Holding))
        BY CountedFinite
      <4>3. Cardinality(QueuedOf(c) \ {j}) = Cardinality(QueuedOf(c)) - 1
        BY <4>1, <4>2, FS_RemoveElement
      <4>4. Cardinality(WorkersWith(c, Holding) \cup {w}) = Cardinality(WorkersWith(c, Holding)) + 1
        BY <4>1, <4>2, FS_AddElement
      <4>5. Cardinality(QueuedOf(c)) \in Nat /\ Cardinality(WorkersWith(c, Holding)) \in Nat
        BY <4>2, FS_CardinalityType
      <4>6. QueuedOf(c)' = QueuedOf(c) \ {j}
              /\ WorkersWith(c, Holding)' = WorkersWith(c, Holding) \cup {w}
        BY <1>9, <1>10, <3>3
      <4> QED
        BY <3>1, <4>3, <4>4, <4>5, <4>6
    <3> QED
      BY <3>2, <3>3
  <2> QED
    BY <2>1, <2>2, <2>3, <2>4 DEF CountersExact
<1>21. WithinLimits'
  <2>1. ~batch[b].cancelled =>
           /\ batch[b].active_workers < batch[b].max_workers
           /\ batch[b].active_codec_threads + t <= batch[b].codec_thread_budget
    BY <1>7 DEF Admissible
  <2>2. batch[b].active_workers \in Nat /\ batch[b].max_workers \in Nat
    BY <1>2, CountersNatural, BoundsAssumption DEF BatchRecord
  <2>3. \A c \in Batches : /\ batch'[c].active_workers <= batch'[c].max_workers
                            /\ batch'[c].active_codec_threads <= batch'[c].codec_thread_budget
    <3> SUFFICES ASSUME NEW c \in Batches
                 PROVE  /\ batch'[c].active_workers <= batch'[c].max_workers
                        /\ batch'[c].active_codec_threads <= batch'[c].codec_thread_budget
      OBVIOUS
    <3> HIDE DEF b, t
    <3>1. CASE c # b \/ batch[b].cancelled
      BY <1>6, <3>1 DEF WithinLimits
    <3>2. CASE c = b /\ ~batch[b].cancelled
      BY <1>6, <2>1, <2>2, <3>2
    <3> QED
      BY <3>1, <3>2
  <2> QED
    BY <2>3 DEF WithinLimits
<1>22. HostBudgetRespected'
  <2> SUFFICES ASSUME NEW c \in Batches, batch'[c].active_workers > 0
               PROVE  active_codec_threads' <= batch'[c].host_thread_budget
    BY DEF HostBudgetRespected
  <2>1. CASE batch[b].cancelled
    BY <1>6, <2>1 DEF HostBudgetRespected
  <2>2. CASE ~batch[b].cancelled
    <3>1. c \in Live
      <4>1. CASE c = b
        BY <1>11, <4>1
      <4>2. CASE c # b
        <5>1. batch[c].active_workers > 0
          BY <1>6, <4>2
        <5> QED
          BY <5>1, BusyBatchLive
      <4> QED
        BY <4>1, <4>2
    <3>2. WithinGlobalCapacity(t)
      BY <1>7, <2>2 DEF Admissible
    <3>3. active_codec_threads + t <= batch[c].host_thread_budget
      <4> HIDE DEF t
      <4> QED
        BY <3>1, <3>2, Zenon DEF WithinGlobalCapacity
    <3>4. active_codec_threads' = active_codec_threads + t
            /\ batch'[c].host_thread_budget = batch[c].host_thread_budget
      BY <1>6, <2>2
    <3> HIDE DEF t
    <3> QED
      BY <3>3, <3>4
  <2> QED
    BY <2>1, <2>2
<1>23. UnfinishedRegistered'
  BY <1>3, <1>6 DEF UnfinishedRegistered, Live
<1> QED
  BY <1>13, <1>14, <1>20, <1>21, <1>22, <1>23

\* A worker gives back exactly what it reserved, and its job is counted down once.
LEMMA ReleaseStep ==
    ASSUME IInv, Types', NEW w \in Workers, ReleaseBudget(w)
    PROVE  Consistent'
<1> USE DEF IInv, Consistent, Types
<1>0. worker[w].pc = "releasing" /\ worker[w].job \in Jobs
  BY DEF ReleaseBudget, WorkersConsistent, Carrying, Holding
<1>a. PICK b \in Batches : b = worker[w].job[1]
  BY <1>0 DEF Jobs
<1>b. PICK t \in Nat : t = CodecThreads(worker[w].job)
  BY <1>0, CodecThreadsType
<1>c. PICK back \in 0..1 : back = IF HasReservation(w) THEN 1 ELSE 0
  OBVIOUS
<1>d. PICK threads : threads = back * t
  OBVIOUS
<1>1. /\ batch' = [batch EXCEPT ![b] = [batch[b] EXCEPT
                      !.active_workers = @ - back, !.active_codec_threads = @ - threads,
                      !.remaining_jobs = @ - 1]]
      /\ active_codec_threads' = active_codec_threads - threads
      /\ queue' = queue /\ batches' = batches /\ call' = call
      /\ worker' = [worker EXCEPT ![w] = [worker[w] EXCEPT !.pc = "publishing",
                                                           !.reserved_budget = FALSE]]
  <2>1. /\ batch' = [batch EXCEPT ![b] = [batch[b] EXCEPT
                      !.active_workers = @ - back, !.active_codec_threads = @ - threads,
                      !.remaining_jobs = @ - 1]]
        /\ active_codec_threads' = active_codec_threads - threads
    BY <1>a, <1>b, <1>c, <1>d, Zenon DEF ReleaseBudget
  <2>2. worker' = [worker EXCEPT ![w] = [worker[w] EXCEPT !.pc = "publishing",
                                                           !.reserved_budget = FALSE]]
    BY Zenon DEF ReleaseBudget
  <2>3. queue' = queue /\ batches' = batches /\ call' = call
    BY DEF ReleaseBudget
  <2> QED
    BY <2>1, <2>2, <2>3
<1>2. worker[w].job \in Jobs /\ b \in Batches /\ t \in Nat
  BY <1>0
<1>3. HasReservation(w) => t \in 0..MaxThreads /\ back = 1 /\ threads = t
  BY <1>b, <1>c, <1>d DEF HasReservation, WorkersConsistent
<1>4. ~HasReservation(w) => back = 0 /\ threads = 0
  BY <1>c, <1>d
<1>5. /\ worker'[w].pc = "publishing" /\ worker'[w].job = worker[w].job
      /\ worker'[w].reserved_budget = FALSE
      /\ \A v \in Workers \ {w} : worker'[v] = worker[v]
  BY <1>1 DEF WorkerState
<1>6. /\ \A c \in Batches :
            /\ batch'[c].max_workers = batch[c].max_workers
            /\ batch'[c].codec_thread_budget = batch[c].codec_thread_budget
            /\ batch'[c].host_thread_budget = batch[c].host_thread_budget
            /\ c # b => /\ batch'[c].remaining_jobs = batch[c].remaining_jobs
                        /\ batch'[c].active_workers = batch[c].active_workers
                        /\ batch'[c].active_codec_threads = batch[c].active_codec_threads
      /\ batch'[b].active_workers = batch[b].active_workers - back
      /\ batch'[b].active_codec_threads = batch[b].active_codec_threads - threads
      /\ batch'[b].remaining_jobs = batch[b].remaining_jobs - 1
  <2>1. \A x \in BatchRecord : \A n, m :
           LET y == [x EXCEPT !.active_workers = @ - n, !.active_codec_threads = @ - m,
                              !.remaining_jobs = @ - 1]
           IN /\ y.max_workers = x.max_workers
              /\ y.codec_thread_budget = x.codec_thread_budget
              /\ y.host_thread_budget = x.host_thread_budget
              /\ y.remaining_jobs = x.remaining_jobs - 1
              /\ y.active_workers = x.active_workers - n
              /\ y.active_codec_threads = x.active_codec_threads - m
    BY DEF BatchRecord
  <2>2. batch[b] \in BatchRecord /\ batch \in [Batches -> BatchRecord]
    BY <1>2
  <2>3. /\ \A c \in Batches \ {b} : batch'[c] = batch[c]
        /\ batch'[b] = [batch[b] EXCEPT !.active_workers = @ - back,
                          !.active_codec_threads = @ - threads, !.remaining_jobs = @ - 1]
    BY <1>1, <1>2
  <2>4. /\ batch'[b].max_workers = batch[b].max_workers
        /\ batch'[b].codec_thread_budget = batch[b].codec_thread_budget
        /\ batch'[b].host_thread_budget = batch[b].host_thread_budget
        /\ batch'[b].remaining_jobs = batch[b].remaining_jobs - 1
        /\ batch'[b].active_workers = batch[b].active_workers - back
        /\ batch'[b].active_codec_threads = batch[b].active_codec_threads - threads
    BY <2>1, <2>2, <2>3
  <2> QED
    BY <2>3, <2>4
<1>7. \A i \in Jobs : CodecThreads(i)' = CodecThreads(i)
  BY <1>6 DEF CodecThreads, Jobs
<1>8. /\ w \in WorkersWith(b, Holding)
      /\ WorkersWith(b, Holding)' = WorkersWith(b, Holding) \ {w}
      /\ \A c \in Batches : WorkersWith(c, Carrying)' = WorkersWith(c, Carrying)
      /\ \A c \in Batches \ {b} : WorkersWith(c, Holding)' = WorkersWith(c, Holding)
  BY <1>a, <1>0, <1>5 DEF WorkersWith, Holding, Carrying
<1>9. \A c \in Batches : QueuedOf(c)' = QueuedOf(c)
  BY <1>1, Zenon DEF QueuedOf
<1>10. /\ Reserving' = Reserving \ {w}
       /\ \A c \in Batches : ReservingFor(c)' = ReservingFor(c) \ {w}
       /\ \A c \in Batches \ {b} : w \notin ReservingFor(c)
       /\ HasReservation(w) => w \in Reserving /\ w \in ReservingFor(b)
       /\ ~HasReservation(w) => w \notin Reserving /\ w \notin ReservingFor(b)
  BY <1>a, <1>5 DEF Reserving, ReservingFor, HasReservation
<1>11. ASSUME NEW ws \in SUBSET Reserving
       PROVE  {s \in (ws \ {w}) \X (1..MaxThreads) : s[2] <= CodecThreads(worker[s[1]].job)'}
                = ReservedThreads(ws \ {w})
  <2>1. \A v \in ws \ {w} : worker'[v] = worker[v] /\ worker[v].job \in Jobs
    BY <1>5 DEF Reserving, WorkersConsistent, Carrying
  <2>2. \A v \in ws \ {w} : CodecThreads(worker[v].job)' = CodecThreads(worker[v].job)
    BY <1>6, <2>1 DEF CodecThreads, Jobs
  <2> QED
    BY <2>2 DEF ReservedThreads
<1>12. ASSUME NEW ws \in SUBSET Reserving, w \in ws
       PROVE  /\ ReservedThreads(ws \ {w}) = ReservedThreads(ws) \ ({w} \X (1..t))
              /\ {w} \X (1..t) \subseteq ReservedThreads(ws)
  <2>1. t \in 0..MaxThreads
    BY <1>3, <1>12 DEF Reserving, HasReservation
  <2>2. {w} \X (1..t) = {s \in {w} \X (1..MaxThreads) : s[2] <= CodecThreads(worker[s[1]].job)}
    <3>1. \A s \in {w} \X (1..MaxThreads) : CodecThreads(worker[s[1]].job) = t
      BY <1>b
    <3> QED
      BY <2>1, <3>1, BoundsAssumption
  <2> QED
    BY <1>12, <2>2 DEF ReservedThreads
<1>13. ASSUME NEW ws \in SUBSET Reserving, IsFiniteSet(ReservedThreads(ws)), w \in ws
       PROVE  Cardinality(ReservedThreads(ws \ {w})) = Cardinality(ReservedThreads(ws)) - t
  <2>1. /\ ReservedThreads(ws \ {w}) = ReservedThreads(ws) \ ({w} \X (1..t))
        /\ {w} \X (1..t) \subseteq ReservedThreads(ws)
    BY <1>12, <1>13
  <2>2. Cardinality(ReservedThreads(ws) \ ({w} \X (1..t))) = Cardinality(ReservedThreads(ws)) - t
    BY <1>13, <2>1, RemoveThreads, Zenon
  <2> QED
    BY <2>1, <2>2
<1>14. /\ Reserving \in SUBSET Reserving
       /\ \A c \in Batches : ReservingFor(c) \in SUBSET Reserving
  BY DEF ReservingFor
<1>15. /\ ReservedThreads(Reserving)' = ReservedThreads(Reserving \ {w})
       /\ \A c \in Batches :
             ReservedThreads(ReservingFor(c))' = ReservedThreads(ReservingFor(c) \ {w})
  <2>1. ReservedThreads(Reserving)' = ReservedThreads(Reserving \ {w})
    BY <1>10, <1>11, <1>14 DEF ReservedThreads
  <2>2. ASSUME NEW c \in Batches
        PROVE  ReservedThreads(ReservingFor(c))' = ReservedThreads(ReservingFor(c) \ {w})
    BY <1>10, <1>11, <1>14 DEF ReservedThreads
  <2> QED
    BY <2>1, <2>2
<1>16. WorkersConsistent'
  BY <1>2, <1>5, <1>7 DEF WorkersConsistent, Holding, Carrying
<1>17. IdleCallsAbsent'
  BY <1>1, <1>8, <1>9 DEF IdleCallsAbsent
<1>18. CountersExact'
  <2>1. active_codec_threads' = Cardinality(ReservedThreads(Reserving)')
    <3>1. IsFiniteSet(ReservedThreads(Reserving))
            /\ active_codec_threads = Cardinality(ReservedThreads(Reserving))
      BY CountedFinite DEF CountersExact
    <3>2. CASE HasReservation(w)
      <4>1. Cardinality(ReservedThreads(Reserving \ {w}))
              = Cardinality(ReservedThreads(Reserving)) - t
        BY <1>10, <1>13, <1>14, <3>1, <3>2, Zenon
      <4>2. active_codec_threads' = active_codec_threads - t
        BY <1>1, <1>3, <3>2
      <4> QED
        BY <1>15, <3>1, <4>1, <4>2, Zenon
    <3>3. CASE ~HasReservation(w)
      <4>1. Reserving \ {w} = Reserving
        BY <1>10, <3>3
      <4>2. active_codec_threads' = active_codec_threads - 0
        BY <1>1, <1>4, <3>3, Zenon
      <4>3. active_codec_threads' = active_codec_threads
        BY <4>2
      <4> QED
        BY <1>15, <3>1, <4>1, <4>3, Zenon
    <3> QED
      BY <3>2, <3>3
  <2>2. ASSUME NEW c \in Batches
        PROVE  /\ batch'[c].active_workers = Cardinality(ReservingFor(c)')
               /\ batch'[c].active_codec_threads = Cardinality(ReservedThreads(ReservingFor(c))')
    <3>1. /\ IsFiniteSet(ReservingFor(c)) /\ IsFiniteSet(ReservedThreads(ReservingFor(c)))
          /\ batch[c].active_workers = Cardinality(ReservingFor(c))
          /\ batch[c].active_codec_threads = Cardinality(ReservedThreads(ReservingFor(c)))
      BY CountedFinite DEF CountersExact
    <3>2. CASE c = b /\ HasReservation(w)
      <4>1. w \in ReservingFor(c)
        BY <1>10, <3>2
      <4>2. Cardinality(ReservingFor(c) \ {w}) = Cardinality(ReservingFor(c)) - 1
        BY <3>1, <4>1, FS_RemoveElement
      <4>3. Cardinality(ReservedThreads(ReservingFor(c) \ {w}))
              = Cardinality(ReservedThreads(ReservingFor(c))) - t
        BY <1>13, <1>14, <3>1, <4>1, Zenon
      <4>4. /\ batch'[c].active_workers = batch[c].active_workers - 1
            /\ batch'[c].active_codec_threads = batch[c].active_codec_threads - t
        BY <1>3, <1>6, <3>2, Zenon
      <4> QED
        BY <1>10, <1>15, <3>1, <4>2, <4>3, <4>4, Zenon
    <3>3. CASE ~(c = b /\ HasReservation(w))
      <4>1. ReservingFor(c) \ {w} = ReservingFor(c)
        BY <1>10, <3>3
      <4>2. /\ batch'[c].active_workers = batch[c].active_workers
            /\ batch'[c].active_codec_threads = batch[c].active_codec_threads
        <5>1. CASE c # b
          BY <1>6, <5>1
        <5>2. CASE c = b
          <6>1. /\ batch'[c].active_workers = batch[c].active_workers - 0
                /\ batch'[c].active_codec_threads = batch[c].active_codec_threads - 0
            BY <1>4, <1>6, <3>3, <5>2, Zenon
          <6>2. batch[c].active_workers \in Int /\ batch[c].active_codec_threads \in Int
            BY DEF BatchRecord
          <6> QED
            BY <6>1, <6>2
        <5> QED
          BY <5>1, <5>2
      <4> QED
        BY <1>10, <1>15, <3>1, <4>1, <4>2, Zenon
    <3> QED
      BY <3>2, <3>3
  <2>3. ASSUME NEW c \in Batches
        PROVE  batch'[c].remaining_jobs =
                     Cardinality(QueuedOf(c)') + Cardinality(WorkersWith(c, Holding)')
    <3>1. batch[c].remaining_jobs =
             Cardinality(QueuedOf(c)) + Cardinality(WorkersWith(c, Holding))
      BY DEF CountersExact
    <3>2. CASE c = b
      <4>1. IsFiniteSet(WorkersWith(c, Holding)) /\ IsFiniteSet(QueuedOf(c))
        BY CountedFinite
      <4>2. Cardinality(WorkersWith(c, Holding) \ {w}) = Cardinality(WorkersWith(c, Holding)) - 1
        BY <1>8, <3>2, <4>1, FS_RemoveElement
      <4>3. Cardinality(QueuedOf(c)) \in Nat /\ Cardinality(WorkersWith(c, Holding)) \in Nat
        BY <4>1, FS_CardinalityType
      <4>4. QueuedOf(c)' = QueuedOf(c) /\ WorkersWith(c, Holding)' = WorkersWith(c, Holding) \ {w}
        BY <1>8, <1>9, <3>2
      <4>5. batch'[c].remaining_jobs = batch[c].remaining_jobs - 1
        BY <1>6, <3>2, Zenon
      <4> QED
        BY <3>1, <4>2, <4>3, <4>4, <4>5
    <3>3. CASE c # b
      BY <1>6, <1>8, <1>9, <3>1, <3>3
    <3> QED
      BY <3>2, <3>3
  <2> QED
    BY <2>1, <2>2, <2>3 DEF CountersExact
<1>19. threads \in Nat /\ back \in Nat
  BY <1>2, <1>3, <1>4
<1>20. /\ active_codec_threads' <= active_codec_threads
       /\ \A c \in Batches : /\ batch'[c].active_workers <= batch[c].active_workers
                             /\ batch'[c].active_codec_threads <= batch[c].active_codec_threads
  <2>1. active_codec_threads \in Int /\ threads \in Nat
          /\ \A c \in Batches : batch[c].active_workers \in Int
                                /\ batch[c].active_codec_threads \in Int
    BY <1>19 DEF BatchRecord
  <2>2. /\ active_codec_threads' = active_codec_threads - threads
        /\ batch'[b].active_codec_threads = batch[b].active_codec_threads - threads
    BY <1>1, <1>6, Zenon
  <2>3. ASSUME NEW c \in Batches \ {b}
        PROVE  batch'[c].active_workers <= batch[c].active_workers
               /\ batch'[c].active_codec_threads <= batch[c].active_codec_threads
    BY <1>6, <2>1
  <2>4. active_codec_threads' <= active_codec_threads
    BY <2>1, <2>2
  <2>5. batch[b].active_workers \in Int /\ batch[b].active_codec_threads \in Int
    BY <1>2, <2>1
  <2>6. batch'[b].active_workers = batch[b].active_workers - back
    BY <1>6, Zenon
  <2>7. /\ batch'[b].active_workers <= batch[b].active_workers
        /\ batch'[b].active_codec_threads <= batch[b].active_codec_threads
    BY <1>19, <2>1, <2>2, <2>5, <2>6
  <2> QED
    BY <2>3, <2>4, <2>7
<1>21. WithinLimits'
  <2> SUFFICES ASSUME NEW c \in Batches
               PROVE  /\ batch'[c].active_workers <= batch'[c].max_workers
                      /\ batch'[c].active_codec_threads <= batch'[c].codec_thread_budget
    BY DEF WithinLimits
  <2>1. /\ batch[c] \in BatchRecord /\ batch'[c] \in BatchRecord
        /\ batch[c].active_workers <= batch[c].max_workers
        /\ batch[c].active_codec_threads <= batch[c].codec_thread_budget
    BY DEF WithinLimits
  <2> QED
    BY <1>6, <1>20, <2>1, BoundsAssumption DEF BatchRecord
<1>22. HostBudgetRespected'
  <2> SUFFICES ASSUME NEW c \in Batches, batch'[c].active_workers > 0
               PROVE  active_codec_threads' <= batch'[c].host_thread_budget
    BY DEF HostBudgetRespected
  <2>1. batch[c] \in BatchRecord /\ batch'[c] \in BatchRecord
    OBVIOUS
  <2>2. batch[c].active_workers > 0
    BY <1>20, <2>1 DEF BatchRecord
  <2>3. active_codec_threads <= batch[c].host_thread_budget
    BY <2>2 DEF HostBudgetRespected
  <2>4. batch'[c].host_thread_budget = batch[c].host_thread_budget
          /\ batch[c].host_thread_budget \in Int
    BY <1>6, <2>1, BoundsAssumption DEF BatchRecord
  <2> QED
    BY <1>20, <2>3, <2>4
<1>23. UnfinishedRegistered'
  <2>1. b \in batches
    BY <1>2, <1>8, BusyBatchLive DEF Live
  <2> QED
    BY <1>1, <1>6, <2>1 DEF UnfinishedRegistered
<1> QED
  BY <1>16, <1>17, <1>18, <1>21, <1>22, <1>23

-----------------------------------------------------------------------------
(* The invariant *)

\* Nothing is queued, held or reserved at the start.
LEMMA InitInvariant == Init => IInv
<1> SUFFICES ASSUME Init PROVE IInv
  OBVIOUS
<1>1. Types
  BY InitTypes
<1>2. /\ queue = {} /\ active_codec_threads = 0
      /\ \A w \in Workers : worker[w].pc = "ready" /\ ~worker[w].reserved_budget
      /\ \A b \in Batches : batch[b] = NewBatch(0, 1, 1, 1, 0)
  BY DEF Init
<1>3. \A b \in Batches : /\ batch[b].active_workers = 0 /\ batch[b].active_codec_threads = 0
                         /\ batch[b].remaining_jobs = 0 /\ batch[b].max_workers = 1
                         /\ batch[b].codec_thread_budget = 1
  BY <1>2 DEF NewBatch
<1>4. /\ Reserving = {}
      /\ \A b \in Batches : /\ ReservingFor(b) = {} /\ QueuedOf(b) = {}
                            /\ WorkersWith(b, Holding) = {} /\ WorkersWith(b, Carrying) = {}
  BY <1>2 DEF Reserving, ReservingFor, QueuedOf, WorkersWith, Holding, Carrying
<1>5. Cardinality({}) = 0 /\ ReservedThreads({}) = {}
  BY FS_EmptySet DEF ReservedThreads
<1>6. WorkersConsistent
  BY <1>2 DEF WorkersConsistent, Carrying, Holding
<1>7. CountersExact
  <2>1. active_codec_threads = Cardinality(ReservedThreads(Reserving))
    BY <1>2, <1>4, <1>5, Zenon
  <2>2. ASSUME NEW b \in Batches
        PROVE  /\ batch[b].active_workers = Cardinality(ReservingFor(b))
               /\ batch[b].active_codec_threads = Cardinality(ReservedThreads(ReservingFor(b)))
               /\ batch[b].remaining_jobs =
                     Cardinality(QueuedOf(b)) + Cardinality(WorkersWith(b, Holding))
    BY <1>3, <1>4, <1>5
  <2> QED
    BY <2>1, <2>2 DEF CountersExact
<1> QED
  BY <1>1, <1>3, <1>4, <1>6, <1>7 DEF IInv, Consistent, IdleCallsAbsent, WithinLimits,
     UnfinishedRegistered, HostBudgetRespected

\* Every step preserves it.
LEMMA NextInvariant == IInv /\ [Next]_vars => IInv'
<1> SUFFICES ASSUME IInv, [Next]_vars PROVE IInv'
  OBVIOUS
<1>1. Types'
  BY NextTypes DEF IInv, Consistent
<1>2. ASSUME NEW b \in Batches, NEW r \in Requests[b], Enqueue(b, r) PROVE Consistent'
  BY <1>1, <1>2, EnqueueStep
<1>3. ASSUME NEW b \in Batches, Discard(b) PROVE Consistent'
  BY <1>1, <1>3, DiscardStep
<1>4. ASSUME NEW w \in Workers, TakeJob(w) PROVE Consistent'
  BY <1>1, <1>4, TakeJobStep
<1>5. ASSUME NEW w \in Workers, ReleaseBudget(w) PROVE Consistent'
  BY <1>1, <1>5, ReleaseStep
<1>6. ASSUME NEW b \in Batches, QuietCallStep(b) PROVE Consistent'
  BY <1>1, <1>6, QuietCallSteps, LockedStateKept
<1>7. ASSUME NEW w \in Workers, QuietWorkerStep(w) PROVE Consistent'
  BY <1>1, <1>7, QuietWorkerSteps, LockedStateKept
<1>8. ASSUME Stop \/ StopNotify \/ Terminated \/ UNCHANGED vars PROVE Consistent'
  <2>1. Kept
    BY <1>8, QuietStop, Zenon
  <2> QED
    BY <1>1, <2>1, LockedStateKept
<1>9. Consistent'
  BY <1>2, <1>3, <1>4, <1>5, <1>6, <1>7, <1>8
     DEF Next, CallerStep, WorkerStep, QuietCallStep, QuietWorkerStep
<1> QED
  BY <1>1, <1>9 DEF IInv

\* The inductive invariant holds in every reachable state.
THEOREM Invariant == Spec => []IInv
BY InitInvariant, NextInvariant, PTL DEF Spec

\* Every variable always has the type the code declares for it: none of the unsigned
\* counters that CompleteJob and DiscardCancelledJobs decrement goes below zero.
THEOREM TypeCorrect == Spec => []TypeOK
<1>1. ASSUME IInv PROVE TypeOK
  <2>1. Types /\ CountersExact
    BY <1>1 DEF IInv, Consistent
  <2>2. batch \in [Batches -> BatchState]
    <3>1. ASSUME NEW b \in Batches PROVE batch[b] \in BatchState
      BY <2>1, CountersNatural DEF Types, BatchRecord, BatchState
    <3> QED
      BY <2>1, <3>1 DEF Types
  <2> QED
    BY <2>1, <2>2, CountersNatural DEF Types, TypeOK
<1> QED
  BY <1>1, Invariant, PTL

\* While a batch has a worker running, the codec threads of all batches together stay
\* within the thread limit that batch was enqueued under.
THEOREM HostBudgetKept == Spec => []HostBudgetRespected
<1>1. IInv => HostBudgetRespected
  BY DEF IInv, Consistent
<1> QED
  BY <1>1, Invariant, PTL

\* The counters of active workers and codec threads are at every moment what the workers
\* hold, and a batch never holds more than its limits.
THEOREM Reservations == Spec => []ReservationsAccounted
<1>1. IInv => ReservationsAccounted
  BY DEF IInv, Consistent, CountersExact, WithinLimits, ReservationsAccounted
<1> QED
  BY <1>1, Invariant, PTL

-----------------------------------------------------------------------------
(* What becomes of the jobs of a call.  The second invariant is about one   *)
(* call c at a time: its batch bt, the locals cl of its Execute, its queued *)
(* jobs q and the locals ws of the workers.                                 *)

Open == Holding \cup {"publishing"}
OpenFor(c, x) == x.pc \in Open /\ x.job[1] = c
Publishing(c, ws) == {w \in Workers : ws[w].pc = "publishing" /\ ws[w].job[1] = c}
Owes(cl) == IF cl.pc = "credit" THEN cl.discarded_jobs ELSE 0

\* A worker at work for the batch: a job that is not encoded was cancelled first, and the
\* error that it records is not the one that the cancellation provoked.
WorkerOK(x, bt) ==
    /\ x.job[2] \in 1..bt.job_count
    /\ x.pc = "settling" /\ x.outcome = "interrupt" => bt.cancelled
    /\ x.pc = "recording" => x.outcome = "codec" /\ bt.cancelled
    /\ x.pc \in {"releasing", "publishing"} => x.outcome = "ok" \/ bt.cancelled

CallOK(bt, cl) ==
    /\ bt.error # "interrupt"
    /\ bt.results \subseteq 1..bt.job_count
    /\ cl.pc = "idle" => bt.job_count = 0 /\ ~bt.cancelled
    /\ cl.pc = "discard" => bt.cancelled
    /\ cl.pc = "returned" => bt.results = 1..bt.job_count

\* A cancelled batch has an error, or soon has, or its call was interrupted or is over.
Explained(c, bt, cl, ws) ==
    bt.cancelled => \/ bt.error # "none" \/ cl.is_interrupted \/ cl.pc \in Done
                    \/ \E w \in Workers : ws[w].pc = "recording" /\ ws[w].job[1] = c

\* A job of a batch that is not cancelled is queued, with a worker, or has its result.
Placed(c, bt, q, ws) ==
    ~bt.cancelled =>
       \A i \in 1..bt.job_count : \/ i \in bt.results \/ <<c, i>> \in q
                                  \/ \E w \in Workers : ws[w].pc \in Open /\ ws[w].job = <<c, i>>

Back(c, cl, q, ws) == cl.pc \in Done => q = {} /\ \A w \in Workers : ~OpenFor(c, ws[w])

Balanced(c, bt, cl, ws) ==
    bt.job_count =
       bt.completed_jobs + bt.remaining_jobs + Cardinality(Publishing(c, ws)) + Owes(cl)

JobsOK(c, bt, cl, q, ws) ==
    /\ CallOK(bt, cl)
    /\ \A j \in q : j[2] \in 1..bt.job_count
    /\ \A w \in Workers : OpenFor(c, ws[w]) => WorkerOK(ws[w], bt)
    /\ Explained(c, bt, cl, ws) /\ Placed(c, bt, q, ws)
    /\ Back(c, cl, q, ws) /\ Balanced(c, bt, cl, ws)

JobsInv == \A c \in Batches : JobsOK(c, batch[c], call[c], QueuedOf(c), worker)

\* What a call has of the pool depends on the workers at work for it only.
LEMMA JobsFrame ==
    ASSUME NEW c \in Batches, NEW bt, NEW cl, NEW q, NEW ws, NEW ws2, JobsOK(c, bt, cl, q, ws),
           \A w \in Workers : ws2[w] = ws[w] \/ (~OpenFor(c, ws[w]) /\ ~OpenFor(c, ws2[w]))
    PROVE  JobsOK(c, bt, cl, q, ws2)
<1>1. \A w \in Workers : OpenFor(c, ws[w]) \/ OpenFor(c, ws2[w]) => ws2[w] = ws[w]
  OBVIOUS
<1>2. \A x : /\ x.pc = "publishing" /\ x.job[1] = c => OpenFor(c, x)
             /\ x.pc = "recording" /\ x.job[1] = c => OpenFor(c, x)
             /\ \A i : x.pc \in Open /\ x.job = <<c, i>> => OpenFor(c, x)
  BY DEF OpenFor, Open, Holding
<1>3. Publishing(c, ws2) = Publishing(c, ws)
  BY <1>1, <1>2, Zenon DEF Publishing
<1>4. Balanced(c, bt, cl, ws2)
  BY <1>3 DEF JobsOK, Balanced
<1>5. Explained(c, bt, cl, ws2)
  BY <1>1, <1>2, Zenon DEF JobsOK, Explained
<1>6. Placed(c, bt, q, ws2)
  <2> SUFFICES ASSUME ~bt.cancelled, NEW i \in 1..bt.job_count, i \notin bt.results, <<c, i>> \notin q
               PROVE  \E w \in Workers : ws2[w].pc \in Open /\ ws2[w].job = <<c, i>>
    BY DEF Placed
  <2>1. PICK w \in Workers : ws[w].pc \in Open /\ ws[w].job = <<c, i>>
    BY DEF JobsOK, Placed
  <2>2. ws2[w] = ws[w]
    BY <1>1, <1>2, <2>1
  <2> QED
    BY <2>1, <2>2
<1>7. Back(c, cl, q, ws2)
  BY <1>1, Zenon DEF JobsOK, Back
<1>8. \A w \in Workers : OpenFor(c, ws2[w]) => WorkerOK(ws2[w], bt)
  BY <1>1, Zenon DEF JobsOK
<1> QED
  BY <1>4, <1>5, <1>6, <1>7, <1>8, Zenon DEF JobsOK

\* The jobs of the calls that a step is not about stay as they are.
LEMMA OthersKept ==
    ASSUME JobsInv, NEW b \in Batches,
           JobsOK(b, batch'[b], call'[b], QueuedOf(b)', worker'),
           \A c \in Batches : c # b =>
              /\ batch'[c] = batch[c] /\ call'[c] = call[c] /\ QueuedOf(c)' = QueuedOf(c)
              /\ \A w \in Workers : \/ worker'[w] = worker[w]
                                    \/ ~OpenFor(c, worker[w]) /\ ~OpenFor(c, worker'[w])
    PROVE  JobsInv'
<1>1. ASSUME NEW c \in Batches, c # b PROVE JobsOK(c, batch'[c], call'[c], QueuedOf(c)', worker')
  <2>1. JobsOK(c, batch[c], call[c], QueuedOf(c), worker)
    BY DEF JobsInv
  <2>2. JobsOK(c, batch[c], call[c], QueuedOf(c), worker')
    BY <1>1, <2>1, JobsFrame
  <2> QED
    BY <1>1, <2>2
<1> QED
  BY <1>1 DEF JobsInv

\* The locals of Execute move on.
LEMMA CallMoves ==
    ASSUME NEW c \in Batches, NEW bt, NEW cl, NEW cl2, NEW q, NEW ws, JobsOK(c, bt, cl, q, ws),
           cl.is_interrupted => cl2.is_interrupted, Owes(cl2) = Owes(cl),
           cl2.pc = "idle" => cl.pc = "idle",
           cl2.pc = "discard" => bt.cancelled,
           cl2.pc = "returned" => bt.results = 1..bt.job_count,
           cl.pc \in Done => cl2.pc \in Done,
           cl2.pc \in Done => q = {} /\ \A w \in Workers : ~OpenFor(c, ws[w])
    PROVE  JobsOK(c, bt, cl2, q, ws)
<1>1. CallOK(bt, cl2)
  BY Zenon DEF JobsOK, CallOK
<1>2. Explained(c, bt, cl2, ws)
  BY Zenon DEF JobsOK, Explained
<1>3. Back(c, cl2, q, ws) /\ Balanced(c, bt, cl2, ws)
  BY Zenon DEF JobsOK, Back, Balanced
<1> QED
  BY <1>1, <1>2, <1>3, Zenon DEF JobsOK

\* When every job of a batch is completed none is queued or with a worker, and each has its
\* result unless the batch was cancelled.
LEMMA AllCompleted ==
    ASSUME IInv, JobsInv, NEW c \in Batches, batch[c].completed_jobs = batch[c].job_count,
           call[c].pc = "loop"
    PROVE  /\ QueuedOf(c) = {} /\ \A w \in Workers : ~OpenFor(c, worker[w])
           /\ ~batch[c].cancelled => batch[c].results = 1..batch[c].job_count
<1>1. JobsOK(c, batch[c], call[c], QueuedOf(c), worker)
  BY DEF JobsInv
<1>2. Types /\ CountersExact
  BY DEF IInv, Consistent
<1>3. IsFiniteSet(QueuedOf(c)) /\ IsFiniteSet(WorkersWith(c, Holding))
  BY <1>2, CountedFinite
<1>4. IsFiniteSet(Publishing(c, worker))
  BY FS_Subset, FiniteAssumption DEF Publishing
<1>5. /\ Cardinality(QueuedOf(c)) \in Nat /\ Cardinality(WorkersWith(c, Holding)) \in Nat
      /\ Cardinality(Publishing(c, worker)) \in Nat
      /\ (Cardinality(QueuedOf(c)) = 0 => QueuedOf(c) = {})
      /\ (Cardinality(WorkersWith(c, Holding)) = 0 => WorkersWith(c, Holding) = {})
      /\ (Cardinality(Publishing(c, worker)) = 0 => Publishing(c, worker) = {})
  BY <1>3, <1>4, FS_CardinalityType, FS_EmptySet
<1>6. batch[c].remaining_jobs = Cardinality(QueuedOf(c)) + Cardinality(WorkersWith(c, Holding))
  BY <1>2 DEF CountersExact
<1>7. /\ batch[c].job_count = batch[c].completed_jobs + batch[c].remaining_jobs
                                + Cardinality(Publishing(c, worker)) + Owes(call[c])
      /\ Owes(call[c]) = 0
  BY <1>1 DEF JobsOK, Balanced, Owes
<1>8. batch[c].job_count \in Nat /\ batch[c].completed_jobs \in Nat
  BY <1>2 DEF Types, BatchRecord
<1>9. QueuedOf(c) = {} /\ WorkersWith(c, Holding) = {} /\ Publishing(c, worker) = {}
  <2>1. /\ Cardinality(QueuedOf(c)) = 0 /\ Cardinality(WorkersWith(c, Holding)) = 0
        /\ Cardinality(Publishing(c, worker)) = 0
    <3> DEFINE q == Cardinality(QueuedOf(c))
               h == Cardinality(WorkersWith(c, Holding))
               p == Cardinality(Publishing(c, worker))
    <3>1. q \in Nat /\ h \in Nat /\ p \in Nat
      BY <1>5
    <3>2. batch[c].job_count = batch[c].job_count + (q + h) + p + 0
      BY <1>6, <1>7
    <3> HIDE DEF q, h, p
    <3>3. q = 0 /\ h = 0 /\ p = 0
      BY <1>8, <3>1, <3>2
    <3> QED
      BY <3>3 DEF q, h, p
  <2> QED
    BY <1>5, <2>1, Zenon
<1>10. \A w \in Workers : ~OpenFor(c, worker[w])
  BY <1>9 DEF OpenFor, Open, WorkersWith, Publishing
<1>11. ~batch[c].cancelled => batch[c].results = 1..batch[c].job_count
  <2> SUFFICES ASSUME ~batch[c].cancelled PROVE batch[c].results = 1..batch[c].job_count
    OBVIOUS
  <2>1. \A w \in Workers : worker[w].pc \in Open => \A i : worker[w].job # <<c, i>>
    BY <1>10 DEF OpenFor
  <2>2. 1..batch[c].job_count \subseteq batch[c].results
    BY <1>1, <1>9, <2>1 DEF JobsOK, Placed
  <2> QED
    BY <1>1, <2>2 DEF JobsOK, CallOK
<1> QED
  BY <1>9, <1>10, <1>11

\* A call that has not started has nothing with the pool.
LEMMA NotStarted ==
    ASSUME IInv, NEW b \in Batches, call[b].pc = "idle"
    PROVE  QueuedOf(b) = {} /\ \A w \in Workers : ~OpenFor(b, worker[w])
<1>1. QueuedOf(b) = {} /\ WorkersWith(b, Carrying) = {}
  BY DEF IInv, Consistent, IdleCallsAbsent
<1> QED
  BY <1>1 DEF WorkersWith, OpenFor, Open, Carrying

\* A notification wakes sleeping workers only.
LEMMA NotifiedElsewhere ==
    ASSUME NEW w \in Workers
    PROVE  \/ NotifyAll(worker)[w] = worker[w]
           \/ \A c : ~OpenFor(c, worker[w]) /\ ~OpenFor(c, NotifyAll(worker)[w])
<1>1. CASE worker[w].pc = "asleep"
  <2>1. NotifyAll(worker)[w] = [worker[w] EXCEPT !.pc = "ready"]
    BY <1>1 DEF NotifyAll
  <2>2. NotifyAll(worker)[w].pc \in {"ready", "asleep"}
    BY <1>1, <2>1
  <2> QED
    BY <1>1, <2>2 DEF OpenFor, Open, Holding
<1>2. CASE worker[w].pc # "asleep"
  BY <1>2 DEF NotifyAll
<1> QED
  BY <1>1, <1>2

\* A step of one call that changes nothing else, but for a notification.
CallGoes(b, cl2) ==
    /\ batch' = batch /\ queue' = queue
    /\ worker' = worker \/ worker' = NotifyAll(worker)
    /\ call' = [call EXCEPT ![b] = cl2]

LEMMA CallStep ==
    ASSUME IInv, JobsInv, NEW b \in Batches, NEW cl2, CallGoes(b, cl2),
           JobsOK(b, batch[b], cl2, QueuedOf(b), worker)
    PROVE  JobsInv'
<1>1. \A w \in Workers : \/ worker'[w] = worker[w]
                         \/ \A c : ~OpenFor(c, worker[w]) /\ ~OpenFor(c, worker'[w])
  BY NotifiedElsewhere DEF CallGoes
<1>2. \A c \in Batches : call'[c] = IF c = b THEN cl2 ELSE call[c]
  BY DEF CallGoes, IInv, Types
<1>3. \A c : QueuedOf(c)' = QueuedOf(c)
  BY Zenon DEF CallGoes, QueuedOf
<1>4. JobsOK(b, batch[b], cl2, QueuedOf(b), worker')
  BY <1>1, JobsFrame
<1>5. JobsOK(b, batch'[b], call'[b], QueuedOf(b)', worker')
  <2>1. batch' = batch /\ call'[b] = cl2 /\ QueuedOf(b)' = QueuedOf(b)
    BY <1>2, <1>3 DEF CallGoes
  <2> QED
    BY <1>4, <2>1, Zenon
<1>6. \A c \in Batches : c # b =>
         /\ batch'[c] = batch[c] /\ call'[c] = call[c] /\ QueuedOf(c)' = QueuedOf(c)
         /\ \A w \in Workers : \/ worker'[w] = worker[w]
                               \/ ~OpenFor(c, worker[w]) /\ ~OpenFor(c, worker'[w])
  BY <1>1, <1>2, <1>3, Zenon DEF CallGoes
<1> QED
  BY <1>5, <1>6, OthersKept, Zenon

\* Where the locals of Execute move on to.
LEMMA Locals ==
    ASSUME IInv, NEW b \in Batches
    PROVE  /\ \A p \in {"idle"} \cup Active \cup Done :
                 LET cl == [call[b] EXCEPT !.pc = p]
                 IN /\ cl.pc = p /\ cl.is_interrupted = call[b].is_interrupted
                    /\ [call EXCEPT ![b].pc = p] = [call EXCEPT ![b] = cl]
                    /\ p # "credit" /\ call[b].pc # "credit" => Owes(cl) = Owes(call[b])
           /\ LET cl == [call[b] EXCEPT !.is_interrupted = TRUE]
              IN /\ cl.pc = call[b].pc /\ cl.is_interrupted /\ Owes(cl) = Owes(call[b])
                 /\ [call EXCEPT ![b].is_interrupted = TRUE] = [call EXCEPT ![b] = cl]
BY DEF IInv, Types, CallState, Owes

\* Execute returns at once, or throws before any of its jobs is queued.
LEMMA RefusedStep ==
    ASSUME IInv, JobsInv, NEW b \in Batches,
           ExecuteEmpty(b) \/ ExecuteRejected(b) \/ \E r \in Requests[b] : EnqueueFails(b, r)
    PROVE  JobsInv'
<1>1. PICK p \in {"returned", "rejected", "enqueue_failed"} : call' = [call EXCEPT ![b].pc = p]
  BY DEF ExecuteEmpty, ExecuteRejected, EnqueueFails
<1> DEFINE cl == [call[b] EXCEPT !.pc = p]
<1>2. /\ cl.pc = p /\ cl.is_interrupted = call[b].is_interrupted /\ call' = [call EXCEPT ![b] = cl]
      /\ (call[b].pc # "credit" => Owes(cl) = Owes(call[b]))
  BY <1>1, Locals DEF Done
<1> HIDE DEF cl
<1>3. call[b].pc = "idle" /\ batch' = batch /\ queue' = queue /\ worker' = worker
  BY DEF ExecuteEmpty, ExecuteRejected, EnqueueFails, CallMayStart, poolVars
<1>4. JobsOK(b, batch[b], call[b], QueuedOf(b), worker)
  BY DEF JobsInv
<1>5. QueuedOf(b) = {} /\ \A w \in Workers : ~OpenFor(b, worker[w])
  BY <1>3, NotStarted
<1>6. batch[b].results = 1..batch[b].job_count
  <2>1. batch[b].job_count = 0 /\ batch[b].results \subseteq 1..0
    BY <1>3, <1>4 DEF JobsOK, CallOK
  <2> QED
    BY <2>1
<1>7. cl.pc \in Done /\ cl.pc # "idle" /\ cl.pc # "discard"
  BY <1>2 DEF Done
<1>8. JobsOK(b, batch[b], cl, QueuedOf(b), worker)
  BY <1>2, <1>3, <1>4, <1>5, <1>6, <1>7, CallMoves
<1>9. CallGoes(b, cl)
  BY <1>2, <1>3 DEF CallGoes
<1> QED
  BY <1>8, <1>9, CallStep

\* Execute notifies, or is interrupted.
LEMMA NotifyStep ==
    ASSUME IInv, JobsInv, NEW b \in Batches, NotifyEnqueued(b) \/ Renotify(b) \/ Interrupt(b)
    PROVE  JobsInv'
<1>0. JobsOK(b, batch[b], call[b], QueuedOf(b), worker)
  BY DEF JobsInv
<1>1. CASE NotifyEnqueued(b) \/ Renotify(b)
  <2> DEFINE cl == [call[b] EXCEPT !.pc = "loop"]
  <2>1. /\ call[b].pc \in {"notify", "renotify"} /\ call' = [call EXCEPT ![b].pc = "loop"]
        /\ batch' = batch /\ queue' = queue /\ worker' = NotifyAll(worker)
    BY <1>1 DEF NotifyEnqueued, Renotify, poolVars
  <2>2. /\ cl.pc = "loop" /\ cl.is_interrupted = call[b].is_interrupted
        /\ call' = [call EXCEPT ![b] = cl] /\ Owes(cl) = Owes(call[b])
    BY <2>1, Locals DEF Active
  <2> HIDE DEF cl
  <2>3. JobsOK(b, batch[b], cl, QueuedOf(b), worker)
    <3>1. cl.pc \notin Done /\ call[b].pc \notin Done
      BY <2>1, <2>2 DEF Done
    <3> QED
      BY <1>0, <2>1, <2>2, <3>1, CallMoves
  <2>4. CallGoes(b, cl)
    BY <2>1, <2>2 DEF CallGoes
  <2> QED
    BY <2>3, <2>4, CallStep
<1>2. CASE Interrupt(b)
  <2> DEFINE cl == [call[b] EXCEPT !.is_interrupted = TRUE]
  <2>1. /\ call[b].pc \in Active /\ call' = [call EXCEPT ![b].is_interrupted = TRUE]
        /\ batch' = batch /\ queue' = queue /\ worker' = worker
    BY <1>2 DEF Interrupt, poolVars
  <2>2. /\ cl.pc = call[b].pc /\ cl.is_interrupted /\ Owes(cl) = Owes(call[b])
        /\ call' = [call EXCEPT ![b] = cl]
    BY <2>1, Locals
  <2> HIDE DEF cl
  <2>3. JobsOK(b, batch[b], cl, QueuedOf(b), worker)
    <3>1. call[b].pc \notin Done
      BY <2>1 DEF Done, Active
    <3>2. call[b].pc = "discard" => batch[b].cancelled
      BY <1>0 DEF JobsOK, CallOK
    <3>3. call[b].pc # "returned"
      BY <3>1 DEF Done
    <3> QED
      BY <1>0, <2>2, <3>1, <3>2, <3>3, CallMoves
  <2>4. CallGoes(b, cl)
    BY <2>1, <2>2 DEF CallGoes
  <2> QED
    BY <2>3, <2>4, CallStep
<1> QED
  BY <1>1, <1>2

\* Execute returns or throws when all jobs are completed.
LEMMA FinishStep == ASSUME IInv, JobsInv, NEW b \in Batches, Finish(b) PROVE JobsInv'
<1>0. JobsOK(b, batch[b], call[b], QueuedOf(b), worker)
  BY DEF JobsInv
<1>1. /\ call[b].pc = "loop" /\ batch[b].completed_jobs = batch[b].job_count
      /\ batch' = batch /\ queue' = queue /\ worker' = worker
  BY DEF Finish, poolVars
<1>2. PICK p \in {"interrupted", "failed", "returned"} :
         /\ call' = [call EXCEPT ![b].pc = p]
         /\ p = "returned" => ~call[b].is_interrupted /\ batch[b].error = "none"
  <2> DEFINE end == IF call[b].interrupted \/ call[b].is_interrupted THEN "interrupted"
                    ELSE IF batch[b].error # "none" THEN "failed" ELSE "returned"
  <2>1. call' = [call EXCEPT ![b].pc = end]
    BY Zenon DEF Finish
  <2>2. end \in {"interrupted", "failed", "returned"}
    OBVIOUS
  <2>3. end = "returned" => ~call[b].is_interrupted /\ batch[b].error = "none"
    OBVIOUS
  <2> HIDE DEF end
  <2> QED
    BY <2>1, <2>2, <2>3
<1> DEFINE cl == [call[b] EXCEPT !.pc = p]
<1>3. /\ cl.pc = p /\ cl.is_interrupted = call[b].is_interrupted /\ call' = [call EXCEPT ![b] = cl]
      /\ Owes(cl) = Owes(call[b])
  BY <1>1, <1>2, Locals DEF Done
<1> HIDE DEF cl
<1>4. /\ QueuedOf(b) = {} /\ \A w \in Workers : ~OpenFor(b, worker[w])
      /\ ~batch[b].cancelled => batch[b].results = 1..batch[b].job_count
  BY <1>1, AllCompleted
<1>5. ASSUME p = "returned" PROVE ~batch[b].cancelled
  <2>1. ~call[b].is_interrupted /\ batch[b].error = "none" /\ call[b].pc \notin Done
    BY <1>1, <1>2, <1>5 DEF Done
  <2>2. \A w \in Workers : ~(worker[w].pc = "recording" /\ worker[w].job[1] = b)
    BY <1>4 DEF OpenFor, Open, Holding
  <2> QED
    BY <1>0, <2>1, <2>2 DEF JobsOK, Explained
<1>6. cl.pc \in Done /\ cl.pc # "idle" /\ cl.pc # "discard"
  BY <1>2, <1>3 DEF Done
<1>7. JobsOK(b, batch[b], cl, QueuedOf(b), worker)
  BY <1>0, <1>3, <1>4, <1>5, <1>6, CallMoves
<1>8. CallGoes(b, cl)
  BY <1>1, <1>3 DEF CallGoes
<1> QED
  BY <1>7, <1>8, CallStep

\* What the flags of a batch or of its call being raised keeps.
LEMMA PollStep == ASSUME IInv, JobsInv, NEW b \in Batches, Poll(b) PROVE JobsInv'
<1> DEFINE cancels == batch[b].cancelled \/ call[b].is_interrupted
           bt == [batch[b] EXCEPT !.cancelled = cancels]
           there == IF cancels /\ ~call[b].discarded_queue THEN "discard" ELSE "loop"
           cl == [call[b] EXCEPT !.interrupted = @ \/ call[b].is_interrupted,
                                 !.discarded_queue = @ \/ cancels, !.pc = there]
<1>0. JobsOK(b, batch[b], call[b], QueuedOf(b), worker) /\ Types
  BY DEF JobsInv, IInv
<1>1. /\ call[b].pc = "loop" /\ queue' = queue /\ worker' = worker
      /\ batch' = [batch EXCEPT ![b] = bt] /\ call' = [call EXCEPT ![b] = cl]
  BY <1>0 DEF Poll, poolVars, Types
<1>2. /\ bt.job_count = batch[b].job_count /\ bt.results = batch[b].results
      /\ bt.error = batch[b].error /\ bt.completed_jobs = batch[b].completed_jobs
      /\ bt.remaining_jobs = batch[b].remaining_jobs /\ bt.cancelled = cancels
  BY <1>0 DEF Types, BatchRecord
<1>3. cl.pc = there /\ cl.is_interrupted = call[b].is_interrupted
  BY <1>0 DEF Types, CallState
<1>4. there \in {"discard", "loop"} /\ (there = "discard" => cancels)
  OBVIOUS
<1>5. Owes(cl) = Owes(call[b])
  <2>1. cl.pc # "credit" /\ call[b].pc # "credit"
    BY <1>1, <1>3, <1>4
  <2> QED
    BY <2>1 DEF Owes
<1> HIDE DEF bt, cl, there
<1>6. batch'[b] = bt /\ call'[b] = cl /\ \A c \in Batches \ {b} : batch'[c] = batch[c] /\ call'[c] = call[c]
  BY <1>0, <1>1 DEF Types
<1>7. \A c : QueuedOf(c)' = QueuedOf(c)
  BY <1>1, Zenon DEF QueuedOf
<1>8. cl.pc \in {"discard", "loop"} /\ cl.pc \notin Done /\ (cl.pc = "discard" => bt.cancelled)
  BY <1>2, <1>3, <1>4 DEF Done
<1>9. JobsOK(b, bt, cl, QueuedOf(b), worker)
  <2>1. CallOK(bt, cl)
    BY <1>0, <1>2, <1>8 DEF JobsOK, CallOK
  <2>2. Explained(b, bt, cl, worker)
    <3>1. call[b].pc \notin Done
      BY <1>1 DEF Done
    <3> QED
      BY <1>0, <1>2, <1>3, <3>1 DEF JobsOK, Explained
  <2>3. Placed(b, bt, QueuedOf(b), worker)
    BY <1>0, <1>2 DEF JobsOK, Placed
  <2>4. Back(b, cl, QueuedOf(b), worker)
    BY <1>8 DEF Back
  <2>5. Balanced(b, bt, cl, worker)
    BY <1>0, <1>2, <1>5 DEF JobsOK, Balanced
  <2>6. \A w \in Workers : OpenFor(b, worker[w]) => WorkerOK(worker[w], bt)
    BY <1>0, <1>2 DEF JobsOK, WorkerOK
  <2>7. \A j \in QueuedOf(b) : j[2] \in 1..bt.job_count
    BY <1>0, <1>2 DEF JobsOK
  <2> QED
    BY <2>1, <2>2, <2>3, <2>4, <2>5, <2>6, <2>7 DEF JobsOK
<1>10. JobsOK(b, batch'[b], call'[b], QueuedOf(b)', worker')
  BY <1>1, <1>6, <1>7, <1>9, Zenon
<1> QED
  BY <1>1, <1>6, <1>7, <1>10, OthersKept

\* DiscardCancelledJobs moves the queued jobs of a cancelled batch to the ones to credit ...
LEMMA DiscardKeepsJobs == ASSUME IInv, JobsInv, NEW b \in Batches, Discard(b) PROVE JobsInv'
<1> DEFINE n == Cardinality(QueuedOf(b))
           bt == [batch[b] EXCEPT !.remaining_jobs = @ - n]
           cl == [call[b] EXCEPT !.discarded_jobs = n, !.pc = "credit"]
<1>0. JobsOK(b, batch[b], call[b], QueuedOf(b), worker) /\ Types
  BY DEF JobsInv, IInv
<1>1. /\ call[b].pc = "discard" /\ queue' = queue \ QueuedOf(b) /\ worker' = worker
      /\ batch' = [batch EXCEPT ![b] = bt] /\ call' = [call EXCEPT ![b] = cl]
  BY <1>0 DEF Discard, Types
<1>2. /\ bt.job_count = batch[b].job_count /\ bt.results = batch[b].results
      /\ bt.error = batch[b].error /\ bt.completed_jobs = batch[b].completed_jobs
      /\ bt.remaining_jobs = batch[b].remaining_jobs - n /\ bt.cancelled = batch[b].cancelled
  BY <1>0 DEF Types, BatchRecord
<1>3. cl.pc = "credit" /\ cl.is_interrupted = call[b].is_interrupted /\ cl.discarded_jobs = n
  BY <1>0 DEF Types, CallState
<1>4. n \in Nat
  BY <1>0, CountedFinite, FS_CardinalityType
<1> HIDE DEF bt, cl, n
<1>5. Owes(cl) = n /\ Owes(call[b]) = 0
  BY <1>1, <1>3 DEF Owes
<1>6. batch'[b] = bt /\ call'[b] = cl /\ \A c \in Batches \ {b} : batch'[c] = batch[c] /\ call'[c] = call[c]
  BY <1>0, <1>1 DEF Types
<1>7. QueuedOf(b)' = {} /\ \A c \in Batches \ {b} : QueuedOf(c)' = QueuedOf(c)
  BY <1>1 DEF QueuedOf
<1>8. JobsOK(b, bt, cl, {}, worker)
  <2>1. CallOK(bt, cl)
    BY <1>0, <1>2, <1>3 DEF JobsOK, CallOK
  <2>2. cl.pc \notin Done /\ call[b].pc \notin Done /\ bt.cancelled
    BY <1>0, <1>1, <1>2, <1>3 DEF Done, JobsOK, CallOK
  <2>3. Explained(b, bt, cl, worker)
    BY <1>0, <1>2, <1>3, <2>2 DEF JobsOK, Explained
  <2>4. Placed(b, bt, {}, worker) /\ Back(b, cl, {}, worker)
    BY <2>2 DEF Placed, Back
  <2>5. Balanced(b, bt, cl, worker)
    <3>1. Cardinality(Publishing(b, worker)) \in Nat
      BY FiniteAssumption, FS_Subset, FS_CardinalityType DEF Publishing
    <3>2. batch[b].completed_jobs \in Nat /\ batch[b].remaining_jobs \in Int
      BY <1>0 DEF Types, BatchRecord
    <3> QED
      BY <1>0, <1>2, <1>4, <1>5, <3>1, <3>2 DEF JobsOK, Balanced
  <2>6. \A w \in Workers : OpenFor(b, worker[w]) => WorkerOK(worker[w], bt)
    BY <1>0, <1>2 DEF JobsOK, WorkerOK
  <2> QED
    BY <2>1, <2>3, <2>4, <2>5, <2>6 DEF JobsOK
<1>9. JobsOK(b, batch'[b], call'[b], QueuedOf(b)', worker')
  BY <1>1, <1>6, <1>7, <1>8, Zenon
<1> QED
  BY <1>1, <1>6, <1>7, <1>9, OthersKept

\* ... and credits them.
LEMMA CreditStep == ASSUME IInv, JobsInv, NEW b \in Batches, CreditDiscarded(b) PROVE JobsInv'
<1> DEFINE bt == [batch[b] EXCEPT !.completed_jobs = @ + call[b].discarded_jobs]
           cl == [call[b] EXCEPT !.pc = "renotify"]
<1>0. JobsOK(b, batch[b], call[b], QueuedOf(b), worker) /\ Types
  BY DEF JobsInv, IInv
<1>1. /\ call[b].pc = "credit" /\ queue' = queue /\ worker' = worker
      /\ batch' = [batch EXCEPT ![b] = bt] /\ call' = [call EXCEPT ![b] = cl]
  BY <1>0 DEF CreditDiscarded, Types, poolVars
<1>2. /\ bt.job_count = batch[b].job_count /\ bt.results = batch[b].results
      /\ bt.error = batch[b].error /\ bt.remaining_jobs = batch[b].remaining_jobs
      /\ bt.completed_jobs = batch[b].completed_jobs + call[b].discarded_jobs
      /\ bt.cancelled = batch[b].cancelled
  BY <1>0 DEF Types, BatchRecord
<1>3. cl.pc = "renotify" /\ cl.is_interrupted = call[b].is_interrupted
  BY <1>0 DEF Types, CallState
<1> HIDE DEF bt, cl
<1>5. Owes(cl) = 0 /\ Owes(call[b]) = call[b].discarded_jobs
  BY <1>1, <1>3 DEF Owes
<1>6. batch'[b] = bt /\ call'[b] = cl /\ \A c \in Batches \ {b} : batch'[c] = batch[c] /\ call'[c] = call[c]
  BY <1>0, <1>1 DEF Types
<1>7. \A c : QueuedOf(c)' = QueuedOf(c)
  BY <1>1, Zenon DEF QueuedOf
<1>8. JobsOK(b, bt, cl, QueuedOf(b), worker)
  <2>1. CallOK(bt, cl)
    BY <1>0, <1>2, <1>3 DEF JobsOK, CallOK
  <2>2. cl.pc \notin Done /\ call[b].pc \notin Done
    BY <1>1, <1>3 DEF Done
  <2>3. Explained(b, bt, cl, worker)
    BY <1>0, <1>2, <1>3, <2>2 DEF JobsOK, Explained
  <2>4. Placed(b, bt, QueuedOf(b), worker) /\ Back(b, cl, QueuedOf(b), worker)
    BY <1>0, <1>2, <2>2 DEF JobsOK, Placed, Back
  <2>5. Balanced(b, bt, cl, worker)
    <3>1. Cardinality(Publishing(b, worker)) \in Nat
      BY FiniteAssumption, FS_Subset, FS_CardinalityType DEF Publishing
    <3>2. /\ batch[b].completed_jobs \in Nat /\ batch[b].remaining_jobs \in Int
          /\ call[b].discarded_jobs \in Nat
      BY <1>0 DEF Types, BatchRecord, CallState
    <3> QED
      BY <1>0, <1>2, <1>5, <3>1, <3>2 DEF JobsOK, Balanced
  <2>6. \A w \in Workers : OpenFor(b, worker[w]) => WorkerOK(worker[w], bt)
    BY <1>0, <1>2 DEF JobsOK, WorkerOK
  <2>7. \A j \in QueuedOf(b) : j[2] \in 1..bt.job_count
    BY <1>0, <1>2 DEF JobsOK
  <2> QED
    BY <2>1, <2>3, <2>4, <2>5, <2>6, <2>7 DEF JobsOK
<1>9. JobsOK(b, batch'[b], call'[b], QueuedOf(b)', worker')
  BY <1>1, <1>6, <1>7, <1>8, Zenon
<1> QED
  BY <1>1, <1>6, <1>7, <1>9, OthersKept

\* The jobs of a new batch are all queued.
LEMMA EnqueueKeepsJobs ==
    ASSUME IInv, JobsInv, NEW b \in Batches, NEW r \in Requests[b], Enqueue(b, r)
    PROVE  JobsInv'
<1> DEFINE arrival == 1 + Cardinality({c \in Batches : batch[c].ticket # 0})
           bt == AcceptedBatch(r, arrival)
           cl == [call[b] EXCEPT !.pc = "notify"]
           q == {b} \X (1..r.jobs)
<1>0. JobsOK(b, batch[b], call[b], QueuedOf(b), worker) /\ Types
  BY DEF JobsInv, IInv
<1>1. /\ call[b].pc = "idle" /\ queue' = queue \cup q /\ worker' = worker
      /\ batch' = [batch EXCEPT ![b] = bt] /\ call' = [call EXCEPT ![b] = cl]
  BY <1>0 DEF Enqueue, CreateBatch, CallMayStart, Types
<1>2. /\ bt.job_count = r.jobs /\ bt.results = {} /\ bt.error = "none" /\ bt.completed_jobs = 0
      /\ bt.remaining_jobs = r.jobs /\ bt.cancelled = FALSE
  BY DEF AcceptedBatch, NewBatch
<1>3. cl.pc = "notify"
  BY <1>0 DEF Types, CallState
<1>4. r.jobs \in Nat
  BY RequestType, BoundsAssumption
<1> HIDE DEF bt, cl
<1>5. Owes(cl) = 0
  BY <1>3 DEF Owes
<1>6. batch'[b] = bt /\ call'[b] = cl /\ \A c \in Batches \ {b} : batch'[c] = batch[c] /\ call'[c] = call[c]
  BY <1>0, <1>1 DEF Types
<1>7. QueuedOf(b) = {} /\ \A w \in Workers : ~OpenFor(b, worker[w])
  BY <1>1, NotStarted
<1>8. QueuedOf(b)' = q /\ \A c \in Batches \ {b} : QueuedOf(c)' = QueuedOf(c)
  BY <1>1, <1>7 DEF QueuedOf
<1>9. JobsOK(b, bt, cl, q, worker)
  <2>1. CallOK(bt, cl)
    BY <1>2, <1>3 DEF CallOK
  <2>2. Explained(b, bt, cl, worker)
    BY <1>2 DEF Explained
  <2>3. Placed(b, bt, q, worker)
    BY <1>2 DEF Placed
  <2>4. Back(b, cl, q, worker)
    BY <1>3 DEF Back, Done
  <2>5. Balanced(b, bt, cl, worker)
    <3>1. Publishing(b, worker) = {}
      BY <1>7 DEF Publishing, OpenFor, Open
    <3> QED
      BY <1>2, <1>4, <1>5, <3>1, FS_EmptySet DEF Balanced
  <2>6. \A j \in q : j[2] \in 1..bt.job_count
    BY <1>2
  <2> QED
    BY <1>7, <2>1, <2>2, <2>3, <2>4, <2>5, <2>6 DEF JobsOK
<1>10. JobsOK(b, batch'[b], call'[b], QueuedOf(b)', worker')
  BY <1>1, <1>6, <1>8, <1>9, Zenon
<1> QED
  BY <1>1, <1>6, <1>8, <1>10, OthersKept

\* A worker that publishes is counted apart.
LEMMA PublishingMoves ==
    ASSUME NEW b \in Batches, NEW ws \in [Workers -> WorkerState], NEW w \in Workers,
           ws[w].job[1] = b, NEW x, x.job = ws[w].job
    PROVE  LET before == Publishing(b, ws)
               after == Publishing(b, [ws EXCEPT ![w] = x])
           IN /\ IsFiniteSet(before) /\ Cardinality(before) \in Nat
              /\ (ws[w].pc = "publishing") = (x.pc = "publishing") => after = before
              /\ ws[w].pc # "publishing" /\ x.pc = "publishing" =>
                    Cardinality(after) = Cardinality(before) + 1
              /\ ws[w].pc = "publishing" /\ x.pc # "publishing" =>
                    Cardinality(after) = Cardinality(before) - 1
<1> DEFINE before == Publishing(b, ws)
           after == Publishing(b, [ws EXCEPT ![w] = x])
<1>1. IsFiniteSet(before) /\ Cardinality(before) \in Nat
  BY FS_Subset, FiniteAssumption, FS_CardinalityType DEF Publishing
<1>2. CASE (ws[w].pc = "publishing") = (x.pc = "publishing")
  <2>1. after = before
    BY <1>2 DEF Publishing
  <2> QED
    BY <1>1, <1>2, <2>1
<1>3. CASE ws[w].pc # "publishing" /\ x.pc = "publishing"
  <2>1. after = before \cup {w} /\ w \notin before
    BY <1>3 DEF Publishing
  <2>2. Cardinality(after) = Cardinality(before) + 1
    BY <1>1, <2>1, FS_AddElement
  <2> QED
    BY <1>1, <1>3, <2>2
<1>4. CASE ws[w].pc = "publishing" /\ x.pc # "publishing"
  <2>1. after = before \ {w} /\ w \in before
    BY <1>4 DEF Publishing
  <2>2. Cardinality(after) = Cardinality(before) - 1
    BY <1>1, <2>1, FS_RemoveElement
  <2> QED
    BY <1>1, <1>4, <2>2
<1> QED
  BY <1>2, <1>3, <1>4

\* A worker goes on with its job.
LEMMA WorkerMoves ==
    ASSUME NEW b \in Batches, NEW bt0, NEW bt, NEW cl, NEW q, NEW ws \in [Workers -> WorkerState],
           NEW w \in Workers, NEW x, JobsOK(b, bt0, cl, q, ws),
           OpenFor(b, ws[w]), x.job = ws[w].job,
           x.pc \in Open \/ ws[w].job[2] \in bt.results \/ bt.cancelled,
           OpenFor(b, x) => WorkerOK(x, bt),
           bt.job_count = bt0.job_count, bt0.results \subseteq bt.results,
           bt.results \subseteq 1..bt.job_count,
           bt0.cancelled => bt.cancelled, bt.cancelled => bt0.cancelled \/ x.pc = "recording",
           bt0.error # "none" => bt.error # "none", bt.error # "interrupt",
           ws[w].pc = "recording" => bt.error # "none",
           Balanced(b, bt, cl, [ws EXCEPT ![w] = x])
    PROVE  JobsOK(b, bt, cl, q, [ws EXCEPT ![w] = x])
<1> DEFINE ws2 == [ws EXCEPT ![w] = x]
<1>1. ws2[w] = x /\ \A v \in Workers : v # w => ws2[v] = ws[v]
  OBVIOUS
<1>2. cl.pc \notin Done /\ cl.pc # "idle" /\ cl.pc # "returned"
  <2>1. cl.pc \notin Done
    BY DEF JobsOK, Back
  <2>2. ws[w].job[2] \in 1..bt0.job_count
    BY DEF JobsOK, WorkerOK
  <2>3. cl.pc = "idle" => bt0.job_count = 0
    BY DEF JobsOK, CallOK
  <2> QED
    BY <2>1, <2>2, <2>3 DEF Done
<1> HIDE DEF ws2
<1>3. CallOK(bt, cl)
  BY <1>2 DEF JobsOK, CallOK
<1>4. \A v \in Workers : OpenFor(b, ws2[v]) => WorkerOK(ws2[v], bt)
  <2> SUFFICES ASSUME NEW v \in Workers, v # w, OpenFor(b, ws2[v]) PROVE WorkerOK(ws2[v], bt)
    BY <1>1
  <2>1. ws2[v] = ws[v] /\ WorkerOK(ws[v], bt0)
    BY <1>1 DEF JobsOK
  <2> QED
    BY <2>1 DEF WorkerOK
<1>5. Explained(b, bt, cl, ws2)
  <2> SUFFICES ASSUME bt.cancelled, bt.error = "none", ~cl.is_interrupted
               PROVE  \E v \in Workers : ws2[v].pc = "recording" /\ ws2[v].job[1] = b
    BY DEF Explained
  <2>1. CASE x.pc = "recording"
    BY <1>1, <2>1 DEF OpenFor
  <2>2. CASE x.pc # "recording"
    <3>1. PICK v \in Workers : ws[v].pc = "recording" /\ ws[v].job[1] = b
      BY <1>2, <2>2 DEF JobsOK, Explained
    <3>2. v # w
      BY <3>1
    <3> QED
      BY <1>1, <3>1, <3>2
  <2> QED
    BY <2>1, <2>2
<1>6. Placed(b, bt, q, ws2)
  <2> SUFFICES ASSUME ~bt.cancelled, NEW i \in 1..bt.job_count, i \notin bt.results, <<b, i>> \notin q
               PROVE  \E v \in Workers : ws2[v].pc \in Open /\ ws2[v].job = <<b, i>>
    BY DEF Placed
  <2>1. PICK v \in Workers : ws[v].pc \in Open /\ ws[v].job = <<b, i>>
    BY DEF JobsOK, Placed
  <2>2. CASE v = w
    <3>1. ws[w].job[2] = i
      BY <2>1, <2>2
    <3>2. x.pc \in Open
      BY <3>1
    <3> QED
      BY <1>1, <2>1, <2>2, <3>2
  <2>3. CASE v # w
    BY <1>1, <2>1, <2>3
  <2> QED
    BY <2>2, <2>3
<1>7. Back(b, cl, q, ws2)
  BY <1>2 DEF Back
<1>8. \A j \in q : j[2] \in 1..bt.job_count
  BY DEF JobsOK
<1>9. Balanced(b, bt, cl, ws2)
  BY DEF ws2
<1>10. JobsOK(b, bt, cl, q, ws2)
  BY <1>3, <1>4, <1>5, <1>6, <1>7, <1>8, <1>9 DEF JobsOK
<1> QED
  BY <1>10 DEF ws2

\* The step of a worker that has a job changes its batch and itself only.
WorkerGoes(w, bt, x) ==
    /\ worker[w].pc \in Open /\ x.job = worker[w].job
    /\ queue' = queue /\ call' = call
    /\ worker' = [worker EXCEPT ![w] = x]
    /\ batch' = [batch EXCEPT ![worker[w].job[1]] = bt]

LEMMA WorkerStepKeeps ==
    ASSUME IInv, JobsInv, NEW w \in Workers, NEW bt, NEW x, WorkerGoes(w, bt, x),
           LET b == worker[w].job[1] IN JobsOK(b, bt, call[b], QueuedOf(b), worker')
    PROVE  JobsInv'
<1>0. Types /\ WorkersConsistent
  BY DEF IInv, Consistent
<1>1. PICK b \in Batches : b = worker[w].job[1]
  BY <1>0 DEF WorkersConsistent, WorkerGoes, Open, Carrying, Jobs
<1>2. batch'[b] = bt /\ \A c \in Batches \ {b} : batch'[c] = batch[c]
  BY <1>0, <1>1 DEF Types, WorkerGoes
<1>3. \A v \in Workers : worker'[v] = IF v = w THEN x ELSE worker[v]
  BY <1>0 DEF Types, WorkerGoes
<1>4. \A c : QueuedOf(c)' = QueuedOf(c)
  BY Zenon DEF WorkerGoes, QueuedOf
<1>5. x.job[1] = b
  BY <1>1 DEF WorkerGoes
<1>6. JobsOK(b, batch'[b], call'[b], QueuedOf(b)', worker')
  <2>1. JobsOK(b, bt, call[b], QueuedOf(b), worker')
    BY <1>1
  <2>2. batch'[b] = bt /\ call'[b] = call[b] /\ QueuedOf(b)' = QueuedOf(b)
    BY <1>2, <1>4 DEF WorkerGoes
  <2> QED
    BY <2>1, <2>2
<1>7. \A c \in Batches : c # b =>
         \A v \in Workers : \/ worker'[v] = worker[v]
                            \/ ~OpenFor(c, worker[v]) /\ ~OpenFor(c, worker'[v])
  BY <1>1, <1>3, <1>5 DEF OpenFor
<1>8. \A c \in Batches : c # b =>
         /\ batch'[c] = batch[c] /\ call'[c] = call[c] /\ QueuedOf(c)' = QueuedOf(c)
         /\ \A v \in Workers : \/ worker'[v] = worker[v]
                               \/ ~OpenFor(c, worker[v]) /\ ~OpenFor(c, worker'[v])
  BY <1>2, <1>4, <1>7 DEF WorkerGoes
<1> QED
  BY <1>1, <1>6, <1>8, OthersKept, Zenon

\* What a worker at work knows.
LEMMA AtWork ==
    ASSUME IInv, JobsInv, NEW w \in Workers, worker[w].pc \in Open
    PROVE  LET b == worker[w].job[1]
           IN /\ worker[w].job \in Jobs /\ b \in Batches /\ OpenFor(b, worker[w])
              /\ batch[b] \in BatchRecord /\ worker[w] \in WorkerState
              /\ JobsOK(b, batch[b], call[b], QueuedOf(b), worker) /\ WorkerOK(worker[w], batch[b])
<1>0. Types /\ WorkersConsistent
  BY DEF IInv, Consistent
<1> DEFINE b == worker[w].job[1]
<1>1. worker[w].job \in Jobs
  BY <1>0 DEF WorkersConsistent, Open, Carrying
<1>2. b \in Batches
  BY <1>1 DEF Jobs
<1>3. JobsOK(b, batch[b], call[b], QueuedOf(b), worker)
  BY <1>2 DEF JobsInv
<1>4. OpenFor(b, worker[w])
  BY DEF OpenFor
<1>5. WorkerOK(worker[w], batch[b])
  BY <1>3, <1>4 DEF JobsOK
<1> QED
  BY <1>0, <1>1, <1>2, <1>3, <1>4, <1>5 DEF Types

\* Encoding begins, unless the batch was cancelled, and ends; the first failure cancels.
LEMMA EncodeSteps ==
    ASSUME IInv, JobsInv, NEW w \in Workers,
           BeginEncoding(w) \/ FinishEncoding(w) \/ CancelBatch(w) \/ RecordError(w)
    PROVE  JobsInv'
<1> DEFINE b == worker[w].job[1]
<1>0. worker[w].pc \in Holding \ {"releasing"} /\ worker[w].pc \in Open
  BY DEF BeginEncoding, FinishEncoding, CancelBatch, RecordError, Holding, Open
<1>1. /\ worker[w].job \in Jobs /\ b \in Batches /\ OpenFor(b, worker[w])
      /\ batch[b] \in BatchRecord /\ worker[w] \in WorkerState
      /\ JobsOK(b, batch[b], call[b], QueuedOf(b), worker) /\ WorkerOK(worker[w], batch[b])
  BY <1>0, AtWork
<1>2. Types
  BY DEF IInv
<1> HIDE DEF b
<1>3. ASSUME NEW bt, NEW x, WorkerGoes(w, bt, x), batch' = [batch EXCEPT ![b] = bt],
             x.pc \in Holding, WorkerOK(x, bt),
             bt.job_count = batch[b].job_count, bt.results = batch[b].results,
             bt.completed_jobs = batch[b].completed_jobs, bt.remaining_jobs = batch[b].remaining_jobs,
             batch[b].cancelled => bt.cancelled, bt.cancelled => batch[b].cancelled \/ x.pc = "recording",
             batch[b].error # "none" => bt.error # "none", bt.error # "interrupt",
             worker[w].pc = "recording" => bt.error # "none"
      PROVE  JobsInv'
  <2>1. worker' = [worker EXCEPT ![w] = x] /\ x.job = worker[w].job
    BY <1>3 DEF WorkerGoes
  <2>2. Publishing(b, [worker EXCEPT ![w] = x]) = Publishing(b, worker)
    <3>1. x.pc # "publishing" /\ worker[w].pc # "publishing"
      BY <1>0, <1>3 DEF Holding
    <3>2. worker \in [Workers -> WorkerState] /\ worker[w].job[1] = b
      BY <1>2 DEF Types, b
    <3> QED
      BY <1>1, <2>1, <3>1, <3>2, PublishingMoves
  <2>3. Balanced(b, bt, call[b], [worker EXCEPT ![w] = x])
    BY <1>1, <1>3, <2>2 DEF JobsOK, Balanced
  <2>4. x.pc \in Open
    BY <1>3 DEF Open
  <2>5. bt.results \subseteq 1..bt.job_count
    BY <1>1, <1>3 DEF JobsOK, CallOK
  <2>6. worker \in [Workers -> WorkerState]
    BY <1>2 DEF Types
  <2>7. JobsOK(b, bt, call[b], QueuedOf(b), [worker EXCEPT ![w] = x])
    BY <1>1, <1>3, <2>1, <2>3, <2>4, <2>5, <2>6, WorkerMoves
  <2> QED
    BY <1>3, <2>1, <2>7, WorkerStepKeeps DEF b
<1>4. batch[b].error # "interrupt"
  BY <1>1 DEF JobsOK, CallOK
<1>5. [batch EXCEPT ![b] = batch[b]] = batch
  BY <1>1, <1>2 DEF Types
<1>6. CASE BeginEncoding(w)
  <2> DEFINE there == IF batch[b].cancelled THEN "releasing" ELSE "encoding"
             x == [worker[w] EXCEPT !.pc = there]
  <2>1. /\ worker[w].pc = "taken" /\ queue' = queue /\ call' = call /\ batch' = batch
        /\ worker' = [worker EXCEPT ![w] = x]
    BY <1>2, <1>6 DEF BeginEncoding, poolVars, Types, b
  <2>2. x.pc = there /\ x.job = worker[w].job /\ x.outcome = worker[w].outcome
    BY <1>1 DEF WorkerState
  <2> HIDE DEF x
  <2>3. x.pc \in Holding
    BY <2>2 DEF Holding
  <2>4. WorkerOK(x, batch[b])
    BY <1>1, <2>2 DEF WorkerOK
  <2>5. WorkerGoes(w, batch[b], x)
    BY <1>0, <1>5, <2>1, <2>2 DEF WorkerGoes, b
  <2> QED
    BY <1>3, <1>4, <1>5, <2>1, <2>3, <2>4, <2>5
<1>7. CASE FinishEncoding(w)
  <2>1. PICK o \in {"ok", "codec", "interrupt"} :
           /\ o = "interrupt" => batch[b].cancelled
           /\ worker' = [worker EXCEPT ![w].outcome = o,
                                       ![w].pc = IF o = "ok" THEN "releasing" ELSE "settling"]
    BY <1>7 DEF FinishEncoding, b
  <2> DEFINE there == IF o = "ok" THEN "releasing" ELSE "settling"
             x == [worker[w] EXCEPT !.outcome = o, !.pc = there]
  <2>2. /\ worker[w].pc = "encoding" /\ queue' = queue /\ call' = call /\ batch' = batch
        /\ worker' = [worker EXCEPT ![w] = x]
    BY <1>2, <1>7, <2>1 DEF FinishEncoding, poolVars, Types
  <2>3. x.pc = there /\ x.job = worker[w].job /\ x.outcome = o
    BY <1>1 DEF WorkerState
  <2> HIDE DEF x
  <2>4. x.pc \in Holding
    BY <2>3 DEF Holding
  <2>5. WorkerOK(x, batch[b])
    BY <1>1, <2>1, <2>3 DEF WorkerOK
  <2>6. WorkerGoes(w, batch[b], x)
    BY <1>0, <1>5, <2>2, <2>3 DEF WorkerGoes, b
  <2> QED
    BY <1>3, <1>4, <1>5, <2>2, <2>4, <2>5, <2>6
<1>8. CASE CancelBatch(w)
  <2> DEFINE there == IF Records(batch[b].cancelled) THEN "recording" ELSE "releasing"
             bt == [batch[b] EXCEPT !.cancelled = TRUE]
             x == [worker[w] EXCEPT !.pc = there]
  <2>1. /\ worker[w].pc = "settling" /\ queue' = queue /\ call' = call
        /\ batch' = [batch EXCEPT ![b] = bt] /\ worker' = [worker EXCEPT ![w] = x]
    BY <1>1, <1>2, <1>8 DEF CancelBatch, poolVars, Types, b
  <2>2. x.pc = there /\ x.job = worker[w].job /\ x.outcome = worker[w].outcome
    BY <1>1 DEF WorkerState
  <2>3. /\ bt.job_count = batch[b].job_count /\ bt.results = batch[b].results
        /\ bt.completed_jobs = batch[b].completed_jobs /\ bt.error = batch[b].error
        /\ bt.remaining_jobs = batch[b].remaining_jobs /\ bt.cancelled
    BY <1>1 DEF BatchRecord
  <2>4. worker[w].outcome \in {"codec", "interrupt"}
    BY <2>1 DEF IInv, Consistent, WorkersConsistent
  <2>5. there = IF batch[b].cancelled THEN "releasing" ELSE "recording"
    BY DEF Records
  <2> HIDE DEF x, bt, there
  <2>6. x.pc \in Holding
    BY <2>2, <2>5 DEF Holding
  <2>7. WorkerOK(x, bt)
    <3>1. batch[b].cancelled \/ worker[w].outcome = "codec"
      BY <1>1, <2>1, <2>4 DEF WorkerOK
    <3> QED
      BY <1>1, <2>2, <2>3, <2>5, <3>1 DEF WorkerOK
  <2>8. WorkerGoes(w, bt, x)
    BY <1>0, <2>1, <2>2 DEF WorkerGoes, b
  <2>9. bt.cancelled => batch[b].cancelled \/ x.pc = "recording"
    BY <2>2, <2>5
  <2> QED
    BY <1>3, <1>4, <2>1, <2>3, <2>6, <2>7, <2>8, <2>9
<1>9. CASE RecordError(w)
  <2> DEFINE bt == [batch[b] EXCEPT !.error = worker[w].outcome]
             x == [worker[w] EXCEPT !.pc = "releasing"]
  <2>1. /\ worker[w].pc = "recording" /\ queue' = queue /\ call' = call
        /\ batch' = [batch EXCEPT ![b] = bt] /\ worker' = [worker EXCEPT ![w] = x]
    BY <1>1, <1>2, <1>9 DEF RecordError, poolVars, Types, b
  <2>2. x.pc = "releasing" /\ x.job = worker[w].job /\ x.outcome = worker[w].outcome
    BY <1>1 DEF WorkerState
  <2>3. /\ bt.job_count = batch[b].job_count /\ bt.results = batch[b].results
        /\ bt.completed_jobs = batch[b].completed_jobs /\ bt.error = worker[w].outcome
        /\ bt.remaining_jobs = batch[b].remaining_jobs /\ bt.cancelled = batch[b].cancelled
    BY <1>1 DEF BatchRecord
  <2>4. worker[w].outcome = "codec" /\ batch[b].cancelled
    BY <1>1, <2>1 DEF WorkerOK
  <2> HIDE DEF x, bt
  <2>5. x.pc \in Holding /\ x.pc # "recording"
    BY <2>2 DEF Holding
  <2>6. WorkerOK(x, bt)
    BY <1>1, <2>2, <2>3, <2>4 DEF WorkerOK
  <2>7. WorkerGoes(w, bt, x)
    BY <1>0, <2>1, <2>2 DEF WorkerGoes, b
  <2> QED
    BY <1>3, <2>1, <2>3, <2>4, <2>5, <2>6, <2>7
<1> QED
  BY <1>6, <1>7, <1>8, <1>9

\* The job leaves the count of the remaining ones, and joins that of the completed ones.
LEMMA ReleaseKeepsJobs == ASSUME IInv, JobsInv, NEW w \in Workers, ReleaseBudget(w) PROVE JobsInv'
<1>0. worker[w].pc = "releasing" /\ worker[w].pc \in Open /\ Types
  BY DEF ReleaseBudget, Open, Holding, IInv
<1> DEFINE b == worker[w].job[1]
           given_back == IF HasReservation(w) THEN 1 ELSE 0
           threads == given_back * CodecThreads(worker[w].job)
           bt == [batch[b] EXCEPT !.active_workers = @ - given_back,
                                  !.active_codec_threads = @ - threads, !.remaining_jobs = @ - 1]
           x == [worker[w] EXCEPT !.pc = "publishing", !.reserved_budget = FALSE]
<1>1. /\ worker[w].job \in Jobs /\ b \in Batches /\ OpenFor(b, worker[w])
      /\ batch[b] \in BatchRecord /\ worker[w] \in WorkerState
      /\ JobsOK(b, batch[b], call[b], QueuedOf(b), worker) /\ WorkerOK(worker[w], batch[b])
  BY <1>0, AtWork
<1>2. /\ queue' = queue /\ call' = call
      /\ batch' = [batch EXCEPT ![b] = bt] /\ worker' = [worker EXCEPT ![w] = x]
  BY <1>0, <1>1 DEF ReleaseBudget, Types
<1>3. x.pc = "publishing" /\ x.job = worker[w].job /\ x.outcome = worker[w].outcome
  BY <1>1 DEF WorkerState
<1>4. /\ bt.job_count = batch[b].job_count /\ bt.results = batch[b].results
      /\ bt.completed_jobs = batch[b].completed_jobs /\ bt.error = batch[b].error
      /\ bt.remaining_jobs = batch[b].remaining_jobs - 1 /\ bt.cancelled = batch[b].cancelled
  BY <1>1 DEF BatchRecord
<1>5. /\ batch[b].completed_jobs \in Nat /\ batch[b].remaining_jobs \in Int
      /\ Owes(call[b]) \in Nat
  BY <1>0, <1>1 DEF BatchRecord, Types, CallState, Owes
<1>6. worker \in [Workers -> WorkerState] /\ worker[w].job[1] = b
  BY <1>0 DEF Types
<1> HIDE DEF b, bt, x
<1>7. /\ Cardinality(Publishing(b, worker)) \in Nat
      /\ Cardinality(Publishing(b, [worker EXCEPT ![w] = x])) = Cardinality(Publishing(b, worker)) + 1
  BY <1>0, <1>1, <1>3, <1>6, PublishingMoves
<1>8. Balanced(b, bt, call[b], [worker EXCEPT ![w] = x])
  <2>1. Balanced(b, batch[b], call[b], worker)
    BY <1>1 DEF JobsOK
  <2> QED
    BY <1>4, <1>5, <1>7, <2>1 DEF Balanced
<1>9. WorkerOK(x, bt)
  BY <1>0, <1>1, <1>3, <1>4 DEF WorkerOK
<1>10. bt.results \subseteq 1..bt.job_count /\ bt.error # "interrupt"
  BY <1>1, <1>4 DEF JobsOK, CallOK
<1>11. x.pc \in Open
  BY <1>3 DEF Open
<1>12. JobsOK(b, bt, call[b], QueuedOf(b), [worker EXCEPT ![w] = x])
  <2>1. /\ bt.job_count = batch[b].job_count /\ batch[b].results \subseteq bt.results
        /\ batch[b].cancelled => bt.cancelled
        /\ bt.cancelled => batch[b].cancelled \/ x.pc = "recording"
        /\ batch[b].error # "none" => bt.error # "none"
        /\ worker[w].pc = "recording" => bt.error # "none"
    BY <1>0, <1>4
  <2>2. b \in Batches /\ OpenFor(b, worker[w]) /\ JobsOK(b, batch[b], call[b], QueuedOf(b), worker)
    BY <1>1
  <2> QED
    BY <1>3, <1>6, <1>8, <1>9, <1>10, <1>11, <2>1, <2>2, WorkerMoves
<1>13. WorkerGoes(w, bt, x)
  BY <1>0, <1>2, <1>3 DEF WorkerGoes, b
<1> QED
  BY <1>2, <1>12, <1>13, WorkerStepKeeps DEF b

LEMMA PublishKeepsJobs == ASSUME IInv, JobsInv, NEW w \in Workers, PublishResult(w) PROVE JobsInv'
<1>0. worker[w].pc = "publishing" /\ worker[w].pc \in Open /\ Types
  BY DEF PublishResult, Open, Holding, IInv
<1> DEFINE b == worker[w].job[1]
           stored == IF worker[w].outcome = "ok" /\ ~batch[b].cancelled
                     THEN {worker[w].job[2]} ELSE {}
           bt == [batch[b] EXCEPT !.results = @ \cup stored, !.completed_jobs = @ + 1]
           x == [worker[w] EXCEPT !.pc = "notifying"]
<1>1. /\ worker[w].job \in Jobs /\ b \in Batches /\ OpenFor(b, worker[w])
      /\ batch[b] \in BatchRecord /\ worker[w] \in WorkerState
      /\ JobsOK(b, batch[b], call[b], QueuedOf(b), worker) /\ WorkerOK(worker[w], batch[b])
  BY <1>0, AtWork
<1>2. /\ queue' = queue /\ call' = call
      /\ batch' = [batch EXCEPT ![b] = bt] /\ worker' = [worker EXCEPT ![w] = x]
  BY <1>0, <1>1 DEF PublishResult, Types, poolVars
<1>3. x.pc = "notifying" /\ x.job = worker[w].job /\ x.outcome = worker[w].outcome
  BY <1>1 DEF WorkerState
<1>4. /\ bt.job_count = batch[b].job_count /\ bt.results = batch[b].results \cup stored
      /\ bt.completed_jobs = batch[b].completed_jobs + 1 /\ bt.error = batch[b].error
      /\ bt.remaining_jobs = batch[b].remaining_jobs /\ bt.cancelled = batch[b].cancelled
  BY <1>1 DEF BatchRecord
<1>5. /\ batch[b].completed_jobs \in Nat /\ batch[b].remaining_jobs \in Int
      /\ Owes(call[b]) \in Nat
  BY <1>0, <1>1 DEF BatchRecord, Types, CallState, Owes
<1>6. worker \in [Workers -> WorkerState] /\ worker[w].job[1] = b
  BY <1>0 DEF Types
<1>7. worker[w].job[2] \in 1..batch[b].job_count /\ (worker[w].outcome = "ok" \/ batch[b].cancelled)
  BY <1>0, <1>1 DEF WorkerOK
<1>8. /\ stored \subseteq 1..batch[b].job_count
      /\ worker[w].job[2] \in stored \/ batch[b].cancelled
  BY <1>7
<1> HIDE DEF b, bt, x, stored
<1>9. /\ Cardinality(Publishing(b, worker)) \in Nat
      /\ Cardinality(Publishing(b, [worker EXCEPT ![w] = x])) = Cardinality(Publishing(b, worker)) - 1
  BY <1>0, <1>1, <1>3, <1>6, PublishingMoves
<1>10. Balanced(b, bt, call[b], [worker EXCEPT ![w] = x])
  <2>1. Balanced(b, batch[b], call[b], worker)
    BY <1>1 DEF JobsOK
  <2> QED
    BY <1>4, <1>5, <1>9, <2>1 DEF Balanced
<1>11. ~OpenFor(b, x)
  BY <1>3 DEF OpenFor, Open, Holding
<1>12. bt.results \subseteq 1..bt.job_count /\ bt.error # "interrupt" /\ batch[b].results \subseteq bt.results
  BY <1>1, <1>4, <1>8 DEF JobsOK, CallOK
<1>13. worker[w].job[2] \in bt.results \/ bt.cancelled
  BY <1>4, <1>8
<1>14. JobsOK(b, bt, call[b], QueuedOf(b), [worker EXCEPT ![w] = x])
  BY <1>0, <1>1, <1>3, <1>4, <1>6, <1>10, <1>11, <1>12, <1>13, WorkerMoves
<1>15. WorkerGoes(w, bt, x)
  BY <1>0, <1>2, <1>3 DEF WorkerGoes, b
<1> QED
  BY <1>2, <1>14, <1>15, WorkerStepKeeps DEF b

\* A job goes from the queue to a worker.
LEMMA TakeKeepsJobs == ASSUME IInv, JobsInv, NEW w \in Workers, TakeJob(w) PROVE JobsInv'
<1>0. Types /\ worker[w].pc = "ready" /\ call' = call
  BY DEF IInv, TakeJob
<1>1. PICK j \in queue :
         LET reserves == ~batch[j[1]].cancelled
         IN /\ queue' = queue \ {j}
            /\ worker' = [worker EXCEPT ![w].pc = "taken", ![w].job = j, ![w].reserved_budget = reserves]
            /\ IF reserves
               THEN batch' = [batch EXCEPT ![j[1]].active_workers = @ + 1,
                                           ![j[1]].active_codec_threads = @ + CodecThreads(j)]
               ELSE batch' = batch
  BY DEF TakeJob
<1>2. PICK b \in Batches, i \in 1..MaxJobs : j = <<b, i>>
  BY <1>0 DEF Types, Jobs
<1> DEFINE bt == batch'[b]
           x == [worker[w] EXCEPT !.pc = "taken", !.job = j, !.reserved_budget = ~batch[b].cancelled]
<1>3. JobsOK(b, batch[b], call[b], QueuedOf(b), worker) /\ batch[b] \in BatchRecord
  BY <1>0 DEF JobsInv, Types
<1>4. /\ bt.job_count = batch[b].job_count /\ bt.results = batch[b].results
      /\ bt.completed_jobs = batch[b].completed_jobs /\ bt.error = batch[b].error
      /\ bt.remaining_jobs = batch[b].remaining_jobs /\ bt.cancelled = batch[b].cancelled
      /\ \A c \in Batches : c # b => batch'[c] = batch[c]
  <2>1. CASE batch[b].cancelled
    BY <1>1, <1>2, <2>1
  <2>2. CASE ~batch[b].cancelled
    BY <1>0, <1>1, <1>2, <1>3, <2>2 DEF Types, BatchRecord
  <2> QED
    BY <2>1, <2>2
<1>5. worker' = [worker EXCEPT ![w] = x] /\ \A v \in Workers : worker'[v] = IF v = w THEN x ELSE worker[v]
  BY <1>0, <1>1, <1>2 DEF Types
<1>6. x.pc = "taken" /\ x.job = <<b, i>>
  BY <1>0, <1>2 DEF Types, WorkerState
<1> HIDE DEF bt, x
<1>7. /\ QueuedOf(b)' = QueuedOf(b) \ {j} /\ j \in QueuedOf(b)
      /\ \A c \in Batches : c # b => QueuedOf(c)' = QueuedOf(c)
  BY <1>1, <1>2 DEF QueuedOf
<1>8. ~(worker[w].pc \in Open) /\ x.pc \in Open /\ x.job[1] = b /\ x.job[2] = i
  BY <1>0, <1>6 DEF Open, Holding
<1>9. i \in 1..batch[b].job_count
  BY <1>2, <1>3, <1>7 DEF JobsOK
<1>10. JobsOK(b, bt, call[b], QueuedOf(b)', worker')
  <2>1. call[b].pc \notin Done
    BY <1>3, <1>7 DEF JobsOK, Back
  <2>2. CallOK(bt, call[b])
    BY <1>3, <1>4 DEF JobsOK, CallOK
  <2>3. \A k \in QueuedOf(b)' : k[2] \in 1..bt.job_count
    BY <1>3, <1>4, <1>7 DEF JobsOK
  <2>4. ASSUME NEW v \in Workers, OpenFor(b, worker'[v]) PROVE WorkerOK(worker'[v], bt)
    <3>1. CASE v = w
      BY <1>4, <1>5, <1>6, <1>8, <1>9, <3>1 DEF WorkerOK
    <3>2. CASE v # w
      <4>1. worker'[v] = worker[v] /\ WorkerOK(worker[v], batch[b])
        BY <1>3, <1>5, <2>4, <3>2 DEF JobsOK
      <4> QED
        BY <1>4, <4>1 DEF WorkerOK
    <3> QED
      BY <3>1, <3>2
  <2>5. Explained(b, bt, call[b], worker')
    <3> SUFFICES ASSUME bt.cancelled, bt.error = "none", ~call[b].is_interrupted
                 PROVE  \E v \in Workers : worker'[v].pc = "recording" /\ worker'[v].job[1] = b
      BY DEF Explained
    <3>1. PICK v \in Workers : worker[v].pc = "recording" /\ worker[v].job[1] = b
      BY <1>3, <1>4, <2>1 DEF JobsOK, Explained
    <3>2. v # w
      BY <1>0, <3>1
    <3> QED
      BY <1>5, <3>1, <3>2
  <2>6. Placed(b, bt, QueuedOf(b)', worker')
    <3> SUFFICES ASSUME ~bt.cancelled, NEW n \in 1..bt.job_count, n \notin bt.results,
                        <<b, n>> \notin QueuedOf(b)'
                 PROVE  \E v \in Workers : worker'[v].pc \in Open /\ worker'[v].job = <<b, n>>
      BY DEF Placed
    <3>1. CASE n = i
      BY <1>5, <1>6, <1>8, <3>1
    <3>2. CASE n # i
      <4>1. <<b, n>> \notin QueuedOf(b)
        BY <1>2, <1>7, <3>2
      <4>2. PICK v \in Workers : worker[v].pc \in Open /\ worker[v].job = <<b, n>>
        BY <1>3, <1>4, <4>1 DEF JobsOK, Placed
      <4>3. v # w
        BY <1>8, <4>2
      <4> QED
        BY <1>5, <4>2, <4>3
    <3> QED
      BY <3>1, <3>2
  <2>7. Back(b, call[b], QueuedOf(b)', worker')
    BY <2>1 DEF Back
  <2>8. Balanced(b, bt, call[b], worker')
    <3>1. Publishing(b, worker') = Publishing(b, worker)
      BY <1>0, <1>5, <1>6 DEF Publishing
    <3> QED
      BY <1>3, <1>4, <3>1 DEF JobsOK, Balanced
  <2> QED
    BY <2>2, <2>3, <2>4, <2>5, <2>6, <2>7, <2>8 DEF JobsOK
<1>11. JobsOK(b, batch'[b], call'[b], QueuedOf(b)', worker')
  BY <1>0, <1>10 DEF bt
<1>12. \A c \in Batches : c # b =>
         /\ batch'[c] = batch[c] /\ call'[c] = call[c] /\ QueuedOf(c)' = QueuedOf(c)
         /\ \A v \in Workers : \/ worker'[v] = worker[v]
                               \/ ~OpenFor(c, worker[v]) /\ ~OpenFor(c, worker'[v])
  BY <1>0, <1>4, <1>5, <1>7, <1>8 DEF OpenFor
<1> QED
  BY <1>11, <1>12, OthersKept, Zenon

\* Sleeping, waking and stopping are not about a job.
LEMMA PoolSteps ==
    ASSUME IInv, JobsInv,
           StopNotify \/ UNCHANGED vars \/ \E w \in Workers : Idle(w) \/ NotifyCompleted(w)
    PROVE  JobsInv'
<1>0. Types
  BY DEF IInv
<1>1. /\ batch' = batch /\ call' = call /\ queue' = queue
      /\ \A v \in Workers : \/ worker'[v] = worker[v]
                            \/ \A c : ~OpenFor(c, worker[v]) /\ ~OpenFor(c, worker'[v])
  <2>1. CASE StopNotify
    BY <2>1, NotifiedElsewhere DEF StopNotify
  <2>2. CASE UNCHANGED vars
    BY <2>2 DEF vars, poolVars
  <2>3. ASSUME NEW w \in Workers, Idle(w)
        PROVE  /\ batch' = batch /\ call' = call /\ queue' = queue
               /\ \A v \in Workers : \/ worker'[v] = worker[v]
                                     \/ \A c : ~OpenFor(c, worker[v]) /\ ~OpenFor(c, worker'[v])
    <3>1. PICK p \in {"exited", "asleep"} : worker' = [worker EXCEPT ![w].pc = p]
      BY <2>3 DEF Idle
    <3>2. /\ worker[w].pc = "ready" /\ worker'[w].pc = p
          /\ \A v \in Workers : v # w => worker'[v] = worker[v]
      BY <1>0, <2>3, <3>1 DEF Idle, Types, WorkerState
    <3>3. \A c : ~OpenFor(c, worker[w]) /\ ~OpenFor(c, worker'[w])
      BY <3>2 DEF OpenFor, Open, Holding
    <3> QED
      BY <2>3, <3>2, <3>3 DEF Idle
  <2>4. ASSUME NEW w \in Workers, NotifyCompleted(w)
        PROVE  /\ batch' = batch /\ call' = call /\ queue' = queue
               /\ \A v \in Workers : \/ worker'[v] = worker[v]
                                     \/ \A c : ~OpenFor(c, worker[v]) /\ ~OpenFor(c, worker'[v])
    <3>1. worker' = [NotifyAll(worker) EXCEPT ![w].pc = "ready", ![w].job = NoJob, ![w].outcome = "none"]
      BY <2>4 DEF NotifyCompleted
    <3>2. worker[w].pc = "notifying" /\ NotifyAll(worker)[w] = worker[w]
      BY <2>4 DEF NotifyCompleted, NotifyAll
    <3>3. worker'[w].pc = "ready" /\ \A v \in Workers : v # w => worker'[v] = NotifyAll(worker)[v]
      BY <1>0, <3>1, <3>2 DEF NotifyAll, Types, WorkerState
    <3>4. \A c : ~OpenFor(c, worker[w]) /\ ~OpenFor(c, worker'[w])
      BY <3>2, <3>3 DEF OpenFor, Open, Holding
    <3> QED
      BY <2>4, <3>3, <3>4, NotifiedElsewhere DEF NotifyCompleted, poolVars
  <2> QED
    BY <2>1, <2>2, <2>3, <2>4
<1>2. \A c : QueuedOf(c)' = QueuedOf(c)
  BY <1>1, Zenon DEF QueuedOf
<1>3. ASSUME NEW c \in Batches PROVE JobsOK(c, batch'[c], call'[c], QueuedOf(c)', worker')
  <2>1. JobsOK(c, batch[c], call[c], QueuedOf(c), worker)
    BY DEF JobsInv
  <2>2. JobsOK(c, batch[c], call[c], QueuedOf(c), worker')
    BY <1>1, <2>1, JobsFrame
  <2> QED
    BY <1>1, <1>2, <2>2
<1> QED
  BY <1>3 DEF JobsInv

\* The destructor runs when no call is active.
LEMMA StopKeepsJobs == ASSUME IInv, JobsInv, Stop PROVE JobsInv'
<1>0. Types
  BY DEF IInv
<1>1. call' = call /\ queue' = queue /\ worker' = worker
  BY DEF Stop
<1>2. \A c : QueuedOf(c)' = QueuedOf(c)
  BY <1>1, Zenon DEF QueuedOf
<1>3. ASSUME NEW c \in Batches PROVE JobsOK(c, batch'[c], call[c], QueuedOf(c), worker)
  <2> DEFINE flag == batch[c].cancelled \/ (c \in batches /\ WorkersWith(c, Carrying) # {})
             bt == [batch[c] EXCEPT !.cancelled = flag]
  <2>1. JobsOK(c, batch[c], call[c], QueuedOf(c), worker)
    BY DEF JobsInv
  <2>2. batch'[c] = bt /\ call[c].pc \notin Active
    BY DEF Stop
  <2>3. /\ bt.job_count = batch[c].job_count /\ bt.results = batch[c].results
        /\ bt.completed_jobs = batch[c].completed_jobs /\ bt.error = batch[c].error
        /\ bt.remaining_jobs = batch[c].remaining_jobs /\ bt.cancelled = flag
    BY <1>0 DEF Types, BatchRecord
  <2>4. call[c].pc \in {"idle"} \cup Done
    BY <1>0, <2>2 DEF Types, CallState
  <2>5. call[c].pc = "idle" => ~flag
    BY <2>1 DEF IInv, Consistent, IdleCallsAbsent, JobsOK, CallOK
  <2> HIDE DEF flag, bt
  <2>6. batch[c].cancelled => flag
    BY DEF flag
  <2>7. CallOK(bt, call[c])
    BY <2>1, <2>2, <2>3, <2>5, <2>6 DEF JobsOK, CallOK
  <2>8. \A w \in Workers : ~OpenFor(c, worker[w])
    BY <2>1, <2>4, NotStarted DEF JobsOK, Back
  <2>9. Explained(c, bt, call[c], worker)
    BY <2>3, <2>4, <2>5 DEF Explained
  <2>10. Placed(c, bt, QueuedOf(c), worker)
    BY <2>1, <2>3, <2>6 DEF JobsOK, Placed
  <2>11. Back(c, call[c], QueuedOf(c), worker) /\ Balanced(c, bt, call[c], worker)
    BY <2>1, <2>3 DEF JobsOK, Balanced
  <2>12. JobsOK(c, bt, call[c], QueuedOf(c), worker)
    BY <2>1, <2>3, <2>7, <2>8, <2>9, <2>10, <2>11 DEF JobsOK
  <2> QED
    BY <2>2, <2>12
<1> QED
  BY <1>1, <1>2, <1>3 DEF JobsInv

LEMMA InitJobs == Init => JobsInv
<1> SUFFICES ASSUME Init, NEW c \in Batches
             PROVE  JobsOK(c, batch[c], call[c], QueuedOf(c), worker)
  BY DEF JobsInv
<1>1. batch[c] = NewBatch(0, 1, 1, 1, 0) /\ call[c].pc = "idle" /\ \A w \in Workers : worker[w].pc = "ready"
  BY DEF Init
<1>2. QueuedOf(c) = {}
  BY DEF Init, QueuedOf
<1>3. /\ batch[c].job_count = 0 /\ batch[c].results = {} /\ batch[c].error = "none"
      /\ batch[c].completed_jobs = 0 /\ batch[c].remaining_jobs = 0 /\ ~batch[c].cancelled
  BY <1>1 DEF NewBatch
<1>4. \A w \in Workers : ~OpenFor(c, worker[w])
  BY <1>1 DEF OpenFor, Open, Holding
<1>5. Publishing(c, worker) = {} /\ Owes(call[c]) = 0
  BY <1>1 DEF Publishing, Owes
<1>6. Balanced(c, batch[c], call[c], worker)
  BY <1>3, <1>5, FS_EmptySet DEF Balanced
<1>7. CallOK(batch[c], call[c])
  BY <1>1, <1>3 DEF CallOK
<1>8. Explained(c, batch[c], call[c], worker) /\ Placed(c, batch[c], QueuedOf(c), worker)
  BY <1>3 DEF Explained, Placed
<1>9. Back(c, call[c], QueuedOf(c), worker)
  BY <1>2, <1>4 DEF Back
<1> QED
  BY <1>2, <1>4, <1>6, <1>7, <1>8, <1>9 DEF JobsOK

LEMMA NextJobs == IInv /\ JobsInv /\ [Next]_vars => JobsInv'
<1> SUFFICES ASSUME IInv, JobsInv, [Next]_vars PROVE JobsInv'
  OBVIOUS
<1>1. ASSUME NEW b \in Batches, ExecuteEmpty(b) \/ ExecuteRejected(b) PROVE JobsInv'
  BY <1>1, RefusedStep
<1>2. ASSUME NEW b \in Batches, NEW r \in Requests[b], Enqueue(b, r) \/ EnqueueFails(b, r)
      PROVE JobsInv'
  BY <1>2, RefusedStep, EnqueueKeepsJobs
<1>3. ASSUME NEW b \in Batches, CallerStep(b) \/ Interrupt(b) PROVE JobsInv'
  BY <1>3, NotifyStep, PollStep, FinishStep, DiscardKeepsJobs, CreditStep DEF CallerStep
<1>4. ASSUME NEW w \in Workers, WorkerStep(w) PROVE JobsInv'
  BY <1>4, TakeKeepsJobs, PoolSteps, EncodeSteps, ReleaseKeepsJobs, PublishKeepsJobs DEF WorkerStep
<1>5. ASSUME Stop \/ StopNotify \/ Terminated \/ UNCHANGED vars PROVE JobsInv'
  BY <1>5, StopKeepsJobs, PoolSteps DEF Terminated
<1> QED
  BY <1>1, <1>2, <1>3, <1>4, <1>5 DEF Next

\* Where the jobs of each call are, and what their workers know, in every reachable state.
THEOREM JobsInvariant == Spec => []JobsInv
BY Invariant, InitJobs, NextJobs, PTL DEF Spec

\* Every job of an accepted call is queued, with a worker, erased and to be credited, or
\* completed, and in one of these only, so completed_jobs meets results.size() and the loop
\* of Execute can end.
THEOREM Balance == Spec => []JobsAccounted
<1>1. IInv /\ JobsInv => JobsAccounted
  <2> SUFFICES ASSUME IInv, JobsInv, NEW b \in Batches
               PROVE  /\ batch[b].remaining_jobs =
                            Cardinality(QueuedOf(b)) + Cardinality(WorkersWith(b, Holding))
                      /\ batch[b].job_count =
                            batch[b].completed_jobs + batch[b].remaining_jobs
                            + Cardinality(WorkersWith(b, {"publishing"}))
                            + (IF call[b].pc = "credit" THEN call[b].discarded_jobs ELSE 0)
    BY DEF JobsAccounted
  <2>1. Publishing(b, worker) = WorkersWith(b, {"publishing"})
    BY DEF Publishing, WorkersWith
  <2>2. Balanced(b, batch[b], call[b], worker)
    BY DEF JobsInv, JobsOK
  <2> QED
    BY <2>1, <2>2 DEF Balanced, Owes, IInv, Consistent, CountersExact
<1> QED
  BY <1>1, Invariant, JobsInvariant, PTL

\* Execute comes back only when no worker uses what its caller lent, none of its jobs is
\* queued and its share of the codec threads has been given back.
THEOREM NothingBorrowed == Spec => []NothingBorrowedAfterReturn
<1>1. IInv /\ JobsInv => NothingBorrowedAfterReturn
  <2> SUFFICES ASSUME IInv, JobsInv, NEW b \in Batches, call[b].pc \in Done
               PROVE  /\ QueuedOf(b) = {} /\ WorkersWith(b, Carrying \ {"notifying"}) = {}
                      /\ batch[b].active_workers = 0
    BY DEF NothingBorrowedAfterReturn
  <2>1. QueuedOf(b) = {} /\ \A w \in Workers : ~OpenFor(b, worker[w])
    BY DEF JobsInv, JobsOK, Back
  <2>2. WorkersWith(b, Carrying \ {"notifying"}) = {}
    BY <2>1 DEF WorkersWith, OpenFor, Open, Carrying, Holding
  <2>3. ReservingFor(b) = {}
    BY <2>1 DEF ReservingFor, Reserving, IInv, Consistent, WorkersConsistent, OpenFor, Open
  <2>4. batch[b].active_workers = 0
    BY <2>3, FS_EmptySet DEF IInv, Consistent, CountersExact
  <2> QED
    BY <2>1, <2>2, <2>4
<1> QED
  BY <1>1, Invariant, JobsInvariant, PTL

\* Execute returns results only when every job was encoded and stored, and rethrows only an
\* error that encoding raised, never the one that the cancellation provoked.
THEOREM TrueOutcome == Spec => []OutcomeIsTrue
<1>1. JobsInv => OutcomeIsTrue
  BY DEF JobsInv, JobsOK, CallOK, OutcomeIsTrue
<1> QED
  BY <1>1, JobsInvariant, PTL

-----------------------------------------------------------------------------
(* The size of the pool *)

\* Fewer live batches with fewer jobs left do not ask for more workers.
LEMMA DemandShrinks ==
    ASSUME NEW live, NEW live2, live \subseteq Batches, live2 \subseteq live,
           NEW bs, NEW bs2, \A b \in live2 :
              /\ bs2[b].max_workers = bs[b].max_workers
              /\ bs2[b].host_thread_budget = bs[b].host_thread_budget
              /\ bs2[b].remaining_jobs <= bs[b].remaining_jobs
              /\ bs[b].max_workers \in Int /\ bs[b].remaining_jobs \in Int
              /\ bs2[b].remaining_jobs \in Int
    PROVE  DesiredWorkers(live2, bs2) \subseteq DesiredWorkers(live, bs)
<1> DEFINE Asked(l, s) == {p \in l \X (1..MaxThreads) :
                              p[2] <= Smaller(s[p[1]].max_workers, s[p[1]].remaining_jobs)}
<1>1. Asked(live2, bs2) \subseteq Asked(live, bs)
  <2> SUFFICES ASSUME NEW b \in live2, NEW n \in 1..MaxThreads,
                      n <= Smaller(bs2[b].max_workers, bs2[b].remaining_jobs)
               PROVE  n <= Smaller(bs[b].max_workers, bs[b].remaining_jobs)
    OBVIOUS
  <2> QED
    BY DEF Smaller
<1>2. IsFiniteSet(Asked(live, bs))
  <2>1. IsFiniteSet(live) /\ IsFiniteSet(1..MaxThreads)
    BY FiniteAssumption, FS_Subset, FS_Interval, BoundsAssumption
  <2>2. IsFiniteSet(live \X (1..MaxThreads))
    BY <2>1, FS_Product
  <2> QED
    BY <2>2, FS_Subset
<1>3. /\ Cardinality(Asked(live2, bs2)) \in Nat /\ Cardinality(Asked(live, bs)) \in Nat
      /\ Cardinality(Asked(live2, bs2)) <= Cardinality(Asked(live, bs))
  BY <1>1, <1>2, FS_Subset, FS_CardinalityType
<1>4. /\ WorkerDemand(live2, bs2) = Cardinality(Asked(live2, bs2))
      /\ WorkerDemand(live, bs) = Cardinality(Asked(live, bs))
  BY DEF WorkerDemand
<1> HIDE DEF Asked
<1>5. 0..WorkerDemand(live2, bs2) \subseteq 0..WorkerDemand(live, bs)
  BY <1>3, <1>4
<1> QED
  BY <1>5 DEF DesiredWorkers

\* What every step but that of a new batch does to the demand and to the pool.
Eases ==
    /\ batches' \subseteq batches /\ workers \subseteq workers' /\ workers' \subseteq Workers
    /\ \A b \in Batches : /\ batch'[b].max_workers = batch[b].max_workers
                          /\ batch'[b].host_thread_budget = batch[b].host_thread_budget
                          /\ batch'[b].remaining_jobs <= batch[b].remaining_jobs

SameLimits(y, x) ==
    /\ y.max_workers = x.max_workers /\ y.host_thread_budget = x.host_thread_budget
    /\ y.remaining_jobs = x.remaining_jobs

RemainingNatural == \A b \in Batches : batch[b].remaining_jobs \in Nat
LEMMA NoneOwed == IInv => RemainingNatural
BY CountersNatural DEF IInv, Consistent, RemainingNatural

LEMMA EasesKeeps == ASSUME IInv, IInv', PoolPrepared, Eases PROVE PoolPrepared'
<1>1. \A b \in Batches : /\ batch[b].remaining_jobs \in Nat /\ batch'[b].remaining_jobs \in Nat
                         /\ batch[b].max_workers \in Int
  <2>1. \A b \in Batches : batch[b].remaining_jobs \in Nat
    BY CountersNatural DEF IInv, Consistent
  <2>2. IInv' => RemainingNatural'
    BY NoneOwed, PTL
  <2>3. \A b \in Batches : batch[b].max_workers \in Int
    BY BoundsAssumption DEF IInv, Types, BatchRecord
  <2> QED
    BY <2>1, <2>2, <2>3 DEF RemainingNatural
<1>2. Live \subseteq Batches /\ batches \subseteq Batches
  BY DEF IInv, Types, Live
<1>3. Live' \subseteq Live
  <2> SUFFICES ASSUME NEW b \in batches', batch'[b].remaining_jobs # 0 PROVE b \in Live
    BY DEF Live
  <2>1. b \in batches /\ b \in Batches
    BY <1>2 DEF Eases
  <2>2. batch[b].remaining_jobs # 0
    BY <1>1, <2>1 DEF Eases
  <2> QED
    BY <2>1, <2>2 DEF Live
<1>4. DesiredWorkers(Live', batch') \subseteq DesiredWorkers(Live, batch)
  BY <1>1, <1>2, <1>3, DemandShrinks DEF Eases
<1>5. /\ Cardinality(workers) \in Nat /\ Cardinality(workers') \in Nat
      /\ Cardinality(workers) <= Cardinality(workers')
  <2>1. IsFiniteSet(workers')
    BY FS_Subset, FiniteAssumption DEF Eases
  <2> QED
    BY <2>1, FS_Subset, FS_CardinalityType DEF Eases
<1>6. ASSUME NEW n \in DesiredWorkers(Live', batch') PROVE n <= Cardinality(workers')
  <2>1. n \in Int
    BY DEF DesiredWorkers
  <2>2. n <= Cardinality(workers)
    BY <1>4 DEF PoolPrepared
  <2> QED
    BY <1>5, <2>1, <2>2
<1> QED
  BY <1>6 DEF PoolPrepared

LEMMA PrepareStep ==
    ASSUME IInv, NEW b \in Batches, NEW r \in Requests[b], Enqueue(b, r)
    PROVE  PoolPrepared'
<1>1. r.jobs # 0 /\ batches' = batches \cup {b} /\ GrowPool(DesiredWorkers(Live \cup {b}, batch'))
  BY DEF Enqueue
<1>2. /\ batch'[b].remaining_jobs = r.jobs
      /\ \A c \in Batches : c # b => batch'[c] = batch[c]
  BY DEF Enqueue, CreateBatch, AcceptedBatch, NewBatch, IInv, Types
<1>3. Live' = Live \cup {b}
  BY <1>1, <1>2 DEF Live, IInv, Types
<1>4. \A n \in DesiredWorkers(Live \cup {b}, batch') : n <= Cardinality(workers')
  BY <1>1 DEF GrowPool
<1> QED
  BY <1>3, <1>4 DEF PoolPrepared

LEMMA OtherStepsEase ==
    ASSUME IInv, IInv', [Next]_vars, ~\E b \in Batches : \E r \in Requests[b] : Enqueue(b, r)
    PROVE  Eases
<1>0. Types /\ Live \subseteq batches
  BY DEF IInv, Live
<1>1. workers' \subseteq Workers
  BY DEF IInv, Types
<1>2. \A b \in Batches : batch[b].remaining_jobs \in Int
  BY <1>0 DEF Types, BatchRecord
<1>3. ASSUME Kept, workers \subseteq workers' PROVE Eases
  BY <1>0, <1>1, <1>2, <1>3 DEF Kept, PoolKept, BatchesKept, SameCounters, Eases
<1>4. ASSUME NEW b \in Batches, QuietCallStep(b) PROVE Eases
  <2>1. Kept
    BY <1>4, QuietCallSteps
  <2>2. workers \subseteq workers'
    BY <1>4 DEF QuietCallStep, ExecuteEmpty, ExecuteRejected, Interrupt, NotifyEnqueued, Poll,
       Finish,
       CreditDiscarded, Renotify, EnqueueFails, poolVars
  <2> QED
    BY <1>3, <2>1, <2>2
<1>5. ASSUME NEW w \in Workers, QuietWorkerStep(w) PROVE Eases
  <2>1. Kept
    BY <1>5, QuietWorkerSteps
  <2>2. workers \subseteq workers'
    BY <1>5 DEF QuietWorkerStep, Idle, BeginEncoding, FinishEncoding, CancelBatch, RecordError,
       PublishResult, NotifyCompleted, poolVars
  <2> QED
    BY <1>3, <2>1, <2>2
<1>6. ASSUME Stop \/ StopNotify \/ Terminated \/ UNCHANGED vars PROVE Eases
  <2>1. Kept
    BY <1>6, QuietStop, Zenon
  <2>2. workers \subseteq workers'
    BY <1>6 DEF Stop, StopNotify, Terminated, vars, poolVars
  <2> QED
    BY <1>3, <2>1, <2>2
<1>7. ASSUME NEW b \in Batches, Discard(b) PROVE Eases
  <2> DEFINE n == Cardinality(QueuedOf(b))
             bt == [batch[b] EXCEPT !.remaining_jobs = @ - n]
  <2>1. batch' = [batch EXCEPT ![b] = bt] /\ batches' = batches /\ workers' = workers
    BY <1>0, <1>7 DEF Discard, Types
  <2>2. /\ bt.max_workers = batch[b].max_workers
        /\ bt.host_thread_budget = batch[b].host_thread_budget
        /\ bt.remaining_jobs = batch[b].remaining_jobs - n
    BY <1>0 DEF Types, BatchRecord
  <2>3. n \in Nat
    BY <1>0, CountedFinite, FS_CardinalityType
  <2> HIDE DEF bt, n
  <2>4. batch'[b] = bt /\ \A c \in Batches : c # b => batch'[c] = batch[c]
    BY <1>0, <2>1 DEF Types
  <2> QED
    BY <1>1, <1>2, <2>1, <2>2, <2>3, <2>4 DEF Eases
<1>8. ASSUME NEW w \in Workers, TakeJob(w) PROVE Eases
  <2>1. PICK j \in queue :
           \/ batch' = batch
           \/ batch' = [batch EXCEPT ![j[1]].active_workers = @ + 1,
                                     ![j[1]].active_codec_threads = @ + CodecThreads(j)]
    BY <1>8 DEF TakeJob
  <2>2. batches' = Live /\ workers' = workers
    BY <1>8 DEF TakeJob
  <2>3. j[1] \in Batches
    BY <1>0 DEF Types, Jobs
  <2>4. \A c \in Batches : SameLimits(batch'[c], batch[c])
    BY <1>0, <2>1, <2>3 DEF Types, BatchRecord, SameLimits
  <2> QED
    BY <1>0, <1>1, <1>2, <2>2, <2>4 DEF Eases, SameLimits
<1>9. ASSUME NEW w \in Workers, ReleaseBudget(w) PROVE Eases
  <2> DEFINE b == worker[w].job[1]
             given_back == IF HasReservation(w) THEN 1 ELSE 0
             threads == given_back * CodecThreads(worker[w].job)
             bt == [batch[b] EXCEPT !.active_workers = @ - given_back,
                                    !.active_codec_threads = @ - threads, !.remaining_jobs = @ - 1]
  <2>1. b \in Batches
    BY <1>9 DEF ReleaseBudget, IInv, Consistent, WorkersConsistent, Carrying, Holding, Jobs
  <2>2. batch' = [batch EXCEPT ![b] = bt] /\ batches' = batches /\ workers' = workers
    BY <1>0, <1>9, <2>1 DEF ReleaseBudget, Types
  <2>3. /\ bt.max_workers = batch[b].max_workers
        /\ bt.host_thread_budget = batch[b].host_thread_budget
        /\ bt.remaining_jobs = batch[b].remaining_jobs - 1
    BY <1>0, <2>1 DEF Types, BatchRecord
  <2> HIDE DEF bt, b
  <2>4. batch'[b] = bt /\ \A c \in Batches : c # b => batch'[c] = batch[c]
    BY <1>0, <2>1, <2>2 DEF Types
  <2> QED
    BY <1>1, <1>2, <2>1, <2>2, <2>3, <2>4 DEF Eases
<1> QED
  BY <1>4, <1>5, <1>6, <1>7, <1>8, <1>9
     DEF Next, CallerStep, WorkerStep, QuietCallStep, QuietWorkerStep

\* At every moment the pool has as many workers as the batches still alive can use at once,
\* though workers are created only when jobs are enqueued.
THEOREM PoolLarge == Spec => []PoolPrepared
<1>1. Init => PoolPrepared
  <2> SUFFICES ASSUME Init, NEW n \in DesiredWorkers(Live, batch) PROVE FALSE
    BY DEF PoolPrepared
  <2>1. Live = {}
    BY DEF Init, Live
  <2> QED
    BY <2>1 DEF DesiredWorkers
<1>2. IInv /\ IInv' /\ PoolPrepared /\ [Next]_vars => PoolPrepared'
  BY EasesKeeps, OtherStepsEase, PrepareStep
<1> QED
  BY <1>1, <1>2, Invariant, PTL DEF Spec

=============================================================================
