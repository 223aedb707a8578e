--------------------------- MODULE CodecExecutor ---------------------------
(***************************************************************************)
(* The process-wide video codec executor of the LeRobot extension          *)
(* (src/src/function/copy/lerobot_codec_executor.cpp).                     *)
(*                                                                         *)
(* Every COPY that finishes a video chunk calls Execute with a batch of    *)
(* encoding jobs.  All batches share one pool of worker threads, one       *)
(* queue, and one count of codec threads in use.  Three kinds of           *)
(* synchronisation order the steps: Impl::lock (queue, pool, budgets), a   *)
(* result_lock per batch (results, error, completed_jobs) and the atomic   *)
(* flag `cancelled'.  One action below is one critical section, or one     *)
(* access to the atomic flag.                                              *)
(*                                                                         *)
(* A member of Batches is one call of Execute.  A job is <<b, i>>, with i  *)
(* counted from 1 (result_index + 1).  The deque `queue' is kept as a set: *)
(* jobs are appended batch by batch under the lock and are only ever       *)
(* erased, so the deque is ordered by the arrival of the batch (`ticket')  *)
(* and then by job index.                                                  *)
(***************************************************************************)
EXTENDS Integers, FiniteSets

CONSTANTS
    Batches,     \* the calls of Execute
    Workers,     \* the threads the pool can have
    MaxJobs,     \* the most jobs a call brings
    MaxThreads,  \* the largest DuckDB thread limit
    Requests     \* the arguments each call of Execute may have

ASSUME FiniteAssumption == IsFiniteSet(Batches) /\ IsFiniteSet(Workers)
ASSUME BoundsAssumption ==
    MaxJobs \in Nat /\ MaxThreads \in Nat \ {0} /\ Cardinality(Workers) >= MaxThreads
\* `threads' is what NumberOfThreads() answers when Execute is entered; it may
\* differ from the limit codec_thread_budget was derived from at bind time.
ASSUME RequestsAssumption ==
    Requests \in [Batches -> SUBSET [jobs : 0..MaxJobs, max_workers : 0..MaxThreads,
                                     codec_thread_budget : 0..MaxThreads,
                                     threads : 0..MaxThreads]]

VARIABLES
    queue,                 \* jobs no worker has taken
    batches,               \* batches the executor keeps a weak_ptr to
    workers,               \* threads created so far
    active_codec_threads,  \* codec threads reserved by all batches together
    stopping, joining,     \* the destructor runs; it has notified and joins
    batch,                 \* the LerobotCodecBatchState of each call
    call,                  \* the locals of Execute, and its context's interrupt flag
    worker                 \* the locals of WorkerLoop and CompleteJob

poolVars == <<queue, batches, workers, active_codec_threads, stopping, joining>>
vars == <<poolVars, batch, call, worker>>

Jobs == Batches \X (1..MaxJobs)
NoJob == <<>>
Done == {"returned", "interrupted", "failed", "rejected", "enqueue_failed"}
Active == {"notify", "loop", "discard", "credit", "renotify"}

\* Where a worker is while it has a job.
Holding == {"taken", "encoding", "settling", "recording", "releasing"}
Carrying == Holding \cup {"publishing", "notifying"}

BatchState ==
    [job_count : 0..MaxJobs, max_workers : 1..MaxThreads,
     codec_thread_budget : 1..MaxThreads, host_thread_budget : 1..MaxThreads,
     ticket : Nat, active_workers : Nat, active_codec_threads : Nat, remaining_jobs : Nat,
     results : SUBSET (1..MaxJobs), error : {"none", "codec", "interrupt"},
     completed_jobs : Nat, cancelled : BOOLEAN]
CallState ==
    [pc : {"idle"} \cup Active \cup Done, is_interrupted : BOOLEAN, interrupted : BOOLEAN,
     discarded_queue : BOOLEAN, discarded_jobs : Nat]
WorkerState ==
    [pc : {"ready", "asleep", "exited"} \cup Carrying, job : Jobs \cup {NoJob},
     reserved_budget : BOOLEAN, outcome : {"none", "ok", "codec", "interrupt"}]

\* Every variable has the type the code declares for it; no unsigned counter is negative.
TypeOK ==
    /\ queue \subseteq Jobs
    /\ batches \subseteq Batches
    /\ workers \subseteq Workers
    /\ active_codec_threads \in Nat
    /\ stopping \in BOOLEAN /\ joining \in BOOLEAN
    /\ batch \in [Batches -> BatchState]
    /\ call \in [Batches -> CallState]
    /\ worker \in [Workers -> WorkerState]

\* The state a batch of n jobs starts in.
NewBatch(n, mw, budget, host, arrival) ==
    [job_count |-> n, max_workers |-> mw,
     codec_thread_budget |-> budget, host_thread_budget |-> host, ticket |-> arrival,
     active_workers |-> 0, active_codec_threads |-> 0, remaining_jobs |-> n,
     results |-> {}, error |-> "none", completed_jobs |-> 0, cancelled |-> FALSE]

\* Before the call the record stands for no batch: no job, the smallest budgets.
Init ==
    /\ queue = {} /\ batches = {} /\ workers = {}
    /\ active_codec_threads = 0 /\ stopping = FALSE /\ joining = FALSE
    /\ batch = [b \in Batches |-> NewBatch(0, 1, 1, 1, 0)]
    /\ call = [b \in Batches |-> [pc |-> "idle", is_interrupted |-> FALSE,
                                  interrupted |-> FALSE, discarded_queue |-> FALSE,
                                  discarded_jobs |-> 0]]
    /\ worker = [w \in Workers |-> [pc |-> "ready", job |-> NoJob,
                                    reserved_budget |-> FALSE, outcome |-> "none"]]

-----------------------------------------------------------------------------
(* Budgets *)

\* The share of the batch's codec threads that its job encodes with.
CodecThreads(j) ==
    LET mw == batch[j[1]].max_workers
        budget == batch[j[1]].codec_thread_budget
    IN budget \div mw + (IF (j[2] - 1) % mw < budget % mw THEN 1 ELSE 0)

\* The batches the pool still works for: not expired and not finished.
Live == {b \in batches : batch[b].remaining_jobs # 0}

\* Mutant: the largest host budget of a live batch bounds everyone.
WithinLargestCapacity(extra) ==
    IF Live = {} THEN active_codec_threads + extra <= 1
    ELSE \E c \in Live : active_codec_threads + extra <= batch[c].host_thread_budget

\* `extra' more codec threads stay within the smallest host budget of a live
\* batch.  With no live batch the capacity is 1.
WithinGlobalCapacity(extra) ==
    IF Live = {} THEN active_codec_threads + extra <= 1
    ELSE \A c \in Live : active_codec_threads + extra <= batch[c].host_thread_budget

Smaller(x, y) == IF x <= y THEN x ELSE y

\* The number of workers the batches bs[b], b \in live, could occupy at once.
WorkerDemand(live, bs) ==
    Cardinality({s \in live \X (1..MaxThreads) :
                    s[2] <= Smaller(bs[s[1]].max_workers, bs[s[1]].remaining_jobs)})

\* Mutant: the pool is sized by the smallest host budget.
DesiredWorkersBySmallestHost(live, bs) ==
    {n \in 0..WorkerDemand(live, bs) : \A b \in live : n <= bs[b].host_thread_budget}

\* The pool sizes that exceed neither the demand of the live batches nor the largest
\* of their host budgets; DesiredWorkerCountLocked() is the largest of them.
DesiredWorkers(live, bs) ==
    {n \in 0..WorkerDemand(live, bs) : \E b \in live : n <= bs[b].host_thread_budget}

-----------------------------------------------------------------------------
(* Execute: one action per critical section.  The executor outlives the     *)
(* call, because the COPY that makes it holds a shared_ptr to the executor, *)
(* so no call starts once the destructor runs.                              *)

CallMayStart(b) == call[b].pc = "idle" /\ ~stopping

HostBudget(r) == IF r.threads = 0 THEN 1 ELSE r.threads
BudgetFits(r) ==
    r.max_workers # 0 /\ r.codec_thread_budget # 0 /\ r.codec_thread_budget <= HostBudget(r)

\* The early exits: nothing to do, or a budget that no longer fits the thread limit.
ExecuteEmpty(b) ==
    /\ CallMayStart(b)
    /\ \E r \in Requests[b] : r.jobs = 0
    /\ call' = [call EXCEPT ![b].pc = "returned"]
    /\ UNCHANGED <<poolVars, batch, worker>>

ExecuteRejected(b) ==
    /\ CallMayStart(b)
    /\ \E r \in Requests[b] : r.jobs # 0 /\ ~BudgetFits(r)
    /\ call' = [call EXCEPT ![b].pc = "rejected"]
    /\ UNCHANGED <<poolVars, batch, worker>>

\* The batch of an accepted call; max_workers is cut to the jobs and to the budget.
AcceptedBatch(r, arrival) ==
    NewBatch(r.jobs, Smaller(Smaller(r.max_workers, r.jobs), r.codec_thread_budget),
             r.codec_thread_budget, HostBudget(r), arrival)

CreateBatch(b, r) ==
    batch' = [batch EXCEPT ![b] =
        AcceptedBatch(r, 1 + Cardinality({c \in Batches : batch[c].ticket # 0}))]

\* The pool grows to the largest of `sizes' and never shrinks.
GrowPool(sizes) ==
    \/ workers' = workers /\ \A n \in sizes : n <= Cardinality(workers)
    \/ \E pool \in SUBSET Workers :
          /\ workers \subseteq pool /\ pool # workers
          /\ Cardinality(pool) \in sizes
          /\ \A n \in sizes : n <= Cardinality(pool)
          /\ workers' = pool

\* First critical section: register the batch, append its jobs, size the pool.
Enqueue(b, r) ==
    /\ CallMayStart(b)
    /\ r.jobs # 0 /\ BudgetFits(r)
    /\ CreateBatch(b, r)
    /\ batches' = batches \cup {b}
    /\ queue' = queue \cup ({b} \X (1..r.jobs))
    /\ GrowPool(DesiredWorkers(Live \cup {b}, batch'))
    /\ call' = [call EXCEPT ![b].pc = "notify"]
    /\ UNCHANGED <<active_codec_threads, stopping, joining, worker>>

\* The same section when memory or a thread cannot be had: the batch and its jobs
\* are taken back before the lock is released, the threads already started stay.
EnqueueFails(b, r) ==
    /\ CallMayStart(b)
    /\ r.jobs # 0 /\ BudgetFits(r)
    /\ \E fresh \in SUBSET (Workers \ workers) :
          /\ workers' = workers \cup fresh
          /\ fresh # {} =>
                Cardinality(workers') + 1 \in
                   DesiredWorkers(Live \cup {b}, [batch EXCEPT ![b] = AcceptedBatch(r, 0)])
    /\ call' = [call EXCEPT ![b].pc = "enqueue_failed"]
    /\ UNCHANGED <<queue, batches, active_codec_threads, stopping, joining, batch, worker>>

\* work_cv.notify_all() when the workers are in the states ws
NotifyAll(ws) ==
    [w \in Workers |-> IF ws[w].pc = "asleep" THEN [ws[w] EXCEPT !.pc = "ready"] ELSE ws[w]]

\* Mutant: the workers are not told of the new jobs.
EnterLoop(b) ==
    /\ call[b].pc = "notify"
    /\ call' = [call EXCEPT ![b].pc = "loop"]
    /\ UNCHANGED <<poolVars, batch, worker>>

NotifyEnqueued(b) ==
    /\ call[b].pc = "notify"
    /\ call' = [call EXCEPT ![b].pc = "loop"]
    /\ worker' = NotifyAll(worker)
    /\ UNCHANGED <<poolVars, batch>>

\* One turn of the waiting loop, under result_lock.  The wait is bounded by 10 ms,
\* so the next turn needs no notification.
Poll(b) ==
    LET cancels == batch[b].cancelled \/ call[b].is_interrupted
    IN /\ call[b].pc = "loop"
       /\ batch[b].completed_jobs # batch[b].job_count
       /\ batch' = [batch EXCEPT ![b].cancelled = cancels]
       /\ call' = [call EXCEPT
             ![b].interrupted = @ \/ call[b].is_interrupted,
             ![b].discarded_queue = @ \/ cancels,
             ![b].pc = IF cancels /\ ~call[b].discarded_queue THEN "discard" ELSE "loop"]
       /\ UNCHANGED <<poolVars, worker>>

QueuedOf(b) == {j \in queue : j[1] = b}

\* Mutant: the erased jobs are not subtracted from remaining_jobs.
DiscardKeepingRemaining(b) ==
    /\ call[b].pc = "discard"
    /\ queue' = queue \ QueuedOf(b)
    /\ call' = [call EXCEPT ![b].discarded_jobs = Cardinality(QueuedOf(b)), ![b].pc = "credit"]
    /\ UNCHANGED <<batches, workers, active_codec_threads, stopping, joining, batch, worker>>

\* DiscardCancelledJobs, under the executor's lock ...
Discard(b) ==
    /\ call[b].pc = "discard"
    /\ queue' = queue \ QueuedOf(b)
    /\ batch' = [batch EXCEPT ![b].remaining_jobs = @ - Cardinality(QueuedOf(b))]
    /\ call' = [call EXCEPT ![b].discarded_jobs = Cardinality(QueuedOf(b)), ![b].pc = "credit"]
    /\ UNCHANGED <<batches, workers, active_codec_threads, stopping, joining, worker>>

\* Mutant: jobs that workers hold are credited as well.
CreditAllJobs(b) ==
    /\ call[b].pc = "credit"
    /\ batch' = [batch EXCEPT ![b].completed_jobs = batch[b].job_count]
    /\ call' = [call EXCEPT ![b].pc = "renotify"]
    /\ UNCHANGED <<poolVars, worker>>

\* ... then under the batch's result_lock ...
CreditDiscarded(b) ==
    /\ call[b].pc = "credit"
    /\ batch' = [batch EXCEPT ![b].completed_jobs = @ + call[b].discarded_jobs]
    /\ call' = [call EXCEPT ![b].pc = "renotify"]
    /\ UNCHANGED <<poolVars, worker>>

\* ... then the notifications, after which the loop goes on.
Renotify(b) ==
    /\ call[b].pc = "renotify"
    /\ call' = [call EXCEPT ![b].pc = "loop"]
    /\ worker' = NotifyAll(worker)
    /\ UNCHANGED <<poolVars, batch>>

\* The loop ends; an interrupt goes before an error, an error before the results.
Finish(b) ==
    /\ call[b].pc = "loop"
    /\ batch[b].completed_jobs = batch[b].job_count
    /\ call' = [call EXCEPT ![b].pc =
          IF call[b].interrupted \/ call[b].is_interrupted THEN "interrupted"
          ELSE IF batch[b].error # "none" THEN "failed" ELSE "returned"]
    /\ UNCHANGED <<poolVars, batch, worker>>

\* The user interrupts the query that called Execute.
Interrupt(b) ==
    /\ call[b].pc \in Active /\ ~call[b].is_interrupted
    /\ call' = [call EXCEPT ![b].is_interrupted = TRUE]
    /\ UNCHANGED <<poolVars, batch, worker>>

-----------------------------------------------------------------------------
(* WorkerLoop and CompleteJob *)

Admissible(j) ==
    LET b == batch[j[1]]
    IN /\ b.active_workers < b.max_workers
       /\ b.active_codec_threads + CodecThreads(j) <= b.codec_thread_budget
       /\ WithinGlobalCapacity(CodecThreads(j))

Precedes(i, j) == \/ batch[i[1]].ticket < batch[j[1]].ticket
                  \/ i[1] = j[1] /\ i[2] < j[2]

\* A worker has the lock and takes a job: of a cancelled batch without a reservation,
\* else within the budgets.  Looking at the capacity drops the batches that have
\* finished.  `cancelled' is not protected by the lock, so a flag raised during the
\* scan may be missed for the jobs already passed: only an admissible job is never
\* passed over.
TakeJob(w) ==
    /\ w \in workers /\ worker[w].pc = "ready"
    /\ \E j \in queue :
          LET reserves == ~batch[j[1]].cancelled
          IN /\ reserves => Admissible(j)
             /\ \A i \in queue : Precedes(i, j) => ~Admissible(i)
             /\ queue' = queue \ {j}
             /\ worker' = [worker EXCEPT ![w].pc = "taken", ![w].job = j,
                                         ![w].reserved_budget = reserves]
             /\ IF reserves
                THEN /\ batch' = [batch EXCEPT
                           ![j[1]].active_workers = @ + 1,
                           ![j[1]].active_codec_threads = @ + CodecThreads(j)]
                     /\ active_codec_threads' = active_codec_threads + CodecThreads(j)
                ELSE UNCHANGED <<batch, active_codec_threads>>
    /\ batches' = Live
    /\ UNCHANGED <<workers, stopping, joining, call>>

\* Mutant: a worker that finds nothing looks again while the executor stops.
IdleAgain(w) ==
    /\ w \in workers /\ worker[w].pc = "ready"
    /\ \A j \in queue : ~Admissible(j)
    /\ batches' = Live
    /\ worker' = [worker EXCEPT ![w].pc = IF stopping THEN "ready" ELSE "asleep"]
    /\ UNCHANGED <<queue, workers, active_codec_threads, stopping, joining, batch, call>>

\* Nothing to take: leave when the executor stops, else wait on work_cv.
Idle(w) ==
    /\ w \in workers /\ worker[w].pc = "ready"
    /\ \A j \in queue : ~Admissible(j)
    /\ batches' = Live
    /\ worker' = [worker EXCEPT ![w].pc = IF stopping THEN "exited" ELSE "asleep"]
    /\ UNCHANGED <<queue, workers, active_codec_threads, stopping, joining, batch, call>>

\* A job whose batch was cancelled meanwhile is not encoded and has no error.
BeginEncoding(w) ==
    /\ worker[w].pc = "taken"
    /\ worker' = [worker EXCEPT ![w].pc =
          IF batch[worker[w].job[1]].cancelled THEN "releasing" ELSE "encoding"]
    /\ UNCHANGED <<poolVars, batch, call>>

\* EncodeVideo succeeds, throws its own error, or sees options.cancelled and throws
\* an InterruptException.
FinishEncoding(w) ==
    /\ worker[w].pc = "encoding"
    /\ \E o \in {"ok", "codec", "interrupt"} :
          /\ o = "interrupt" => batch[worker[w].job[1]].cancelled
          /\ worker' = [worker EXCEPT ![w].outcome = o,
                                      ![w].pc = IF o = "ok" THEN "releasing" ELSE "settling"]
    /\ UNCHANGED <<poolVars, batch, call>>

\* Mutants: whose error is recorded does not depend on the flag, or is inverted.
RecordsEvery(was_cancelled) == TRUE
RecordsLater(was_cancelled) == was_cancelled

\* The error is recorded by the worker whose exchange found the flag down.
Records(was_cancelled) == ~was_cancelled

\* batch.cancelled.exchange(true) after a failure
CancelBatch(w) ==
    LET b == worker[w].job[1]
    IN /\ worker[w].pc = "settling"
       /\ batch' = [batch EXCEPT ![b].cancelled = TRUE]
       /\ worker' = [worker EXCEPT ![w].pc =
             IF Records(batch[b].cancelled) THEN "recording" ELSE "releasing"]
       /\ UNCHANGED <<poolVars, call>>

RecordError(w) ==
    /\ worker[w].pc = "recording"
    /\ batch' = [batch EXCEPT ![worker[w].job[1]].error = worker[w].outcome]
    /\ worker' = [worker EXCEPT ![w].pc = "releasing"]
    /\ UNCHANGED <<poolVars, call>>

\* Mutant: budget is given back for a job taken without a reservation.
AlwaysHasReservation(w) == TRUE

HasReservation(w) == worker[w].reserved_budget

\* The lock again: give the reservation back, count the job down.
ReleaseBudget(w) ==
    LET b == worker[w].job[1]
        given_back == IF HasReservation(w) THEN 1 ELSE 0
        threads == given_back * CodecThreads(worker[w].job)
    IN /\ worker[w].pc = "releasing"
       /\ batch' = [batch EXCEPT ![b].active_workers = @ - given_back,
                                 ![b].active_codec_threads = @ - threads,
                                 ![b].remaining_jobs = @ - 1]
       /\ active_codec_threads' = active_codec_threads - threads
       /\ worker' = [worker EXCEPT ![w].pc = "publishing", ![w].reserved_budget = FALSE]
       /\ UNCHANGED <<queue, batches, workers, stopping, joining, call>>

\* The batch's result_lock: keep the result of an encoded job of an uncancelled batch,
\* count the job as completed.
PublishResult(w) ==
    LET b == worker[w].job[1]
        stored == IF worker[w].outcome = "ok" /\ ~batch[b].cancelled
                  THEN {worker[w].job[2]} ELSE {}
    IN /\ worker[w].pc = "publishing"
       /\ batch' = [batch EXCEPT ![b].results = @ \cup stored, ![b].completed_jobs = @ + 1]
       /\ worker' = [worker EXCEPT ![w].pc = "notifying"]
       /\ UNCHANGED <<poolVars, call>>

\* The notifications; the next turn of WorkerLoop starts with a fresh job variable.
NotifyCompleted(w) ==
    /\ worker[w].pc = "notifying"
    /\ worker' = [NotifyAll(worker) EXCEPT ![w].pc = "ready", ![w].job = NoJob,
                                           ![w].outcome = "none"]
    /\ UNCHANGED <<poolVars, batch, call>>

-----------------------------------------------------------------------------
(* The destructor.  It runs when the database goes away, after every call   *)
(* has given its reference back.                                            *)

\* A batch is still there when a worker refers to it.
WorkersWith(b, stages) == {w \in Workers : worker[w].pc \in stages /\ worker[w].job[1] = b}

Stop ==
    /\ ~stopping /\ \A b \in Batches : call[b].pc \notin Active
    /\ stopping' = TRUE
    /\ batch' = [b \in Batches |->
          [batch[b] EXCEPT !.cancelled = @ \/ (b \in batches /\ WorkersWith(b, Carrying) # {})]]
    /\ UNCHANGED <<queue, batches, workers, active_codec_threads, joining, call, worker>>

StopNotify ==
    /\ stopping /\ ~joining
    /\ joining' = TRUE
    /\ worker' = NotifyAll(worker)
    /\ UNCHANGED <<queue, batches, workers, active_codec_threads, stopping, batch, call>>

\* Every thread has been joined: nothing more happens.
Terminated ==
    /\ joining /\ \A w \in workers : worker[w].pc = "exited"
    /\ UNCHANGED vars

CallerStep(b) ==
    \/ NotifyEnqueued(b) \/ Poll(b) \/ Finish(b)
    \/ Discard(b) \/ CreditDiscarded(b) \/ Renotify(b)

WorkerStep(w) ==
    \/ TakeJob(w) \/ Idle(w)
    \/ BeginEncoding(w) \/ FinishEncoding(w)
    \/ CancelBatch(w) \/ RecordError(w)
    \/ ReleaseBudget(w) \/ PublishResult(w) \/ NotifyCompleted(w)

Next ==
    \/ \E b \in Batches :
          \/ ExecuteEmpty(b) \/ ExecuteRejected(b)
          \/ \E r \in Requests[b] : Enqueue(b, r) \/ EnqueueFails(b, r)
          \/ CallerStep(b) \/ Interrupt(b)
    \/ \E w \in Workers : WorkerStep(w)
    \/ Stop \/ StopNotify \/ Terminated

Spec == Init /\ [][Next]_vars

\* Threads are scheduled and EncodeVideo returns.  Nothing obliges a query to call
\* Execute, a user to interrupt it, or the database to be closed.
FairSpec ==
    /\ Spec
    /\ \A b \in Batches : WF_vars(CallerStep(b))
    /\ \A w \in Workers : WF_vars(WorkerStep(w))
    /\ WF_vars(StopNotify)

-----------------------------------------------------------------------------
(* Safety *)

\* As long as a COPY has a worker running, all codec threads of the process together
\* stay within the DuckDB thread limit that COPY started under, even when other COPYs
\* started under a larger one.
HostBudgetRespected ==
    \A b \in Batches :
       batch[b].active_workers > 0 => active_codec_threads <= batch[b].host_thread_budget

Reserving == {w \in Workers : worker[w].reserved_budget}
ReservingFor(b) == {w \in Reserving : worker[w].job[1] = b}
ReservedThreads(ws) == {s \in ws \X (1..MaxThreads) : s[2] <= CodecThreads(worker[s[1]].job)}

\* The three counters are exactly the reservations that workers hold, so no release can
\* make one of these unsigned counters wrap, and none is left behind by an error, a
\* cancellation or a job taken without a reservation; a batch stays in its own limits.
ReservationsAccounted ==
    /\ active_codec_threads = Cardinality(ReservedThreads(Reserving))
    /\ \A b \in Batches :
          /\ batch[b].active_workers = Cardinality(ReservingFor(b))
          /\ batch[b].active_codec_threads = Cardinality(ReservedThreads(ReservingFor(b)))
          /\ batch[b].active_workers <= batch[b].max_workers
          /\ batch[b].active_codec_threads <= batch[b].codec_thread_budget

\* Every job of an accepted call is in exactly one place: queued, with a worker, erased
\* and waiting to be credited, or completed.  remaining_jobs counts the first two;
\* completed_jobs therefore meets the number of jobs, and cannot jump over it, which
\* would leave the loop of Execute (`completed_jobs != results.size()') spinning.
JobsAccounted ==
    \A b \in Batches :
       /\ batch[b].remaining_jobs =
             Cardinality(QueuedOf(b)) + Cardinality(WorkersWith(b, Holding))
       /\ batch[b].job_count =
             batch[b].completed_jobs + batch[b].remaining_jobs
             + Cardinality(WorkersWith(b, {"publishing"}))
             + (IF call[b].pc = "credit" THEN call[b].discarded_jobs ELSE 0)

\* When Execute has returned or thrown, no worker still uses what it borrowed from the
\* caller (the FileSystem, the paths), none of its jobs is queued, and its share of the
\* codec threads has been given back: completion is published after the release.
NothingBorrowedAfterReturn ==
    \A b \in Batches : call[b].pc \in Done =>
       /\ QueuedOf(b) = {}
       /\ WorkersWith(b, Carrying \ {"notifying"}) = {}
       /\ batch[b].active_workers = 0

\* Execute reports what happened: it returns results only when every job was encoded and
\* stored, never a default-constructed one of a failed or cancelled job; and the error it
\* rethrows is one that encoding raised, never the InterruptException that the cancellation
\* provoked in a sibling job.
OutcomeIsTrue ==
    \A b \in Batches :
       /\ call[b].pc = "returned" => batch[b].results = 1..batch[b].job_count
       /\ batch[b].error # "interrupt"

\* Workers are created only when jobs are enqueued, so at every moment the pool must
\* already be as large as the batches still alive can use once others have finished.
PoolPrepared == \A n \in DesiredWorkers(Live, batch) : n <= Cardinality(workers)

-----------------------------------------------------------------------------
(* Liveness *)

\* Every call of Execute comes back, whatever fails or is interrupted, and even when its
\* jobs must wait for the budget of other COPYs.
EveryCallReturns == \A b \in Batches : call[b].pc \in Active ~> call[b].pc \in Done

\* The destructor's joins come back: no worker sleeps through the stop.
WorkersJoin == stopping ~> \A w \in workers : worker[w].pc = "exited"

=============================================================================
