------------------------- MODULE VideoFramesProofs -------------------------
(***************************************************************************)
(* What the parallel scan keeps for any number of producers, consumers,    *)
(* shards, queries and for any limits: the count of pending targets is     *)
(* exact, a shard has one consumer, no target is emitted twice, no failure *)
(* shortens a result, and, unless a LIMIT drops a consumer, a blocked      *)
(* producer always leaves something to claim.                              *)
(***************************************************************************)
EXTENDS VideoFrames, FiniteSetTheorems, SequenceTheorems, TLAPS

-----------------------------------------------------------------------------
(* The invariant *)

N == Cardinality(Producers)
ProducerSteps ==
    {"loop", "stop", "queue", "queueing", "blocked", "fetch", "opening", "fail", "finish", "done"}
Task ==
    [pc : ProducerSteps, next_query : Nat \ {0}, query : 0..Len(FrameQueries), row : Nat,
     pending : Seq(Targets), connected : BOOLEAN, exception : {"none", "interrupt", "source"}]

Distinct(q) == \A i, k \in 1..Len(q) : q[i] = q[k] => i = k

\* Where a task is in its queries; stopped says that the scan has.
TaskOK(p, task, stopped) ==
    /\ task.next_query % N = p % N
    /\ task.query = 0 => task.row = 0 /\ task.pending = <<>>
    /\ task.query # 0 => /\ task.row <= Len(FrameQueries[task.query])
                         /\ task.next_query = task.query + N
    /\ task.row = 0 => task.pending = <<>>
    /\ task.row # 0 => Range(task.pending) \subseteq Range(FrameQueries[task.query][task.row])
    /\ Distinct(task.pending)
    /\ task.pc \in {"fetch", "opening"} => task.pending = <<>>
    /\ task.pc = "opening" => task.query # 0
    /\ task.pc = "fail" => task.exception # "none"
    /\ task.pc \in {"finish", "done"} /\ ~stopped =>
          task.query = 0 /\ task.next_query > Len(FrameQueries)

\* The targets a producer has not queued: those of the rest of its row, of the rows after it
\* and of its queries after this one.
Unread(p, task) ==
    {x \in Targets : \E q \in DOMAIN FrameQueries : \E r \in DOMAIN FrameQueries[q] :
        /\ x \in Range(FrameQueries[q][r]) /\ q % N = p % N
        /\ q >= task.next_query \/ (q = task.query /\ r > task.row)}
Ahead(p, task) == Unread(p, task) \cup Range(task.pending)

TaskInv ==
    /\ producer \in [Producers -> Task] /\ lock \in Producers \cup {NoTask}
    /\ stop_requested \in BOOLEAN
    /\ \A p \in Producers : TaskOK(p, producer[p], stop_requested)
    /\ \A p \in Producers : producer[p].pc = "queueing" <=> lock = p

Running == {p \in Producers : producer[p].pc # "done"}
RunInv ==
    /\ active_producers = Cardinality(Running) /\ source_exhausted = (active_producers = 0)
    /\ blocked_producers \in SUBSET Producers
    /\ \A p \in blocked_producers : cancelled \/ producer[p].pc = "blocked"

\* The targets in two buffers are not the same, and the list names the partial ones.
QueuedIn(partial, ready) ==
    (UNION {partial[s] : s \in Shards}) \cup (UNION {ready[i].targets : i \in DOMAIN ready})
BufferType == [shard : Shards, targets : SUBSET Targets]
Listed(lru, s) == \E i \in 1..Len(lru) : lru[i] = s
QueueOK(partial, lru, ready, count) ==
    /\ partial \in [Shards -> SUBSET Targets] /\ lru \in Seq(Shards) /\ ready \in Seq(BufferType)
    /\ \A s \in Shards : \A t \in partial[s] : t.shard = s
    /\ \A i \in 1..Len(ready) :
          ready[i].targets # {} /\ \A t \in ready[i].targets : t.shard = ready[i].shard
    /\ \A i, k \in 1..Len(ready) : i # k => ready[i].targets \cap ready[k].targets = {}
    /\ \A i \in 1..Len(ready) : \A s \in Shards : ready[i].targets \cap partial[s] = {}
    /\ \A s \in Shards : partial[s] # {} <=> Listed(lru, s)
    /\ Distinct(lru)
    /\ count = Cardinality(QueuedIn(partial, ready)) /\ count <= MaxPendingTargets
QueueInv == QueueOK(partial_buffers, partial_lru, ready_buffers, pending_target_count)

ConsumerType ==
    [pc : {"claim", "wait", "decode", "finished", "failed", "dropped"},
     buffer : [shard : Shards \cup {"none"}, targets : SUBSET Targets]]
ConsumerOK(local) ==
    /\ local.pc # "decode" => local.buffer = NoBuffer
    /\ local.pc = "decode" =>
          local.buffer.shard \in Shards /\ \A t \in local.buffer.targets : t.shard = local.buffer.shard

\* A shard stays busy only if a consumer that decoded it was dropped.
ScanInv ==
    /\ consumer \in [Consumers -> ConsumerType] /\ busy_shards \in SUBSET Shards
    /\ \A c \in Consumers : ConsumerOK(consumer[c])
    /\ OneConsumerPerShard
    /\ (\A c \in Consumers : consumer[c].pc # "dropped") =>
          \A s \in busy_shards : \E c \in Consumers :
             consumer[c].pc = "decode" /\ consumer[c].buffer.shard = s

Claimed == UNION {consumer[c].buffer.targets : c \in Consumers}
PlaceInv ==
    /\ emitted \in SUBSET Targets
    /\ Queued \cap Claimed = {} /\ Queued \cap emitted = {} /\ Claimed \cap emitted = {}
    /\ \A p \in Producers : Ahead(p, producer[p]) \cap (Queued \cup Claimed \cup emitted) = {}

\* Nothing was lost so far.
Undisturbed == ~interrupted /\ ~cancelled
Whole == \A t \in Targets : \/ t \in Queued \cup Claimed \cup emitted
                            \/ \E p \in Producers : t \in Ahead(p, producer[p])

HostInv ==
    /\ interrupted \in BOOLEAN /\ cancelled \in BOOLEAN /\ destroyed \in BOOLEAN
    /\ destroyed => \A c \in Consumers : consumer[c].pc \in Ended
    /\ \A c \in Consumers : consumer[c].pc = "dropped" => interrupted \/ cancelled \/ EarlyStop
\* In an undisturbed scan only an error or its end stops the producers.
StopInv ==
    /\ Undisturbed /\ ~destroyed /\ stop_requested => error # "none"
    /\ \A p \in Producers : producer[p].pc = "stop" => interrupted \/ stop_requested
FinishInv ==
    /\ \A c \in Consumers :
          Undisturbed /\ consumer[c].pc = "finished" => source_exhausted /\ error = "none"
    /\ source_exhausted => \A s \in Shards : partial_buffers[s] = {}
BlockInv == blocked_producers # {} /\ ~stop_requested => ready_buffers # <<>>
WholeInv ==
    /\ Undisturbed /\ ~stop_requested
    /\ \A c \in Consumers : consumer[c].pc \notin {"dropped", "failed"}
    => Whole
EndInv == HostInv /\ StopInv /\ FinishInv /\ BlockInv /\ WholeInv /\ NoSilentTruncation

IInv == TaskInv /\ RunInv /\ QueueInv /\ ScanInv /\ PlaceInv /\ EndInv

-----------------------------------------------------------------------------
(* Which producer reads a query *)

LEMMA Multiple ==
    ASSUME NEW n \in Nat \ {0}, NEW k \in Int, n * k < n, n * k > -n
    PROVE  k = 0
<1>1. k >= 1 => n * k >= n
  OBVIOUS
<1>2. k <= -1 => n * k <= -n
  OBVIOUS
<1> QED
  BY <1>1, <1>2

LEMMA Divided ==
    ASSUME NEW n \in Nat \ {0}, NEW q \in Int
    PROVE  q = n * (q \div n) + (q % n) /\ q % n \in 0..(n - 1) /\ q \div n \in Int
OBVIOUS

LEMMA SameClass ==
    ASSUME NEW n \in Nat \ {0}, NEW q \in Int, NEW r \in Int, q % n = r % n, q < r + n, q > r - n
    PROVE  q = r
<1>1. q = n * (q \div n) + (q % n) /\ q \div n \in Int /\ q % n \in Int
  BY Divided
<1>2. r = n * (r \div n) + (r % n) /\ r \div n \in Int /\ r % n \in Int
  BY Divided
<1> DEFINE k == (q \div n) - (r \div n)
<1>3. k \in Int /\ n * k = q - r
  <2>1. n * k = n * (q \div n) - n * (r \div n)
    BY <1>1, <1>2
  <2> QED
    BY <2>1, <1>1, <1>2
<1>4. k = 0
  BY <1>3, Multiple
<1> QED
  BY <1>3, <1>4

LEMMA NextOfClass ==
    ASSUME NEW n \in Nat \ {0}, NEW q \in Int
    PROVE  (q + n) % n = q % n
<1>1. q = n * (q \div n) + (q % n) /\ q % n \in 0..(n - 1) /\ q \div n \in Int
  BY Divided
<1>2. /\ q + n = n * ((q + n) \div n) + ((q + n) % n)
      /\ (q + n) % n \in 0..(n - 1) /\ (q + n) \div n \in Int
  BY Divided, q + n \in Int
<1> DEFINE k == (q + n) \div n - (q \div n) - 1
<1>3. k \in Int /\ n * k = (q % n) - ((q + n) % n)
  <2>1. n * k = n * ((q + n) \div n) - n * (q \div n) - n
    BY <1>1, <1>2
  <2> QED
    BY <2>1, <1>1, <1>2
<1>4. k = 0
  BY <1>3, <1>1, <1>2, Multiple
<1> QED
  BY <1>3, <1>4, <1>1, <1>2

LEMMA Workers ==
    /\ N \in Nat /\ Producers = 1..N /\ IsFiniteSet(Producers)
    /\ \A p \in Producers : N \in Nat \ {0} /\ p \in Nat \ {0}
    /\ Len(FrameQueries) \in Nat /\ DOMAIN FrameQueries = 1..Len(FrameQueries)
    /\ Len(FrameQueries) # 0 => N \in Nat \ {0}
<1> DEFINE k == IF ProducerThreads <= Len(FrameQueries) THEN ProducerThreads ELSE Len(FrameQueries)
<1>1. FrameQueries \in Seq(Seq(Seq(Targets)))
  BY QueriesAssumption
<1>2. Len(FrameQueries) \in Nat /\ DOMAIN FrameQueries = 1..Len(FrameQueries)
  BY <1>1
<1>3. k \in Nat /\ Producers = 1..k /\ (Len(FrameQueries) # 0 => k # 0)
  BY <1>2, BudgetAssumption DEF Producers
<1> HIDE DEF k
<1>4. IsFiniteSet(1..k) /\ Cardinality(1..k) = k
  <2>1. IsFiniteSet(1..k) /\ Cardinality(1..k) = IF 1 > k THEN 0 ELSE k - 1 + 1
    BY <1>3, FS_Interval
  <2> QED
    BY <2>1, <1>3
<1>5. N = k
  BY <1>3, <1>4 DEF N
<1>6. ASSUME NEW p \in Producers PROVE N \in Nat \ {0} /\ p \in Nat \ {0}
  BY <1>3, <1>5
<1> QED
  BY <1>2, <1>3, <1>4, <1>5, <1>6

LEMMA OneOwner ==
    ASSUME NEW p1 \in Producers, NEW p2 \in Producers, p1 % N = p2 % N
    PROVE  p1 = p2
<1>1. N \in Nat \ {0} /\ p1 \in 1..N /\ p2 \in 1..N
  BY Workers
<1>2. p1 < p2 + N /\ p1 > p2 - N /\ p1 \in Int /\ p2 \in Int
  BY <1>1
<1> HIDE DEF N
<1> QED
  BY <1>1, <1>2, SameClass

LEMMA HasOwner ==
    ASSUME NEW q \in DOMAIN FrameQueries
    PROVE  \E p \in Producers : q % N = p % N
<1>1. N \in Nat \ {0} /\ q \in Nat \ {0} /\ Producers = 1..N
  BY Workers
<1> HIDE DEF N
<1>2. q % N \in 0..(N - 1)
  BY <1>1
<1>3. CASE q % N = 0
  <2>1. (0 + N) % N = 0 % N /\ 0 + N = N
    BY <1>1, NextOfClass
  <2>2. 0 % N = 0
    BY <1>1
  <2>3. N \in Producers
    BY <1>1
  <2> QED
    BY <1>3, <2>1, <2>2, <2>3
<1>4. CASE q % N # 0
  <2>1. (q % N) % N = q % N /\ q % N \in Producers
    BY <1>1, <1>2, <1>4
  <2> QED
    BY <2>1
<1> QED
  BY <1>3, <1>4

LEMMA QueryTargets ==
    ASSUME NEW q \in DOMAIN FrameQueries
    PROVE  /\ q \in Nat \ {0} /\ Len(FrameQueries[q]) \in Nat
           /\ DOMAIN FrameQueries[q] = 1..Len(FrameQueries[q])
           /\ \A r \in DOMAIN FrameQueries[q] : /\ FrameQueries[q][r] \in Seq(Targets)
                                                /\ Range(FrameQueries[q][r]) \subseteq Targets
                                                /\ Distinct(FrameQueries[q][r])
<1>1. FrameQueries \in Seq(Seq(Seq(Targets))) /\ FrameQueries[q] \in Seq(Seq(Targets)) /\ q \in Nat \ {0}
  BY QueriesAssumption
<1>2. Len(FrameQueries[q]) \in Nat /\ DOMAIN FrameQueries[q] = 1..Len(FrameQueries[q])
  BY <1>1
<1>3. ASSUME NEW r \in DOMAIN FrameQueries[q]
      PROVE  /\ FrameQueries[q][r] \in Seq(Targets) /\ Range(FrameQueries[q][r]) \subseteq Targets
             /\ Distinct(FrameQueries[q][r])
  <2> DEFINE row == FrameQueries[q][r]
  <2>1. row \in Seq(Targets)
    BY <1>1
  <2>2. DOMAIN row = 1..Len(row) /\ \A i \in 1..Len(row) : row[i] \in Targets
    BY <2>1
  <2>3. Range(row) \subseteq Targets
    BY <2>2 DEF Range
  <2>4. \A i, k \in DOMAIN row : row[i] = row[k] => <<q, r, i>> = <<q, r, k>>
    BY QueriesAssumption
  <2>5. Distinct(row)
    BY <2>2, <2>4 DEF Distinct
  <2> QED
    BY <2>1, <2>3, <2>5
<1> QED
  BY <1>1, <1>2, <1>3

LEMMA OneRow ==
    ASSUME NEW q1 \in DOMAIN FrameQueries, NEW q2 \in DOMAIN FrameQueries,
           NEW r1 \in DOMAIN FrameQueries[q1], NEW r2 \in DOMAIN FrameQueries[q2],
           NEW x, x \in Range(FrameQueries[q1][r1]), x \in Range(FrameQueries[q2][r2])
    PROVE  q1 = q2 /\ r1 = r2
<1>1. PICK i1 \in DOMAIN FrameQueries[q1][r1] : FrameQueries[q1][r1][i1] = x
  BY DEF Range
<1>2. PICK i2 \in DOMAIN FrameQueries[q2][r2] : FrameQueries[q2][r2][i2] = x
  BY DEF Range
<1>3. <<q1, r1, i1>> = <<q2, r2, i2>>
  BY <1>1, <1>2, QueriesAssumption
<1> QED
  BY <1>3

LEMMA EveryTarget ==
    ASSUME NEW t \in Targets
   
    PROVE  \E q \in DOMAIN FrameQueries : \E r \in DOMAIN FrameQueries[q] : t \in Range(FrameQueries[q][r])
<1>1. PICK q \in DOMAIN FrameQueries : t \in TargetsOf(q)
  BY DEF Targets
<1>2. PICK r \in DOMAIN FrameQueries[q] : t \in Range(FrameQueries[q][r])
  BY <1>1 DEF TargetsOf
<1> QED
  BY <1>1, <1>2

-----------------------------------------------------------------------------
(* What is ahead of a producer *)

LEMMA TaskFacts ==
    ASSUME NEW p \in Producers, NEW task \in Task, NEW stopped, TaskOK(p, task, stopped)
    PROVE  /\ Ahead(p, task) \subseteq Targets
           /\ \A i \in 1..Len(task.pending) : task.pending[i] \in Targets
           /\ task.next_query \in Nat \ {0} /\ N \in Nat \ {0} /\ task.row \in Nat
           /\ task.query # 0 => /\ task.query \in DOMAIN FrameQueries /\ task.query < task.next_query
                                /\ task.query % N = p % N
           /\ task.query = 0 => task.query \notin DOMAIN FrameQueries
           /\ \A x \in Range(task.pending) :
                 /\ task.query \in DOMAIN FrameQueries /\ task.row \in DOMAIN FrameQueries[task.query]
                 /\ x \in Range(FrameQueries[task.query][task.row])
<1>1. /\ task.next_query \in Nat \ {0} /\ task.query \in 0..Len(FrameQueries) /\ task.row \in Nat
      /\ task.pending \in Seq(Targets)
  BY DEF Task
<1>2. /\ N \in Nat \ {0} /\ p \in Nat \ {0} /\ Len(FrameQueries) \in Nat
      /\ DOMAIN FrameQueries = 1..Len(FrameQueries)
  BY Workers
<1> HIDE DEF N
<1>3. DOMAIN task.pending = 1..Len(task.pending) /\ \A i \in 1..Len(task.pending) : task.pending[i] \in Targets
  BY <1>1
<1>4. Ahead(p, task) \subseteq Targets
  BY <1>3 DEF Ahead, Unread, Range
<1>5. ASSUME task.query # 0
      PROVE  /\ task.query \in DOMAIN FrameQueries /\ task.query < task.next_query
             /\ task.query % N = p % N
  <2>1. task.query \in DOMAIN FrameQueries /\ task.query \in Int
    BY <1>1, <1>2, <1>5
  <2>2. task.next_query = task.query + N /\ task.next_query % N = p % N
    BY <1>5 DEF TaskOK
  <2>3. (task.query + N) % N = task.query % N
    BY <1>2, <2>1, NextOfClass
  <2> QED
    BY <1>1, <1>2, <2>1, <2>2, <2>3
<1>6. task.query = 0 => task.query \notin DOMAIN FrameQueries
  BY <1>2
<1>7. ASSUME NEW x \in Range(task.pending)
      PROVE  /\ task.query \in DOMAIN FrameQueries /\ task.row \in DOMAIN FrameQueries[task.query]
             /\ x \in Range(FrameQueries[task.query][task.row])
  <2>1. task.pending # <<>>
    BY <1>3 DEF Range
  <2>2. /\ task.query # 0 /\ task.row # 0
        /\ Range(task.pending) \subseteq Range(FrameQueries[task.query][task.row])
        /\ task.row <= Len(FrameQueries[task.query])
    BY <2>1 DEF TaskOK
  <2>3. task.query \in DOMAIN FrameQueries
    BY <1>5, <2>2
  <2>4. task.row \in DOMAIN FrameQueries[task.query]
    BY <1>1, <2>2, <2>3, QueryTargets
  <2> QED
    BY <2>2, <2>3, <2>4
<1> QED
  BY <1>1, <1>2, <1>3, <1>4, <1>5, <1>6, <1>7

\* A row that is taken up leaves nothing unread behind.
LEMMA RowAhead ==
    ASSUME NEW p \in Producers, NEW task \in Task, NEW stopped, TaskOK(p, task, stopped),
           task.query # 0, task.pending = <<>>, task.row < Len(FrameQueries[task.query]),
           NEW new \in Task, new.next_query = task.next_query, new.query = task.query,
           new.row = task.row + 1, new.pending = FrameQueries[task.query][task.row + 1]
    PROVE  Ahead(p, new) = Ahead(p, task)
<1>1. /\ task.query \in DOMAIN FrameQueries /\ task.query % N = p % N
      /\ task.row \in Nat /\ task.row + 1 \in DOMAIN FrameQueries[task.query]
  BY TaskFacts, QueryTargets
<1>2. Range(new.pending) \subseteq Targets
  BY <1>1, QueryTargets
<1>3. Range(task.pending) = {}
  BY DEF Range
<1>4. ASSUME NEW x \in Unread(p, task) PROVE x \in Ahead(p, new)
  <2>1. PICK q \in DOMAIN FrameQueries : \E r \in DOMAIN FrameQueries[q] :
           /\ x \in Range(FrameQueries[q][r]) /\ q % N = p % N
           /\ q >= task.next_query \/ (q = task.query /\ r > task.row)
    BY DEF Unread
  <2>2. PICK r \in DOMAIN FrameQueries[q] :
           /\ x \in Range(FrameQueries[q][r]) /\ q % N = p % N
           /\ q >= task.next_query \/ (q = task.query /\ r > task.row)
    BY <2>1
  <2>3. x \in Targets /\ r \in Nat
    BY <2>2, QueryTargets
  <2>4. CASE q >= task.next_query \/ (q = task.query /\ r > task.row + 1)
    BY <2>2, <2>3, <2>4 DEF Ahead, Unread
  <2>5. CASE q = task.query /\ r = task.row + 1
    BY <2>2, <2>5 DEF Ahead
  <2> QED
    BY <1>1, <2>2, <2>3, <2>4, <2>5
<1>5. ASSUME NEW x \in Unread(p, new) PROVE x \in Unread(p, task)
  <2>1. PICK q \in DOMAIN FrameQueries : \E r \in DOMAIN FrameQueries[q] :
           /\ x \in Range(FrameQueries[q][r]) /\ q % N = p % N
           /\ q >= task.next_query \/ (q = task.query /\ r > task.row + 1)
    BY DEF Unread
  <2>2. PICK r \in DOMAIN FrameQueries[q] :
           /\ x \in Range(FrameQueries[q][r]) /\ q % N = p % N
           /\ q >= task.next_query \/ (q = task.query /\ r > task.row + 1)
    BY <2>1
  <2>3. x \in Targets /\ r \in Nat
    BY <2>2, QueryTargets
  <2>4. q >= task.next_query \/ (q = task.query /\ r > task.row)
    BY <1>1, <2>2, <2>3
  <2> QED
    BY <2>2, <2>3, <2>4 DEF Unread
<1>6. ASSUME NEW x \in Range(new.pending) PROVE x \in Unread(p, task)
  <2>1. x \in Targets /\ x \in Range(FrameQueries[task.query][task.row + 1]) /\ task.row + 1 > task.row
    BY <1>1, <1>2
  <2> QED
    BY <1>1, <2>1 DEF Unread
<1> QED
  BY <1>3, <1>4, <1>5, <1>6 DEF Ahead

\* Nothing is unread in a query that has ended.
LEMMA EndAhead ==
    ASSUME NEW p \in Producers, NEW task \in Task, NEW stopped, TaskOK(p, task, stopped),
           task.query # 0, task.pending = <<>>, task.row = Len(FrameQueries[task.query]),
           NEW new \in Task, new.next_query = task.next_query, new.query = 0, new.pending = <<>>
    PROVE  Ahead(p, new) = Ahead(p, task)
<1>1. task.query \in DOMAIN FrameQueries /\ 0 \notin DOMAIN FrameQueries
  BY TaskFacts, Workers
<1>2. ASSUME NEW x, NEW q \in DOMAIN FrameQueries, NEW r \in DOMAIN FrameQueries[q]
      PROVE  ~(q = task.query /\ r > task.row) /\ q # 0
  BY <1>1, QueryTargets
<1>3. Unread(p, new) = Unread(p, task)
  BY <1>2 DEF Unread
<1> QED
  BY <1>3 DEF Ahead

\* The next query of a producer is the first of those it has not read.
LEMMA QueryAhead ==
    ASSUME NEW p \in Producers, NEW task \in Task, NEW stopped, TaskOK(p, task, stopped),
           task.query = 0, task.next_query <= Len(FrameQueries),
           NEW new \in Task, new.next_query = task.next_query + N, new.query = task.next_query,
           new.row = 0, new.pending = <<>>
    PROVE  Ahead(p, new) = Ahead(p, task)
<1>1. /\ N \in Nat \ {0} /\ task.next_query \in Nat \ {0} /\ task.next_query % N = p % N
      /\ task.pending = <<>> /\ 0 \notin DOMAIN FrameQueries
  BY TaskFacts, Workers DEF TaskOK
<1> HIDE DEF N
<1>2. ASSUME NEW q \in DOMAIN FrameQueries, NEW r \in DOMAIN FrameQueries[q], q % N = p % N
      PROVE  (q >= new.next_query \/ (q = new.query /\ r > new.row)) <=>
                (q >= task.next_query \/ (q = task.query /\ r > task.row))
  <2>1. q \in Nat \ {0} /\ r \in Nat \ {0}
    BY QueryTargets
  <2>2. q # task.query
    BY <1>1
  <2>3. ASSUME q >= task.next_query, q < task.next_query + N PROVE q = task.next_query
    <3>1. q > task.next_query - N /\ q \in Int /\ task.next_query \in Int
      BY <1>1, <2>1, <2>3
    <3> QED
      BY <1>1, <1>2, <2>3, <3>1, SameClass
  <2> QED
    BY <1>1, <2>1, <2>2, <2>3
<1>3. Unread(p, new) = Unread(p, task)
  BY <1>2 DEF Unread
<1> QED
  BY <1>1, <1>3 DEF Ahead

\* The targets of a row are queued in order; each is then no longer ahead.
LEMMA HeadAhead ==
    ASSUME NEW p \in Producers, NEW task \in Task, NEW stopped, TaskOK(p, task, stopped),
           task.pending # <<>>,
           NEW new \in Task, new.next_query = task.next_query, new.query = task.query,
           new.row = task.row, new.pending = Tail(task.pending)
    PROVE  /\ Head(task.pending) \in Targets /\ Head(task.pending) \in Ahead(p, task)
           /\ Head(task.pending) \in Range(task.pending)
           /\ Ahead(p, new) = Ahead(p, task) \ {Head(task.pending)}
           /\ Range(new.pending) \subseteq Range(task.pending) /\ Distinct(new.pending)
<1> DEFINE q == task.pending
           h == Head(task.pending)
<1>1. q \in Seq(Targets) /\ Len(q) \in Nat \ {0} /\ DOMAIN q = 1..Len(q)
  BY DEF Task
<1>2. /\ h = q[1] /\ Tail(q) \in Seq(Targets) /\ Len(Tail(q)) = Len(q) - 1
      /\ DOMAIN Tail(q) = 1..(Len(q) - 1) /\ \A i \in 1..(Len(q) - 1) : Tail(q)[i] = q[i + 1]
  BY <1>1
<1>3. \A i, k \in 1..Len(q) : q[i] = q[k] => i = k
  BY DEF TaskOK, Distinct
<1>4. h \in Range(q) /\ h \in Targets
  BY <1>1, <1>2 DEF Range
<1>5. Range(Tail(q)) = Range(q) \ {h}
  <2>1. ASSUME NEW x \in Range(Tail(q)) PROVE x \in Range(q) /\ x # h
    <3>1. PICK i \in 1..(Len(q) - 1) : x = q[i + 1]
      BY <1>2 DEF Range
    <3>2. i + 1 \in 1..Len(q) /\ i + 1 # 1 /\ 1 \in 1..Len(q)
      BY <1>1
    <3> QED
      BY <1>1, <1>2, <1>3, <3>1, <3>2 DEF Range
  <2>2. ASSUME NEW x \in Range(q), x # h PROVE x \in Range(Tail(q))
    <3>1. PICK i \in 1..Len(q) : x = q[i]
      BY <1>1 DEF Range
    <3>2. i - 1 \in 1..(Len(q) - 1) /\ (i - 1) + 1 = i
      BY <1>1, <1>2, <2>2, <3>1
    <3> QED
      BY <1>2, <3>1, <3>2 DEF Range
  <2> QED
    BY <2>1, <2>2
<1>6. h \notin Unread(p, task)
  <2> SUFFICES ASSUME h \in Unread(p, task) PROVE FALSE
    OBVIOUS
  <2>1. PICK w \in DOMAIN FrameQueries : \E r \in DOMAIN FrameQueries[w] :
           /\ h \in Range(FrameQueries[w][r]) /\ w % N = p % N
           /\ w >= task.next_query \/ (w = task.query /\ r > task.row)
    BY DEF Unread
  <2>2. PICK r \in DOMAIN FrameQueries[w] :
           /\ h \in Range(FrameQueries[w][r])
           /\ w >= task.next_query \/ (w = task.query /\ r > task.row)
    BY <2>1
  <2>3. /\ task.query \in DOMAIN FrameQueries /\ task.row \in DOMAIN FrameQueries[task.query]
        /\ h \in Range(FrameQueries[task.query][task.row])
    BY <1>4, TaskFacts
  <2>4. w = task.query /\ r = task.row
    BY <2>2, <2>3, OneRow
  <2>5. task.query \in Nat \ {0} /\ task.query < task.next_query /\ task.next_query \in Nat /\ task.row \in Nat
    BY <2>3, QueryTargets, TaskFacts
  <2> QED
    BY <2>2, <2>4, <2>5
<1>7. Unread(p, new) = Unread(p, task)
  BY DEF Unread
<1>8. Ahead(p, new) = Ahead(p, task) \ {h}
  BY <1>5, <1>6, <1>7 DEF Ahead
<1>9. Distinct(Tail(q))
  <2> SUFFICES ASSUME NEW i \in 1..Len(Tail(q)), NEW k \in 1..Len(Tail(q)), Tail(q)[i] = Tail(q)[k]
               PROVE  i = k
    BY DEF Distinct
  <2>1. i + 1 \in 1..Len(q) /\ k + 1 \in 1..Len(q) /\ q[i + 1] = q[k + 1]
    BY <1>1, <1>2
  <2>2. i + 1 = k + 1
    BY <1>3, <2>1
  <2> QED
    BY <2>2, <1>2
<1> QED
  BY <1>4, <1>5, <1>8, <1>9 DEF Ahead

\* A producer that has ended by itself has nothing ahead.
LEMMA NothingAhead ==
    ASSUME NEW p \in Producers, NEW task \in Task, TaskOK(p, task, FALSE), task.pc \in {"finish",
           "done"}
    PROVE  Ahead(p, task) = {}
<1>1. /\ task.query = 0 /\ task.next_query > Len(FrameQueries) /\ task.pending = <<>>
      /\ task.next_query \in Nat
  BY TaskFacts DEF TaskOK
<1>2. ASSUME NEW q \in DOMAIN FrameQueries PROVE ~(q >= task.next_query) /\ q # task.query
  BY <1>1, Workers
<1>3. Unread(p, task) = {}
  BY <1>2 DEF Unread
<1> QED
  BY <1>1, <1>3 DEF Ahead, Range

\* No target is ahead of two producers.
LEMMA OneAhead ==
    ASSUME NEW p1 \in Producers, NEW p2 \in Producers, p1 # p2, NEW stopped,
           NEW task1 \in Task, TaskOK(p1, task1, stopped), NEW task2 \in Task, TaskOK(p2, task2,
                  stopped)
    PROVE  Ahead(p1, task1) \cap Ahead(p2, task2) = {}
<1>1. ASSUME NEW p \in Producers, NEW task \in Task, TaskOK(p, task, stopped), NEW x \in Ahead(p,
             task)
      PROVE  \E q \in DOMAIN FrameQueries : \E r \in DOMAIN FrameQueries[q] :
                x \in Range(FrameQueries[q][r]) /\ q % N = p % N
  <2>1. CASE x \in Unread(p, task)
    BY <2>1 DEF Unread
  <2>2. CASE x \in Range(task.pending)
    <3>1. /\ task.query \in DOMAIN FrameQueries /\ task.row \in DOMAIN FrameQueries[task.query]
          /\ x \in Range(FrameQueries[task.query][task.row])
      BY <1>1, <2>2, TaskFacts
    <3>2. task.query # 0
      BY <3>1, QueryTargets
    <3>3. task.query % N = p % N
      BY <1>1, <3>2, TaskFacts
    <3> QED
      BY <3>1, <3>3
  <2> QED
    BY <1>1, <2>1, <2>2 DEF Ahead
<1> SUFFICES ASSUME NEW x \in Ahead(p1, task1), x \in Ahead(p2, task2) PROVE FALSE
  OBVIOUS
<1>2. PICK q1 \in DOMAIN FrameQueries : \E r \in DOMAIN FrameQueries[q1] :
         x \in Range(FrameQueries[q1][r]) /\ q1 % N = p1 % N
  BY <1>1
<1>3. PICK q2 \in DOMAIN FrameQueries : \E r \in DOMAIN FrameQueries[q2] :
         x \in Range(FrameQueries[q2][r]) /\ q2 % N = p2 % N
  BY <1>1
<1>4. q1 = q2
  BY <1>2, <1>3, OneRow
<1> QED
  BY <1>2, <1>3, <1>4, OneOwner

-----------------------------------------------------------------------------
(* The queue *)

LEMMA RemovedFrom ==
    ASSUME NEW S, NEW q \in Seq(S), NEW p \in 1..Len(q)
    PROVE  /\ RemoveAt(q, p) \in Seq(S) /\ Len(RemoveAt(q, p)) = Len(q) - 1
           /\ \A n \in 1..(Len(q) - 1) : RemoveAt(q, p)[n] = IF n < p THEN q[n] ELSE q[n + 1]
<1> DEFINE a == SubSeq(q, 1, p - 1)
           b == SubSeq(q, p + 1, Len(q))
<1>1. Len(q) \in Nat /\ p \in Nat /\ 1 <= p /\ p <= Len(q)
  OBVIOUS
<1>2. a \in Seq(S) /\ Len(a) = p - 1 /\ \A n \in 1..(p - 1) : a[n] = q[n]
  BY <1>1
<1>3. b \in Seq(S) /\ Len(b) = Len(q) - p /\ \A n \in 1..(Len(q) - p) : b[n] = q[n + p]
  BY <1>1
<1> HIDE DEF a, b
<1>4. /\ a \o b \in Seq(S) /\ Len(a \o b) = Len(q) - 1
      /\ \A n \in 1..(Len(q) - 1) : (a \o b)[n] = IF n <= Len(a) THEN a[n] ELSE b[n - Len(a)]
  <2>1. a \o b \in Seq(S) /\ Len(a \o b) = Len(a) + Len(b)
    BY <1>2, <1>3, ConcatProperties
  <2>2. \A n \in 1..Len(a) + Len(b) : (a \o b)[n] = IF n <= Len(a) THEN a[n] ELSE b[n - Len(a)]
    BY <1>2, <1>3, ConcatProperties
  <2>3. Len(a) + Len(b) = Len(q) - 1
    BY <1>1, <1>2, <1>3
  <2> QED
    BY <2>1, <2>2, <2>3
<1>5. ASSUME NEW n \in 1..(Len(q) - 1) PROVE (a \o b)[n] = IF n < p THEN q[n] ELSE q[n + 1]
  <2>1. CASE n < p
    BY <1>1, <1>2, <1>4, <2>1
  <2>2. CASE ~(n < p)
    <3>1. n - Len(a) \in 1..(Len(q) - p) /\ (n - Len(a)) + p = n + 1
      BY <1>1, <1>2, <2>2
    <3>2. b[n - Len(a)] = q[(n - Len(a)) + p]
      BY <1>3, <3>1
    <3>3. (a \o b)[n] = b[n - Len(a)]
      BY <1>1, <1>2, <1>4, <2>2
    <3> QED
      BY <2>2, <3>1, <3>2, <3>3
  <2> QED
    BY <2>1, <2>2
<1> QED
  BY <1>4, <1>5 DEF RemoveAt, a, b

\* Every other element is still there, once.
Rest(r, q, p) ==
    /\ \A i \in 1..Len(r) : \E k \in 1..Len(q) : k # p /\ r[i] = q[k]
    /\ \A k \in 1..Len(q) : k # p => \E i \in 1..Len(r) : r[i] = q[k]
    /\ \A i, j \in 1..Len(r) : i # j =>
          \E k, l \in 1..Len(q) : k # l /\ r[i] = q[k] /\ r[j] = q[l]

LEMMA Others ==
    ASSUME NEW S, NEW q \in Seq(S), NEW p \in 1..Len(q)
    PROVE  Rest(RemoveAt(q, p), q, p)
<1> DEFINE r == RemoveAt(q, p)
           Old(n) == IF n < p THEN n ELSE n + 1
<1>1. Len(q) \in Nat /\ p \in Nat /\ 1 <= p /\ p <= Len(q)
  OBVIOUS
<1>2. Len(r) = Len(q) - 1 /\ \A n \in 1..(Len(q) - 1) : r[n] = IF n < p THEN q[n] ELSE q[n + 1]
  BY RemovedFrom
<1> HIDE DEF r
<1>3. ASSUME NEW i \in 1..(Len(q) - 1) PROVE Old(i) \in 1..Len(q) /\ Old(i) # p /\ r[i] = q[Old(i)]
  BY <1>1, <1>2
<1>4. ASSUME NEW k \in 1..Len(q), k # p PROVE \E i \in 1..(Len(q) - 1) : r[i] = q[k]
  <2>1. CASE k < p
    <3>1. k \in 1..(Len(q) - 1)
      BY <1>1, <2>1
    <3> QED
      BY <1>2, <2>1, <3>1
  <2>2. CASE k > p
    <3>1. k - 1 \in 1..(Len(q) - 1) /\ ~(k - 1 < p) /\ (k - 1) + 1 = k
      BY <1>1, <2>2
    <3> QED
      BY <1>2, <3>1
  <2> QED
    BY <1>1, <1>4, <2>1, <2>2
<1>5. ASSUME NEW i \in 1..(Len(q) - 1), NEW j \in 1..(Len(q) - 1), i # j PROVE Old(i) # Old(j)
  BY <1>1, <1>5
<1> HIDE DEF Old
<1>6. \A i \in 1..(Len(q) - 1) : \E k \in 1..Len(q) : k # p /\ r[i] = q[k]
  BY <1>3
<1>7. \A i, j \in 1..(Len(q) - 1) : i # j =>
         \E k, l \in 1..Len(q) : k # l /\ r[i] = q[k] /\ r[j] = q[l]
  <2> SUFFICES ASSUME NEW i \in 1..(Len(q) - 1), NEW j \in 1..(Len(q) - 1), i # j
               PROVE  \E k, l \in 1..Len(q) : k # l /\ r[i] = q[k] /\ r[j] = q[l]
    OBVIOUS
  <2>1. Old(i) # Old(j)
    BY <1>5
  <2> QED
    BY <1>3, <2>1
<1>8. Rest(r, q, p)
  <2>1. Len(r) = Len(q) - 1
    BY <1>2
  <2>2. \A k \in 1..Len(q) : k # p => \E i \in 1..Len(r) : r[i] = q[k]
    BY <1>4, <2>1
  <2>3. \A i \in 1..Len(r) : \E k \in 1..Len(q) : k # p /\ r[i] = q[k]
    BY <1>6, <2>1
  <2>4. ASSUME NEW i \in 1..Len(r), NEW j \in 1..Len(r), i # j
        PROVE  \E k, l \in 1..Len(q) : k # l /\ r[i] = q[k] /\ r[j] = q[l]
    <3>1. i \in 1..(Len(q) - 1) /\ j \in 1..(Len(q) - 1)
      BY <2>1
    <3> QED
      BY <1>7, <2>4, <3>1
  <2> QED
    BY <2>2, <2>3, <2>4, Zenon DEF Rest
<1> QED
  BY <1>8 DEF r

\* The entry of a shard is taken out of the list, or put at its front.
LEMMA ListWithout ==
    ASSUME partial_lru \in Seq(Shards), Distinct(partial_lru), NEW s \in Shards
    PROVE  /\ Without(s) \in Seq(Shards) /\ Distinct(Without(s))
           /\ \A x : Listed(Without(s), x) <=> x # s /\ Listed(partial_lru, x)
<1>1. Len(partial_lru) \in Nat /\ DOMAIN partial_lru = 1..Len(partial_lru)
  OBVIOUS
<1>2. s \in Range(partial_lru) <=> Listed(partial_lru, s)
  BY <1>1 DEF Range, Listed
<1>3. CASE ~Listed(partial_lru, s)
  <2>1. Without(s) = partial_lru
    BY <1>2, <1>3 DEF Without
  <2> QED
    BY <1>3, <2>1 DEF Listed
<1>4. CASE Listed(partial_lru, s)
  <2> DEFINE p == CHOOSE i \in DOMAIN partial_lru : partial_lru[i] = s
  <2>1. p \in 1..Len(partial_lru) /\ partial_lru[p] = s
    BY <1>1, <1>4 DEF Listed
  <2>2. Without(s) = RemoveAt(partial_lru, p)
    BY <1>2, <1>4 DEF Without
  <2> HIDE DEF p
  <2> DEFINE r == RemoveAt(partial_lru, p)
  <2>3. r \in Seq(Shards) /\ Len(r) = Len(partial_lru) - 1
    BY <2>1, RemovedFrom
  <2>4. /\ \A i \in 1..Len(r) : \E k \in 1..Len(partial_lru) : k # p /\ r[i] = partial_lru[k]
        /\ \A k \in 1..Len(partial_lru) : k # p => \E i \in 1..Len(r) : r[i] = partial_lru[k]
        /\ \A i, j \in 1..Len(r) : i # j =>
              \E k, l \in 1..Len(partial_lru) : k # l /\ r[i] = partial_lru[k] /\ r[j] = partial_lru[l]
    <3>1. Rest(r, partial_lru, p)
      BY <2>1, Others
    <3> HIDE DEF r
    <3> QED
      BY <3>1 DEF Rest
  <2> HIDE DEF r
  <2>5. \A i, k \in 1..Len(partial_lru) : partial_lru[i] = partial_lru[k] => i = k
    BY DEF Distinct
  <2>6. Distinct(r)
    <3> SUFFICES ASSUME NEW i \in 1..Len(r), NEW j \in 1..Len(r), i # j PROVE r[i] # r[j]
      BY DEF Distinct
    <3>1. PICK k \in 1..Len(partial_lru) : \E l \in 1..Len(partial_lru) :
             k # l /\ r[i] = partial_lru[k] /\ r[j] = partial_lru[l]
      BY <2>4
    <3> QED
      BY <2>5, <3>1
  <2>7. ASSUME NEW x PROVE Listed(r, x) <=> x # s /\ Listed(partial_lru, x)
    <3>1. ASSUME Listed(r, x) PROVE x # s /\ Listed(partial_lru, x)
      <4>1. PICK i \in 1..Len(r) : r[i] = x
        BY <3>1 DEF Listed
      <4>2. PICK k \in 1..Len(partial_lru) : k # p /\ r[i] = partial_lru[k]
        BY <2>4
      <4> QED
        BY <2>1, <2>5, <4>1, <4>2 DEF Listed
    <3>2. ASSUME x # s, Listed(partial_lru, x) PROVE Listed(r, x)
      <4>1. PICK k \in 1..Len(partial_lru) : partial_lru[k] = x
        BY <3>2 DEF Listed
      <4> QED
        BY <2>1, <2>4, <3>2, <4>1 DEF Listed
    <3> QED
      BY <3>1, <3>2
  <2> QED
    BY <2>2, <2>3, <2>6, <2>7 DEF r
<1> QED
  BY <1>3, <1>4

\* The list names one more shard than another one.
Adds(lru2, lru, s) ==
    /\ lru2 \in Seq(Shards) /\ Distinct(lru2)
    /\ \A x : Listed(lru2, x) <=> x = s \/ Listed(lru, x)

LEMMA ListTouched ==
    ASSUME partial_lru \in Seq(Shards), Distinct(partial_lru), NEW s \in Shards
    PROVE  Adds(Touched(s), partial_lru, s)
<1> DEFINE w == Without(s)
           t == <<s>> \o w
<1>1. w \in Seq(Shards) /\ Distinct(w) /\ \A x : Listed(w, x) <=> x # s /\ Listed(partial_lru, x)
  BY ListWithout
<1> HIDE DEF w
<1>2. /\ t \in Seq(Shards) /\ Len(t) = Len(w) + 1 /\ Len(w) \in Nat
      /\ t[1] = s /\ \A i \in 1..Len(w) : t[i + 1] = w[i]
  BY <1>1
<1> HIDE DEF t
<1>3. \A i \in 1..Len(t) : i = 1 \/ (i - 1 \in 1..Len(w) /\ (i - 1) + 1 = i)
  BY <1>2
<1>4. \A i \in 1..Len(w) : i + 1 \in 1..Len(t)
  BY <1>2
<1>5. \A i \in 1..Len(t) : t[i] = IF i = 1 THEN s ELSE w[i - 1]
  BY <1>2, <1>3
<1>6. \A i \in 1..Len(w) : w[i] # s
  BY <1>1 DEF Listed
<1>7. Distinct(t)
  <2> SUFFICES ASSUME NEW i \in 1..Len(t), NEW k \in 1..Len(t), t[i] = t[k] PROVE i = k
    BY DEF Distinct
  <2>1. CASE i = 1 \/ k = 1
    BY <1>3, <1>5, <1>6, <2>1
  <2>2. CASE i # 1 /\ k # 1
    <3>1. i - 1 \in 1..Len(w) /\ k - 1 \in 1..Len(w) /\ w[i - 1] = w[k - 1]
      BY <1>3, <1>5, <2>2
    <3>2. i - 1 = k - 1
      BY <1>1, <3>1 DEF Distinct
    <3> QED
      BY <1>2, <3>2
  <2> QED
    BY <2>1, <2>2
<1>8. ASSUME NEW x PROVE Listed(t, x) <=> x = s \/ Listed(partial_lru, x)
  <2>1. ASSUME Listed(t, x) PROVE x = s \/ Listed(w, x)
    <3>1. PICK i \in 1..Len(t) : t[i] = x
      BY <2>1 DEF Listed
    <3> QED
      BY <1>3, <1>5, <3>1 DEF Listed
  <2>2. ASSUME x = s PROVE Listed(t, x)
    <3>1. 1 \in 1..Len(t)
      BY <1>2
    <3> QED
      BY <1>2, <2>2, <3>1 DEF Listed
  <2>3. ASSUME Listed(w, x) PROVE Listed(t, x)
    <3>1. PICK i \in 1..Len(w) : w[i] = x
      BY <2>3 DEF Listed
    <3> QED
      BY <1>2, <1>4, <3>1 DEF Listed
  <2> QED
    BY <1>1, <2>1, <2>2, <2>3
<1> QED
  BY <1>2, <1>7, <1>8 DEF Adds, Touched, t, w

LEMMA QueuedOf ==
    ASSUME NEW partial, NEW ready \in Seq(BufferType)
    PROVE  \A x : x \in QueuedIn(partial, ready) <=>
              \/ \E s \in Shards : x \in partial[s]
              \/ \E i \in 1..Len(ready) : x \in ready[i].targets
<1> DEFINE A == UNION {partial[s] : s \in Shards}
           B == UNION {ready[i].targets : i \in DOMAIN ready}
<1>1. DOMAIN ready = 1..Len(ready)
  OBVIOUS
<1>2. \A x : x \in A <=> \E s \in Shards : x \in partial[s]
  OBVIOUS
<1>3. \A x : x \in B <=> \E i \in 1..Len(ready) : x \in ready[i].targets
  BY <1>1
<1>4. QueuedIn(partial, ready) = A \cup B
  BY DEF QueuedIn
<1> HIDE DEF A, B
<1> QED
  BY <1>2, <1>3, <1>4

LEMMA QueuedFinite ==
    ASSUME NEW partial, NEW lru, NEW ready, NEW count, QueueOK(partial, lru, ready, count)
    PROVE  /\ QueuedIn(partial, ready) \subseteq Targets /\ IsFiniteSet(QueuedIn(partial, ready))
           /\ count \in Nat
<1>1. /\ partial \in [Shards -> SUBSET Targets] /\ ready \in Seq(BufferType)
      /\ count = Cardinality(QueuedIn(partial, ready))
  BY DEF QueueOK
<1>2. ASSUME NEW i \in 1..Len(ready) PROVE ready[i].targets \subseteq Targets
  <2>1. ready[i] \in BufferType
    BY <1>1
  <2> QED
    BY <2>1 DEF BufferType
<1>3. QueuedIn(partial, ready) \subseteq Targets
  BY <1>1, <1>2, QueuedOf
<1>4. IsFiniteSet(QueuedIn(partial, ready))
  BY <1>3, FS_Subset, SetsAssumption
<1> QED
  BY <1>1, <1>3, <1>4, FS_CardinalityType

\* The partial buffers when the one of shard s holds b.
Holding(partial, s, b) == [partial EXCEPT ![s] = b]
Gathering(partial, t) == Holding(partial, t.shard, partial[t.shard] \cup {t})

\* A target is gathered.
LEMMA Gather ==
    ASSUME NEW partial, NEW lru, NEW ready, NEW count, QueueOK(partial, lru, ready, count),
           NEW t \in Targets, t \notin QueuedIn(partial, ready), count < MaxPendingTargets,
           NEW lru2, Adds(lru2, lru, t.shard)
    PROVE  /\ QueueOK(Gathering(partial, t), lru2, ready, count + 1)
           /\ QueuedIn(Gathering(partial, t), ready) = QueuedIn(partial, ready) \cup {t}
<1> DEFINE s == t.shard
           p2 == Gathering(partial, t)
<1>1. s \in Shards
  BY QueriesAssumption
<1>2. partial \in [Shards -> SUBSET Targets] /\ ready \in Seq(BufferType)
  BY DEF QueueOK
<1>3. p2 \in [Shards -> SUBSET Targets] /\ \A x \in Shards : p2[x] = IF x = s THEN partial[s] \cup {t} ELSE partial[x]
  BY <1>1, <1>2 DEF Gathering, Holding
<1> HIDE DEF p2, s
<1>4. QueuedIn(p2, ready) = QueuedIn(partial, ready) \cup {t}
  <2> SUFFICES ASSUME NEW x
               PROVE  x \in QueuedIn(p2, ready) <=> x \in QueuedIn(partial, ready) \/ x = t
    OBVIOUS
  <2>1. (\E y \in Shards : x \in p2[y]) <=> x = t \/ \E y \in Shards : x \in partial[y]
    BY <1>1, <1>3
  <2> QED
    BY <1>2, <2>1, QueuedOf
<1>5. count + 1 = Cardinality(QueuedIn(p2, ready))
  <2>1. IsFiniteSet(QueuedIn(partial, ready)) /\ count = Cardinality(QueuedIn(partial, ready))
    BY QueuedFinite DEF QueueOK
  <2>2. Cardinality(QueuedIn(partial, ready) \cup {t}) = Cardinality(QueuedIn(partial, ready)) + 1
    BY <2>1, FS_AddElement
  <2> QED
    BY <1>4, <2>1, <2>2
<1>6. count + 1 <= MaxPendingTargets
  BY QueuedFinite, BudgetAssumption
<1>7. \A x \in Shards : \A y \in p2[x] : y.shard = x
  BY <1>3 DEF QueueOK, s
<1>8. \A i \in 1..Len(ready) : \A x \in Shards : ready[i].targets \cap p2[x] = {}
  <2>1. \A i \in 1..Len(ready) : t \notin ready[i].targets
    BY <1>2, QueuedOf
  <2>2. \A i \in 1..Len(ready) : \A x \in Shards : ready[i].targets \cap partial[x] = {}
    BY DEF QueueOK
  <2> QED
    BY <1>1, <1>3, <2>1, <2>2
<1>9. \A x \in Shards : p2[x] # {} <=> Listed(lru2, x)
  <2>1. \A x \in Shards : partial[x] # {} <=> Listed(lru, x)
    BY DEF QueueOK
  <2> QED
    BY <1>1, <1>3, <2>1 DEF Adds, s
<1>10. QueueOK(p2, lru2, ready, count + 1)
  <2>1. /\ \A i \in 1..Len(ready) : ready[i].targets # {} /\ \A y \in ready[i].targets : y.shard = ready[i].shard
        /\ \A i, k \in 1..Len(ready) : i # k => ready[i].targets \cap ready[k].targets = {}
    BY DEF QueueOK
  <2> QED
    BY <1>2, <1>3, <1>5, <1>6, <1>7, <1>8, <1>9, <2>1 DEF QueueOK, Adds
<1> QED
  BY <1>4, <1>10 DEF p2, s

\* A partial buffer is published.
LEMMA Publish ==
    ASSUME NEW partial, NEW lru, NEW ready, NEW count, QueueOK(partial, lru, ready, count),
           NEW s \in Shards, partial[s] # {},
           NEW lru2 \in Seq(Shards), Distinct(lru2), \A x : Listed(lru2,
                  x) <=> x # s /\ Listed(lru, x)
    PROVE  LET partial2 == Holding(partial, s, {})
               ready2 == Append(ready, [shard |-> s, targets |-> partial[s]])
           IN  /\ QueueOK(partial2, lru2, ready2, count)
               /\ QueuedIn(partial2, ready2) = QueuedIn(partial, ready)
               /\ ready2 # <<>>
<1> DEFINE p2 == Holding(partial, s, {})
           b == [shard |-> s, targets |-> partial[s]]
           r2 == Append(ready, b)
<1>1. partial \in [Shards -> SUBSET Targets] /\ ready \in Seq(BufferType) /\ Len(ready) \in Nat
  BY DEF QueueOK
<1>2. p2 \in [Shards -> SUBSET Targets] /\ \A x \in Shards : p2[x] = IF x = s THEN {} ELSE partial[x]
  BY <1>1 DEF Holding
<1>3. b \in BufferType /\ b.targets = partial[s] /\ b.shard = s
  BY <1>1 DEF BufferType
<1> HIDE DEF p2, b
<1>4. /\ r2 \in Seq(BufferType) /\ Len(r2) = Len(ready) + 1 /\ r2[Len(ready) + 1] = b
      /\ \A i \in 1..Len(ready) : r2[i] = ready[i]
  BY <1>1, <1>3
<1> HIDE DEF r2
<1>5. /\ \A i \in 1..Len(r2) : i \in 1..Len(ready) \/ i = Len(ready) + 1
      /\ Len(ready) + 1 \in 1..Len(r2) /\ Len(ready) + 1 \notin 1..Len(ready)
      /\ \A i \in 1..Len(ready) : i \in 1..Len(r2)
  BY <1>1, <1>4
<1>6. \A i \in 1..Len(r2) : (i \in 1..Len(ready) /\ r2[i] = ready[i]) \/ (i = Len(ready) + 1 /\ r2[i] = b)
  BY <1>4, <1>5
<1>7. QueuedIn(p2, r2) = QueuedIn(partial, ready)
  <2> SUFFICES ASSUME NEW x
               PROVE  x \in QueuedIn(p2, r2) <=> x \in QueuedIn(partial, ready)
    OBVIOUS
  <2>1. (\E i \in 1..Len(r2) : x \in r2[i].targets) <=>
           (\E i \in 1..Len(ready) : x \in ready[i].targets) \/ x \in partial[s]
    BY <1>3, <1>4, <1>5, <1>6
  <2>2. (\E y \in Shards : x \in p2[y]) <=> \E y \in Shards : y # s /\ x \in partial[y]
    BY <1>2
  <2>3. x \in QueuedIn(p2, r2) <=> (\E y \in Shards : x \in p2[y]) \/ \E i \in 1..Len(r2) : x \in r2[i].targets
    BY <1>4, QueuedOf
  <2>4. x \in QueuedIn(partial, ready) <=>
           (\E y \in Shards : x \in partial[y]) \/ \E i \in 1..Len(ready) : x \in ready[i].targets
    BY <1>1, QueuedOf
  <2> QED
    BY <2>1, <2>2, <2>3, <2>4
<1>8. \A i \in 1..Len(ready) : \A x \in Shards : ready[i].targets \cap partial[x] = {}
  BY DEF QueueOK
<1>9. \A x \in Shards : \A t \in partial[x] : t.shard = x
  BY DEF QueueOK
<1>10. \A x \in Shards : \A t \in p2[x] : t.shard = x
  BY <1>2, <1>9
<1>11. \A i \in 1..Len(r2) : r2[i].targets # {} /\ \A t \in r2[i].targets : t.shard = r2[i].shard
  <2>1. \A i \in 1..Len(ready) : ready[i].targets # {} /\ \A t \in ready[i].targets : t.shard = ready[i].shard
    BY DEF QueueOK
  <2> QED
    BY <1>3, <1>6, <1>9, <2>1
<1>12. \A i, k \in 1..Len(r2) : i # k => r2[i].targets \cap r2[k].targets = {}
  <2>1. \A i, k \in 1..Len(ready) : i # k => ready[i].targets \cap ready[k].targets = {}
    BY DEF QueueOK
  <2>2. \A i \in 1..Len(ready) : ready[i].targets \cap b.targets = {}
    BY <1>3, <1>8
  <2> QED
    BY <1>6, <2>1, <2>2
<1>13. \A i \in 1..Len(r2) : \A x \in Shards : r2[i].targets \cap p2[x] = {}
  <2>1. \A x \in Shards : x # s => partial[s] \cap partial[x] = {}
    BY <1>9
  <2>2. \A x \in Shards : b.targets \cap p2[x] = {}
    BY <1>2, <1>3, <2>1
  <2>3. \A i \in 1..Len(ready) : \A x \in Shards : ready[i].targets \cap p2[x] = {}
    BY <1>2, <1>8
  <2> QED
    BY <1>6, <2>2, <2>3
<1>14. \A x \in Shards : p2[x] # {} <=> Listed(lru2, x)
  <2>1. \A x \in Shards : partial[x] # {} <=> Listed(lru, x)
    BY DEF QueueOK
  <2> QED
    BY <1>2, <2>1
<1>15. count = Cardinality(QueuedIn(p2, r2)) /\ count <= MaxPendingTargets
  BY <1>7 DEF QueueOK
<1>16. QueueOK(p2, lru2, r2, count)
  BY <1>2, <1>4, <1>10, <1>11, <1>12, <1>13, <1>14, <1>15 DEF QueueOK
<1>17. r2 # <<>>
  BY <1>1, <1>4
<1> QED
  BY <1>7, <1>16, <1>17 DEF p2, r2, b

Nothing == [s \in Shards |-> {}]

\* Everything is dropped.
LEMMA DropAll == QueueOK(Nothing, <<>>, <<>>, 0) /\ QueuedIn(Nothing, <<>>) = {}
<1>1. Nothing \in [Shards -> SUBSET Targets] /\ \A s \in Shards : Nothing[s] = {}
  BY DEF Nothing
<1>2. <<>> \in Seq(BufferType) /\ <<>> \in Seq(Shards) /\ Len(<<>>) = 0 /\ 1..0 = {}
  OBVIOUS
<1>3. QueuedIn(Nothing, <<>>) = {}
  BY <1>1 DEF QueuedIn
<1>4. \A s \in Shards : ~Listed(<<>>, s)
  BY <1>2 DEF Listed
<1>5. 0 = Cardinality(QueuedIn(Nothing, <<>>)) /\ 0 <= MaxPendingTargets
  BY <1>3, FS_EmptySet, BudgetAssumption
<1>6. Distinct(<<>>)
  BY <1>2 DEF Distinct
<1> QED
  BY <1>1, <1>2, <1>3, <1>4, <1>5, <1>6 DEF QueueOK

\* A ready buffer is claimed.
LEMMA ClaimBuffer ==
    ASSUME NEW partial, NEW lru, NEW ready, NEW count, QueueOK(partial, lru, ready, count),
           NEW n \in 1..Len(ready)
    PROVE  /\ QueueOK(partial, lru, RemoveAt(ready, n), count - Cardinality(ready[n].targets))
           /\ QueuedIn(partial, RemoveAt(ready, n)) = QueuedIn(partial, ready) \ ready[n].targets
           /\ ready[n].targets \subseteq QueuedIn(partial, ready)
<1> DEFINE r2 == RemoveAt(ready, n)
           B == ready[n].targets
<1>1. partial \in [Shards -> SUBSET Targets] /\ ready \in Seq(BufferType) /\ Len(ready) \in Nat
  BY DEF QueueOK
<1>2. r2 \in Seq(BufferType) /\ Len(r2) = Len(ready) - 1
  BY <1>1, RemovedFrom
<1>3. /\ \A i \in 1..Len(r2) : \E k \in 1..Len(ready) : k # n /\ r2[i] = ready[k]
      /\ \A k \in 1..Len(ready) : k # n => \E i \in 1..Len(r2) : r2[i] = ready[k]
      /\ \A i, j \in 1..Len(r2) : i # j =>
            \E k, l \in 1..Len(ready) : k # l /\ r2[i] = ready[k] /\ r2[j] = ready[l]
  <2>1. Rest(r2, ready, n)
    BY <1>1, Others
  <2> HIDE DEF r2
  <2> QED
    BY <2>1 DEF Rest
<1> HIDE DEF r2
<1>4. \A i, k \in 1..Len(ready) : i # k => ready[i].targets \cap ready[k].targets = {}
  BY DEF QueueOK
<1>5. \A i \in 1..Len(ready) : \A x \in Shards : ready[i].targets \cap partial[x] = {}
  BY DEF QueueOK
<1>6. QueuedIn(partial, r2) = QueuedIn(partial, ready) \ B
  <2> SUFFICES ASSUME NEW x
               PROVE  x \in QueuedIn(partial, r2) <=> x \in QueuedIn(partial, ready) /\ x \notin B
    OBVIOUS
  <2>1. (\E i \in 1..Len(r2) : x \in r2[i].targets) <=> \E k \in 1..Len(ready) : k # n /\ x \in ready[k].targets
    BY <1>3
  <2>2. x \in QueuedIn(partial, r2) <=>
           (\E y \in Shards : x \in partial[y]) \/ \E i \in 1..Len(r2) : x \in r2[i].targets
    BY <1>2, QueuedOf
  <2>3. x \in QueuedIn(partial, ready) <=>
           (\E y \in Shards : x \in partial[y]) \/ \E i \in 1..Len(ready) : x \in ready[i].targets
    BY <1>1, QueuedOf
  <2> QED
    BY <1>4, <1>5, <2>1, <2>2, <2>3
<1>7. B \subseteq QueuedIn(partial, ready)
  BY <1>1, QueuedOf
<1>8. /\ IsFiniteSet(QueuedIn(partial, ready)) /\ count = Cardinality(QueuedIn(partial, ready))
      /\ count \in Nat /\ count <= MaxPendingTargets
  BY QueuedFinite DEF QueueOK
<1>9. /\ Cardinality(QueuedIn(partial, ready) \ B) = count - Cardinality(B)
      /\ Cardinality(B) \in Nat
  <2>1. QueuedIn(partial, ready) \cap B = B
    BY <1>7
  <2>2. IsFiniteSet(B)
    BY <1>7, <1>8, FS_Subset
  <2> QED
    BY <1>8, <2>1, <2>2, FS_Difference, FS_CardinalityType
<1>10. count - Cardinality(B) <= MaxPendingTargets
  BY <1>8, <1>9, BudgetAssumption
<1>11. \A i \in 1..Len(r2) : r2[i].targets # {} /\ \A t \in r2[i].targets : t.shard = r2[i].shard
  <2> SUFFICES ASSUME NEW i \in 1..Len(r2)
               PROVE  r2[i].targets # {} /\ \A t \in r2[i].targets : t.shard = r2[i].shard
    OBVIOUS
  <2>1. PICK k \in 1..Len(ready) : r2[i] = ready[k]
    BY <1>3
  <2>2. ready[k].targets # {} /\ \A t \in ready[k].targets : t.shard = ready[k].shard
    BY DEF QueueOK
  <2> QED
    BY <2>1, <2>2
<1>12. \A i, k \in 1..Len(r2) : i # k => r2[i].targets \cap r2[k].targets = {}
  <2> SUFFICES ASSUME NEW i \in 1..Len(r2), NEW k \in 1..Len(r2), i # k
               PROVE  r2[i].targets \cap r2[k].targets = {}
    OBVIOUS
  <2>1. PICK g, l \in 1..Len(ready) : g # l /\ r2[i] = ready[g] /\ r2[k] = ready[l]
    BY <1>3
  <2>2. ready[g].targets \cap ready[l].targets = {}
    BY <1>4, <2>1
  <2> QED
    BY <2>1, <2>2
<1>13. \A i \in 1..Len(r2) : \A x \in Shards : r2[i].targets \cap partial[x] = {}
  BY <1>3, <1>5
<1>14. /\ lru \in Seq(Shards) /\ Distinct(lru) /\ \A s \in Shards : partial[s] # {} <=> Listed(lru, s)
       /\ \A s \in Shards : \A t \in partial[s] : t.shard = s
  BY DEF QueueOK
<1> HIDE DEF B
<1>15. QueueOK(partial, lru, r2, count - Cardinality(B))
  BY <1>1, <1>2, <1>6, <1>9, <1>10, <1>11, <1>12, <1>13, <1>14 DEF QueueOK
<1> QED
  BY <1>6, <1>7, <1>15 DEF r2, B


\* The elements of two sequences put together.
Joined(q, a, b) ==
    /\ \A i \in 1..Len(q) : \/ \E k \in 1..Len(a) : i = k /\ q[i] = a[k]
                            \/ \E k \in 1..Len(b) : i = k + Len(a) /\ q[i] = b[k]
    /\ \A k \in 1..Len(a) : k \in 1..Len(q) /\ q[k] = a[k]
    /\ \A k \in 1..Len(b) : k + Len(a) \in 1..Len(q) /\ q[k + Len(a)] = b[k]

LEMMA Joining ==
    ASSUME NEW S, NEW a \in Seq(S), NEW b \in Seq(S)
    PROVE  Joined(a \o b, a, b) /\ a \o b \in Seq(S)
<1> DEFINE q == a \o b
<1>1. Len(a) \in Nat /\ Len(b) \in Nat
  OBVIOUS
<1>2. /\ q \in Seq(S) /\ Len(q) = Len(a) + Len(b)
      /\ \A i \in 1..Len(a) + Len(b) : q[i] = IF i <= Len(a) THEN a[i] ELSE b[i - Len(a)]
  BY ConcatProperties
<1> HIDE DEF q
<1>3. ASSUME NEW i \in 1..Len(q)
      PROVE  \/ \E k \in 1..Len(a) : i = k /\ q[i] = a[k]
             \/ \E k \in 1..Len(b) : i = k + Len(a) /\ q[i] = b[k]
  <2>1. CASE i <= Len(a)
    <3>1. i \in 1..Len(a) /\ q[i] = a[i]
      BY <1>1, <1>2, <2>1
    <3> QED
      BY <3>1
  <2>2. CASE ~(i <= Len(a))
    <3>1. i - Len(a) \in 1..Len(b) /\ i = (i - Len(a)) + Len(a) /\ q[i] = b[i - Len(a)]
      BY <1>1, <1>2, <2>2
    <3> QED
      BY <3>1
  <2> QED
    BY <2>1, <2>2
<1>4. \A k \in 1..Len(a) : k \in 1..Len(q) /\ q[k] = a[k]
  BY <1>1, <1>2
<1>5. ASSUME NEW k \in 1..Len(b) PROVE k + Len(a) \in 1..Len(q) /\ q[k + Len(a)] = b[k]
  <2>1. k + Len(a) \in 1..(Len(a) + Len(b)) /\ ~(k + Len(a) <= Len(a)) /\ (k + Len(a)) - Len(a) = k
    BY <1>1
  <2> QED
    BY <1>2, <2>1
<1>6. Joined(q, a, b)
  BY <1>3, <1>4, <1>5 DEF Joined
<1> QED
  BY <1>2, <1>6 DEF q

LEMMA PartialApart ==
    ASSUME NEW partial, \A x \in Shards : \A t \in partial[x] : t.shard = x
    PROVE  \A a, b \in Shards : a # b => partial[a] \cap partial[b] = {}
OBVIOUS

\* All partial buffers are published.
NotEmpty(partial) == {s \in Shards : partial[s] # {}}
Flushed(partial, order) == [i \in DOMAIN order |-> [shard |-> order[i], targets |-> partial[order[i]]]]

LEMMA PublishAll ==
    ASSUME NEW partial, NEW lru, NEW ready, NEW count, QueueOK(partial, lru, ready, count),
           NEW order \in [1..Cardinality(NotEmpty(partial)) -> NotEmpty(partial)],
           Range(order) = NotEmpty(partial)
    PROVE  /\ QueueOK(Nothing, <<>>, ready \o Flushed(partial, order), count)
           /\ QueuedIn(Nothing, ready \o Flushed(partial, order)) = QueuedIn(partial, ready)
           /\ ready # <<>> => ready \o Flushed(partial, order) # <<>>
<1> DEFINE G == NotEmpty(partial)
           m == Cardinality(G)
           flushed == Flushed(partial, order)
           ready2 == ready \o flushed
<1>1. partial \in [Shards -> SUBSET Targets] /\ ready \in Seq(BufferType)
  BY DEF QueueOK
<1>2. IsFiniteSet(G) /\ m \in Nat /\ G \subseteq Shards
  BY SetsAssumption, FS_Subset, FS_CardinalityType DEF NotEmpty
<1> HIDE DEF m
<1>3. DOMAIN order = 1..m /\ \A i \in 1..m : order[i] \in G
  BY DEF m
<1>4. \A s \in G : \E i \in 1..m : order[i] = s
  BY <1>3 DEF Range
<1>5. \A i, k \in 1..m : order[i] = order[k] => i = k
  <2>1. order \in Surjection(1..m, G)
    BY <1>3, <1>4 DEF Surjection, m
  <2>2. IsFiniteSet(1..m) /\ Cardinality(1..m) = m
    <3>1. IsFiniteSet(1..m) /\ Cardinality(1..m) = IF 1 > m THEN 0 ELSE m - 1 + 1
      BY <1>2, FS_Interval
    <3> QED
      BY <3>1, <1>2
  <2>3. order \in Injection(1..m, G)
    BY <2>1, <2>2, FS_Surjection DEF m
  <2> QED
    BY <2>3 DEF Injection, IsInjective
<1>6. \A i \in 1..m : [shard |-> order[i], targets |-> partial[order[i]]] \in BufferType
  BY <1>1, <1>2, <1>3 DEF BufferType
<1>7. flushed \in [1..m -> BufferType]
  BY <1>3, <1>6 DEF Flushed
<1>8. \A i \in 1..m : flushed[i].shard = order[i] /\ flushed[i].targets = partial[order[i]] /\ order[i] \in Shards
  BY <1>2, <1>3 DEF Flushed
<1>9. ready2 = ready \o flushed
  OBVIOUS
<1>f. \A s \in G : s \in Shards /\ partial[s] # {}
  BY DEF NotEmpty
<1>g. \A s \in Shards : partial[s] # {} => s \in G
  BY DEF NotEmpty
<1>h. G = NotEmpty(partial)
  OBVIOUS
<1> HIDE DEF flushed, ready2, G
<1>10. flushed \in Seq(BufferType) /\ Len(flushed) = m
  BY <1>2, <1>7
<1>11. Joined(ready2, ready, flushed) /\ ready2 \in Seq(BufferType)
  BY <1>1, <1>9, <1>10, Joining
<1>12. /\ \A i \in 1..Len(ready) : ready[i].targets # {} /\ \A t \in ready[i].targets : t.shard = ready[i].shard
       /\ \A i \in 1..Len(ready) : \A x \in Shards : ready[i].targets \cap partial[x] = {}
       /\ \A i, k \in 1..Len(ready) : i # k => ready[i].targets \cap ready[k].targets = {}
       /\ \A x \in Shards : \A t \in partial[x] : t.shard = x
  BY DEF QueueOK
<1>13. \A i \in 1..Len(ready2) : \/ \E k \in 1..Len(ready) : i = k /\ ready2[i] = ready[k]
                                 \/ \E k \in 1..m : i = k + Len(ready) /\ ready2[i] = flushed[k]
  BY <1>10, <1>11 DEF Joined
<1>14. /\ \A k \in 1..Len(ready) : k \in 1..Len(ready2) /\ ready2[k] = ready[k]
       /\ \A k \in 1..m : k + Len(ready) \in 1..Len(ready2) /\ ready2[k + Len(ready)] = flushed[k]
  BY <1>10, <1>11 DEF Joined
<1>15. QueuedIn(Nothing, ready2) = QueuedIn(partial, ready)
  <2> SUFFICES ASSUME NEW x
               PROVE  x \in QueuedIn(Nothing, ready2) <=> x \in QueuedIn(partial, ready)
    OBVIOUS
  <2>1. x \in QueuedIn(Nothing, ready2) <=> \E i \in 1..Len(ready2) : x \in ready2[i].targets
    <3>1. \A s \in Shards : Nothing[s] = {}
      BY DEF Nothing
    <3> QED
      BY <1>11, <3>1, QueuedOf
  <2>2. x \in QueuedIn(partial, ready) <=>
           (\E y \in Shards : x \in partial[y]) \/ \E i \in 1..Len(ready) : x \in ready[i].targets
    BY <1>1, QueuedOf
  <2>3. ASSUME NEW i \in 1..Len(ready2), x \in ready2[i].targets
       
        PROVE  (\E y \in Shards : x \in partial[y]) \/ \E k \in 1..Len(ready) : x \in ready[k].targets
    <3>1. CASE \E k \in 1..Len(ready) : i = k /\ ready2[i] = ready[k]
      BY <2>3, <3>1
    <3>2. CASE \E k \in 1..m : i = k + Len(ready) /\ ready2[i] = flushed[k]
      <4>1. PICK k \in 1..m : ready2[i] = flushed[k]
        BY <3>2
      <4>2. x \in partial[order[k]] /\ order[k] \in Shards
        BY <1>8, <2>3, <4>1
      <4> QED
        BY <4>2
    <3> QED
      BY <1>13, <3>1, <3>2
  <2>4. ASSUME NEW y \in Shards, x \in partial[y]
        PROVE \E i \in 1..Len(ready2) : x \in ready2[i].targets
    <3>1. y \in G
      BY <1>g, <2>4
    <3>2. PICK k \in 1..m : order[k] = y
      BY <1>4, <3>1
    <3>3. ready2[k + Len(ready)].targets = partial[y] /\ k + Len(ready) \in 1..Len(ready2)
      BY <1>8, <1>14, <3>2
    <3> QED
      BY <2>4, <3>3
  <2>5. ASSUME NEW k \in 1..Len(ready), x \in ready[k].targets
        PROVE \E i \in 1..Len(ready2) : x \in ready2[i].targets
    BY <1>14, <2>5
  <2> QED
    BY <2>1, <2>2, <2>3, <2>4, <2>5
\* The buffers of the two parts, each with those of the other.
<1>a. ASSUME NEW k \in 1..m
      PROVE  flushed[k].targets # {} /\ \A t \in flushed[k].targets : t.shard = flushed[k].shard
  <2>1. order[k] \in G
    BY <1>3
  <2>2. partial[order[k]] # {} /\ order[k] \in Shards
    BY <1>f, <2>1
  <2>3. \A t \in partial[order[k]] : t.shard = order[k]
    BY <1>12, <2>2
  <2> QED
    BY <1>8, <2>2, <2>3
<1>b. ASSUME NEW k \in 1..m, NEW l \in 1..m, k # l
      PROVE flushed[k].targets \cap flushed[l].targets = {}
  <2>1. order[k] # order[l]
    BY <1>5, <1>b
  <2>2. \A x, y \in Shards : x # y => partial[x] \cap partial[y] = {}
    BY <1>12, PartialApart
  <2>3. order[k] \in Shards /\ order[l] \in Shards
    BY <1>8
  <2>4. partial[order[k]] \cap partial[order[l]] = {}
    BY <2>1, <2>2, <2>3
  <2> QED
    BY <1>8, <2>4
<1>c. ASSUME NEW k \in 1..Len(ready), NEW l \in 1..m
      PROVE ready[k].targets \cap flushed[l].targets = {}
  BY <1>8, <1>12
<1>d. \A i \in 1..Len(ready2) : ready2[i].targets # {} /\ \A t \in ready2[i].targets : t.shard = ready2[i].shard
  <2> SUFFICES ASSUME NEW i \in 1..Len(ready2)
              
               PROVE  ready2[i].targets # {} /\ \A t \in ready2[i].targets : t.shard = ready2[i].shard
    OBVIOUS
  <2>1. CASE \E k \in 1..Len(ready) : i = k /\ ready2[i] = ready[k]
    BY <1>12, <2>1
  <2>2. CASE \E k \in 1..m : i = k + Len(ready) /\ ready2[i] = flushed[k]
    BY <1>a, <2>2
  <2> QED
    BY <1>13, <2>1, <2>2
<1>e. \A i, k \in 1..Len(ready2) : i # k => ready2[i].targets \cap ready2[k].targets = {}
  <2> SUFFICES ASSUME NEW i \in 1..Len(ready2), NEW k \in 1..Len(ready2), i # k
               PROVE  ready2[i].targets \cap ready2[k].targets = {}
    OBVIOUS
  <2> DEFINE Old(j) == \E l \in 1..Len(ready) : j = l /\ ready2[j] = ready[l]
             New(j) == \E l \in 1..m : j = l + Len(ready) /\ ready2[j] = flushed[l]
  <2>1. CASE Old(i) /\ Old(k)
    BY <1>12, <2>1
  <2>2. CASE Old(i) /\ New(k)
    BY <1>c, <2>2
  <2>3. CASE New(i) /\ Old(k)
    BY <1>c, <2>3
  <2>4. CASE New(i) /\ New(k)
    <3>1. PICK j \in 1..m : i = j + Len(ready) /\ ready2[i] = flushed[j]
      BY <2>4
    <3>2. PICK l \in 1..m : k = l + Len(ready) /\ ready2[k] = flushed[l]
      BY <2>4
    <3>3. j # l
      BY <3>1, <3>2
    <3> QED
      BY <1>b, <3>1, <3>2, <3>3
  <2> QED
    BY <1>13, <2>1, <2>2, <2>3, <2>4
<1>16. /\ Nothing \in [Shards -> SUBSET Targets] /\ \A s \in Shards : Nothing[s] = {}
       /\ <<>> \in Seq(Shards) /\ Distinct(<<>>) /\ \A s \in Shards : ~Listed(<<>>, s)
  BY DEF Nothing, Distinct, Listed
<1>17. count = Cardinality(QueuedIn(Nothing, ready2)) /\ count <= MaxPendingTargets
  BY <1>15 DEF QueueOK
<1>18. QueueOK(Nothing, <<>>, ready2, count)
  BY <1>11, <1>d, <1>e, <1>16, <1>17 DEF QueueOK
<1>19. ready # <<>> => ready2 # <<>>
  <2>1. Len(ready) \in Nat /\ (ready # <<>> => Len(ready) # 0)
    BY <1>1
  <2>2. Len(ready) # 0 => 1 \in 1..Len(ready)
    BY <2>1
  <2>3. Len(ready) # 0 => 1 \in 1..Len(ready2)
    BY <1>14, <2>2
  <2> QED
    BY <2>1, <2>3
<1> QED
  BY <1>15, <1>18, <1>19 DEF ready2, flushed

-----------------------------------------------------------------------------
(* Where the targets are *)

LEMMA QueuedIs == Queued = QueuedIn(partial_buffers, ready_buffers)
BY DEF Queued, QueuedIn

\* Targets that only disappear, and targets that stay where they are.
LEMMA PlacesShrink ==
    ASSUME PlaceInv, Queued' \subseteq Queued, Claimed' \subseteq Claimed, emitted' = emitted,
           \A p \in Producers : Ahead(p, producer'[p]) \subseteq Ahead(p, producer[p])
    PROVE  PlaceInv'
BY DEF PlaceInv

LEMMA WholeKept ==
    ASSUME Whole, Queued' = Queued, Claimed' = Claimed, emitted' = emitted,
           \A p \in Producers : Ahead(p, producer'[p]) = Ahead(p, producer[p])
    PROVE  Whole'
BY DEF Whole

LEMMA ClaimedOf == \A x : x \in Claimed <=> \E c \in Consumers : x \in consumer[c].buffer.targets
BY DEF Claimed

\* A consumer moves on.
LEMMA ClaimedMoves ==
    ASSUME ScanInv, NEW c \in Consumers, NEW local \in ConsumerType,
           consumer' = [consumer EXCEPT ![c] = local]
    PROVE  /\ local.buffer.targets = consumer[c].buffer.targets => Claimed' = Claimed
           /\ local.buffer.targets = {} => Claimed' \subseteq Claimed
           /\ consumer[c].buffer.targets = {} => Claimed' = Claimed \cup local.buffer.targets
<1>1. \A d \in Consumers : consumer'[d] = IF d = c THEN local ELSE consumer[d]
  BY DEF ScanInv
<1>2. \A x : x \in Claimed' <=> \E d \in Consumers : x \in consumer'[d].buffer.targets
  BY DEF Claimed
<1>3. \A x : x \in Claimed' <=>
          x \in local.buffer.targets \/ \E d \in Consumers : d # c /\ x \in consumer[d].buffer.targets
  BY <1>1, <1>2
<1>4. \A x : x \in Claimed <=>
          x \in consumer[c].buffer.targets \/ \E d \in Consumers : d # c /\ x \in consumer[d].buffer.targets
  BY ClaimedOf
<1>5. CASE local.buffer.targets = consumer[c].buffer.targets
  BY <1>3, <1>4, <1>5
<1>6. CASE local.buffer.targets = {}
  BY <1>3, <1>4, <1>6
<1>7. CASE consumer[c].buffer.targets = {}
  BY <1>3, <1>4, <1>7
<1> QED
  BY <1>5, <1>6, <1>7, Zenon

-----------------------------------------------------------------------------
(* Steps of a producer that move only itself *)

\* The task of producer p becomes new.
Moves(p, new) == producer' = [producer EXCEPT ![p] = new]

LEMMA MovedTask ==
    ASSUME TaskInv, NEW p \in Producers, NEW new \in Task, Moves(p, new)
    PROVE  /\ producer' \in [Producers -> Task]
           /\ \A r \in Producers : producer'[r] = IF r = p THEN new ELSE producer[r]
BY DEF TaskInv, Moves

\* Every task stays a task that stands somewhere in its queries.
LEMMA TasksKept ==
    ASSUME TaskInv, NEW p \in Producers, NEW new \in Task, Moves(p, new),
           TaskOK(p, new, stop_requested'), stop_requested' \in BOOLEAN,
           stop_requested => stop_requested',
           lock' \in Producers \cup {NoTask}, new.pc = "queueing" <=> lock' = p,
           \A r \in Producers : r # p => (lock' = r <=> lock = r)
    PROVE  TaskInv'
<1>1. /\ producer' \in [Producers -> Task]
      /\ \A r \in Producers : producer'[r] = IF r = p THEN new ELSE producer[r]
  BY MovedTask
<1>2. \A r \in Producers : TaskOK(r, producer[r], stop_requested)
  BY DEF TaskInv
<1>3. ASSUME NEW r \in Producers PROVE TaskOK(r, producer'[r], stop_requested')
  <2>1. CASE r = p
    BY <1>1, <2>1
  <2>2. CASE r # p
    <3>1. TaskOK(r, producer[r], stop_requested) /\ producer'[r] = producer[r]
      BY <1>1, <1>2, <2>2
    <3>2. TaskOK(r, producer[r], stop_requested')
      BY <3>1 DEF TaskOK
    <3> QED
      BY <3>1, <3>2
  <2> QED
    BY <2>1, <2>2
<1>4. \A r \in Producers : producer'[r].pc = "queueing" <=> lock' = r
  BY <1>1 DEF TaskInv
<1> QED
  BY <1>1, <1>3, <1>4 DEF TaskInv

\* The tasks that have not ended, when none ends and when one does.
LEMMA RunningKept ==
    ASSUME TaskInv, NEW p \in Producers, NEW new \in Task, Moves(p, new),
           producer[p].pc # "done"
    PROVE  /\ IsFiniteSet(Running) /\ p \in Running /\ Cardinality(Running) \in Nat \ {0}
           /\ new.pc # "done" => Running' = Running
           /\ new.pc = "done" => Cardinality(Running') = Cardinality(Running) - 1
<1>1. \A r \in Producers : producer'[r] = IF r = p THEN new ELSE producer[r]
  BY MovedTask
<1>2. IsFiniteSet(Running) /\ p \in Running
  BY Workers, FS_Subset DEF Running
<1>3. Cardinality(Running) \in Nat \ {0}
  BY <1>2, FS_CardinalityType, FS_EmptySet
<1>4. new.pc # "done" => Running' = Running
  BY <1>1 DEF Running
<1>5. ASSUME new.pc = "done" PROVE Cardinality(Running') = Cardinality(Running) - 1
  <2>1. Running' = Running \ {p}
    BY <1>1, <1>5 DEF Running
  <2> QED
    BY <1>2, <2>1, FS_RemoveElement
<1> QED
  BY <1>2, <1>3, <1>4, <1>5

LEMMA AheadMoves ==
    ASSUME TaskInv, NEW p \in Producers, NEW new \in Task, Moves(p, new)
    PROVE  /\ Ahead(p, new) = Ahead(p, producer[p]) =>
                 \A r \in Producers : Ahead(r, producer'[r]) = Ahead(r, producer[r])
           /\ Ahead(p, new) \subseteq Ahead(p, producer[p]) =>
                 \A r \in Producers : Ahead(r, producer'[r]) \subseteq Ahead(r, producer[r])
           /\ \A r \in Producers : r # p => Ahead(r, producer'[r]) = Ahead(r, producer[r])
<1>1. \A r \in Producers : producer'[r] = IF r = p THEN new ELSE producer[r]
  BY MovedTask
<1>2. \A r \in Producers : r # p => Ahead(r, producer'[r]) = Ahead(r, producer[r])
  BY <1>1
<1>3. Ahead(p, producer'[p]) = Ahead(p, new)
  BY <1>1
<1> QED
  BY <1>2, <1>3

LEMMA TaskMoved ==
    ASSUME IInv, NEW p \in Producers, NEW new \in Task, Moves(p, new),
           TaskOK(p, new, stop_requested), Ahead(p, new) = Ahead(p, producer[p]),
           producer[p].pc \notin {"done", "blocked"}, new.pc # "done",
           new.pc = "stop" => interrupted \/ stop_requested,
           lock' \in Producers \cup {NoTask}, new.pc = "queueing" <=> lock' = p,
           \A r \in Producers : r # p => (lock' = r <=> lock = r),
           UNCHANGED <<stateVars, scanVars, hostVars>>
    PROVE  IInv'
<1> USE DEF stateVars, queueVars, scanVars, hostVars
<1>1. TaskInv /\ RunInv /\ QueueInv /\ ScanInv /\ PlaceInv /\ EndInv
  BY DEF IInv
<1>2. TaskInv'
  BY <1>1, TasksKept DEF TaskInv
<1>3. \A r \in Producers : producer'[r] = IF r = p THEN new ELSE producer[r]
  BY <1>1, MovedTask
<1>4. RunInv'
  <2>1. Running' = Running
    BY <1>1, RunningKept
  <2>2. \A r \in blocked_producers : cancelled \/ producer'[r].pc = "blocked"
    BY <1>1, <1>3 DEF RunInv
  <2> QED
    BY <1>1, <2>1, <2>2 DEF RunInv
<1>5. QueueInv' /\ ScanInv'
  BY <1>1 DEF QueueInv, ScanInv, OneConsumerPerShard
<1>6. Queued' = Queued /\ Claimed' = Claimed /\ emitted' = emitted
  BY DEF Queued, Claimed
<1>7. \A r \in Producers : Ahead(r, producer'[r]) = Ahead(r, producer[r])
  BY <1>1, AheadMoves
<1>8. PlaceInv'
  BY <1>1, <1>6, <1>7, PlacesShrink
<1>9. HostInv' /\ FinishInv' /\ BlockInv' /\ NoSilentTruncation'
  BY <1>1 DEF EndInv, HostInv, FinishInv, BlockInv, NoSilentTruncation, Undisturbed
<1>10. StopInv'
  BY <1>1, <1>3 DEF EndInv, StopInv, Undisturbed
<1>11. WholeInv'
  BY <1>1, <1>6, <1>7, WholeKept DEF EndInv, WholeInv, Undisturbed
<1> QED
  BY <1>2, <1>4, <1>5, <1>8, <1>9, <1>10, <1>11 DEF IInv, EndInv

LEMMA TaskIs ==
    ASSUME TaskInv, NEW p \in Producers
    PROVE  /\ producer[p] \in Task /\ TaskOK(p, producer[p], stop_requested)
           /\ producer[p].pc \in ProducerSteps /\ producer[p].next_query \in Nat \ {0}
           /\ producer[p].query \in 0..Len(FrameQueries) /\ producer[p].row \in Nat
           /\ producer[p].pending \in Seq(Targets) /\ producer[p].connected \in BOOLEAN
           /\ producer[p].exception \in {"none", "interrupt", "source"}
BY DEF TaskInv, Task

\* A task that goes to another step, and stays where it is in its queries.
LEMMA Going ==
    ASSUME TaskInv, NEW p \in Producers, NEW pc \in ProducerSteps,
           NEW new, new = [producer[p] EXCEPT !.pc = pc]
    PROVE  /\ new \in Task /\ new.pc = pc /\ new.next_query = producer[p].next_query
           /\ new.query = producer[p].query /\ new.row = producer[p].row
           /\ new.pending = producer[p].pending /\ new.exception = producer[p].exception
           /\ Goto(p, pc) = [producer EXCEPT ![p] = new]
           /\ Ahead(p, new) = Ahead(p, producer[p])
<1>1. producer[p] \in Task /\ producer \in [Producers -> Task]
  BY DEF TaskInv
<1>2. new \in Task
  BY <1>1 DEF Task
<1>3. /\ new.pc = pc /\ new.next_query = producer[p].next_query
      /\ new.query = producer[p].query /\ new.row = producer[p].row
      /\ new.pending = producer[p].pending /\ new.exception = producer[p].exception
  BY <1>1 DEF Task
<1>4. Goto(p, pc) = [producer EXCEPT ![p] = new]
  BY <1>1 DEF Goto
<1>5. Ahead(p, new) = Ahead(p, producer[p])
  BY <1>3 DEF Ahead, Unread
<1> QED
  BY <1>2, <1>3, <1>4, <1>5

\* Where it may go.
MayGo(p, pc, stopped) ==
    /\ pc \in {"fetch", "opening"} => producer[p].pending = <<>>
    /\ pc = "opening" => producer[p].query # 0
    /\ pc = "fail" => producer[p].exception # "none"
    /\ pc \in {"finish", "done"} /\ ~stopped =>
          producer[p].query = 0 /\ producer[p].next_query > Len(FrameQueries)

LEMMA GoingOK ==
    ASSUME TaskInv, NEW p \in Producers, NEW pc \in ProducerSteps, NEW stopped, MayGo(p, pc,
           stopped),
           NEW new, new = [producer[p] EXCEPT !.pc = pc]
    PROVE  TaskOK(p, new, stopped)
<1>1. TaskOK(p, producer[p], stop_requested)
  BY DEF TaskInv
<1>2. /\ new.pc = pc /\ new.next_query = producer[p].next_query
      /\ new.query = producer[p].query /\ new.row = producer[p].row
      /\ new.pending = producer[p].pending /\ new.exception = producer[p].exception
  BY Going
<1> QED
  BY <1>1, <1>2 DEF TaskOK, MayGo

LEMMA CheckStopStep ==
    ASSUME IInv, NEW p \in Producers, CheckStop(p)
    PROVE  IInv'
<1> DEFINE pc == IF interrupted \/ stop_requested THEN "stop"
                 ELSE IF producer[p].pending # <<>> THEN "queue" ELSE "fetch"
           new == [producer[p] EXCEPT !.pc = pc]
<1>1. TaskInv
  BY DEF IInv
<1>2. /\ pc \in ProducerSteps /\ pc \notin {"queueing", "done"} /\ MayGo(p, pc, stop_requested)
      /\ pc = "stop" => interrupted \/ stop_requested
  BY DEF ProducerSteps, MayGo
<1>3. /\ producer[p].pc = "loop" /\ producer' = Goto(p, pc) /\ UNCHANGED <<lock, stateVars, scanVars, hostVars>>
  BY DEF CheckStop
<1> HIDE DEF pc
<1>4. new \in Task /\ new.pc = pc /\ Goto(p, pc) = [producer EXCEPT ![p] = new] /\ Ahead(p, new) = Ahead(p, producer[p])
  BY <1>1, <1>2, Going
<1>5. TaskOK(p, new, stop_requested)
  BY <1>1, <1>2, GoingOK
<1> HIDE DEF new
<1>6. lock' \in Producers \cup {NoTask} /\ lock' # p /\ \A r \in Producers : lock' = r <=> lock = r
  BY <1>1, <1>3 DEF TaskInv
<1> QED
  BY <1>2, <1>3, <1>4, <1>5, <1>6, TaskMoved DEF Moves

LEMMA LockQueueStep ==
    ASSUME IInv, NEW p \in Producers, LockQueue(p)
    PROVE  IInv'
<1> DEFINE pc == IF stop_requested THEN "finish" ELSE "queueing"
           new == [producer[p] EXCEPT !.pc = pc]
<1>1. TaskInv
  BY DEF IInv
<1>2. /\ pc \in ProducerSteps /\ pc \notin {"done", "stop"} /\ MayGo(p, pc, stop_requested)
      /\ pc = "queueing" <=> ~stop_requested
  BY DEF ProducerSteps, MayGo
<1>3. /\ producer[p].pc = "queue" /\ producer' = Goto(p, pc) /\ UNCHANGED <<stateVars, scanVars, hostVars>>
      /\ lock = NoTask /\ lock' = IF stop_requested THEN lock ELSE p
  BY DEF LockQueue
<1> HIDE DEF pc
<1>4. new \in Task /\ new.pc = pc /\ Goto(p, pc) = [producer EXCEPT ![p] = new] /\ Ahead(p, new) = Ahead(p, producer[p])
  BY <1>1, <1>2, Going
<1>5. TaskOK(p, new, stop_requested)
  BY <1>1, <1>2, GoingOK
<1> HIDE DEF new
<1>6. /\ lock' \in Producers \cup {NoTask} /\ new.pc = "queueing" <=> lock' = p
      /\ \A r \in Producers : r # p => (lock' = r <=> lock = r)
  <2>1. \A r \in Producers : r # NoTask
    BY Workers DEF NoTask
  <2> QED
    BY <1>2, <1>3, <1>4, <2>1
<1> QED
  BY <1>2, <1>3, <1>4, <1>5, <1>6, TaskMoved DEF Moves

LEMMA TargetsQueuedStep ==
    ASSUME IInv, NEW p \in Producers, TargetsQueued(p)
    PROVE  IInv'
<1> DEFINE new == [producer[p] EXCEPT !.pc = "loop"]
<1>1. TaskInv
  BY DEF IInv
<1>2. "loop" \in ProducerSteps /\ MayGo(p, "loop", stop_requested)
  BY DEF ProducerSteps, MayGo
<1>3. /\ producer[p].pc = "queueing" /\ producer' = Goto(p, "loop") /\ UNCHANGED <<stateVars, scanVars, hostVars>>
      /\ lock' = NoTask
  BY DEF TargetsQueued
<1>4. new \in Task /\ new.pc = "loop" /\ Goto(p, "loop") = [producer EXCEPT ![p] = new] /\ Ahead(p, new) = Ahead(p, producer[p])
  BY <1>1, <1>2, Going
<1>5. TaskOK(p, new, stop_requested)
  BY <1>1, <1>2, GoingOK
<1> HIDE DEF new
<1>6. /\ lock' \in Producers \cup {NoTask} /\ lock' # p
      /\ \A r \in Producers : r # p => (lock' = r <=> lock = r)
  <2>1. \A r \in Producers : r # NoTask
    BY Workers DEF NoTask
  <2>2. lock = p
    BY <1>1, <1>3 DEF TaskInv
  <2> QED
    BY <1>3, <2>1, <2>2
<1> QED
  BY <1>3, <1>4, <1>5, <1>6, TaskMoved DEF Moves

\* Producer p keeps what the lock and its own end depend on.
LEMMA SameLock ==
    ASSUME TaskInv, NEW p \in Producers, producer[p].pc # "queueing", lock' = lock
    PROVE  /\ lock' \in Producers \cup {NoTask} /\ lock' # p
           /\ \A r \in Producers : r # p => (lock' = r <=> lock = r)
BY DEF TaskInv

LEMMA GetQueryStep ==
    ASSUME IInv, NEW p \in Producers, GetQuery(p)
    PROVE  IInv'
<1> DEFINE t == producer[p]
<1>1. TaskInv
  BY DEF IInv
<1>2. t.pc = "fetch" /\ t.query = 0 /\ UNCHANGED <<lock, stateVars, scanVars, hostVars>>
  BY DEF GetQuery
<1>3. /\ lock' \in Producers \cup {NoTask} /\ lock' # p
      /\ \A r \in Producers : r # p => (lock' = r <=> lock = r)
  BY <1>1, <1>2, SameLock
<1>4. CASE stop_requested \/ t.next_query > Len(FrameQueries)
  <2> DEFINE new == [t EXCEPT !.pc = "finish"]
  <2>1. "finish" \in ProducerSteps /\ MayGo(p, "finish", stop_requested)
    BY <1>2, <1>4 DEF ProducerSteps, MayGo
  <2>2. producer' = Goto(p, "finish")
    BY <1>4 DEF GetQuery
  <2>3. /\ new \in Task /\ new.pc = "finish" /\ Goto(p, "finish") = [producer EXCEPT ![p] = new]
        /\ Ahead(p, new) = Ahead(p, t)
    BY <1>1, <2>1, Going
  <2>4. TaskOK(p, new, stop_requested)
    BY <1>1, <2>1, GoingOK
  <2> HIDE DEF new
  <2> QED
    BY <1>2, <1>3, <2>2, <2>3, <2>4, TaskMoved DEF Moves
<1>5. CASE ~(stop_requested \/ t.next_query > Len(FrameQueries))
  <2> DEFINE new == [t EXCEPT !.pc = "opening", !.query = t.next_query, !.next_query = t.next_query + N]
  <2>1. /\ t \in Task /\ producer \in [Producers -> Task] /\ t.next_query \in Nat \ {0}
        /\ t.next_query <= Len(FrameQueries) /\ N \in Nat \ {0} /\ t.query \in 0..Len(FrameQueries)
        /\ Len(FrameQueries) \in Nat /\ TaskOK(p, t, stop_requested)
    BY <1>1, <1>5, TaskIs, Workers DEF TaskInv
  <2>2. producer' = [producer EXCEPT ![p] = new]
    BY <1>5, <2>1 DEF GetQuery, N
  <2> HIDE DEF N
  <2>3. new \in Task
    <3>1. t.next_query + N \in Nat \ {0} /\ t.next_query \in 0..Len(FrameQueries)
      BY <2>1
    <3> QED
      BY <2>1, <3>1 DEF Task, ProducerSteps
  <2>4. /\ new.pc = "opening" /\ new.query = t.next_query /\ new.next_query = t.next_query + N
        /\ new.row = t.row /\ new.pending = t.pending
    BY <2>1 DEF Task
  <2> HIDE DEF new
  <2>5. t.row = 0 /\ t.pending = <<>>
    BY <1>2, <2>1 DEF TaskOK
  <2>6. Ahead(p, new) = Ahead(p, t)
    BY <1>2, <2>1, <2>3, <2>4, <2>5, QueryAhead
  <2>7. TaskOK(p, new, stop_requested)
    <3>1. new.next_query % N = p % N
      <4>1. t.next_query \in Int
        BY <2>1
      <4>2. (t.next_query + N) % N = t.next_query % N
        BY <2>1, <4>1, NextOfClass
      <4> QED
        BY <2>1, <2>4, <4>2 DEF TaskOK
    <3>2. new.query # 0 /\ new.row = 0 /\ new.pending = <<>>
      BY <2>1, <2>4, <2>5
    <3>3. 0 <= Len(FrameQueries[new.query])
      BY <2>1, <2>4, QueryTargets, Workers
    <3>4. Distinct(new.pending)
      BY <2>4, <2>1 DEF TaskOK
    <3> QED
      BY <2>4, <3>1, <3>2, <3>3, <3>4 DEF TaskOK
  <2> QED
    BY <1>2, <1>3, <2>2, <2>3, <2>4, <2>6, <2>7, TaskMoved DEF Moves
<1> QED
  BY <1>4, <1>5

LEMMA StartQueryStep ==
    ASSUME IInv, NEW p \in Producers, StartQuery(p)
    PROVE  IInv'
<1> DEFINE t == producer[p]
           give_up == ~t.connected /\ (interrupted \/ stop_requested)
           pc == IF give_up THEN "fail" ELSE "fetch"
           exception == IF give_up THEN "interrupt" ELSE t.exception
           new == [t EXCEPT !.pc = pc, !.exception = exception, !.connected = TRUE]
<1>1. TaskInv
  BY DEF IInv
<1>2. /\ t \in Task /\ producer \in [Producers -> Task] /\ TaskOK(p, t, stop_requested)
      /\ t.exception \in {"none", "interrupt", "source"}
  BY <1>1, TaskIs DEF TaskInv
<1>3. t.pc = "opening" /\ UNCHANGED <<lock, stateVars, scanVars, hostVars>>
  BY DEF StartQuery
<1>4. producer' = [producer EXCEPT ![p] = new]
  BY <1>2 DEF StartQuery
<1>5. /\ pc \in {"fail", "fetch"} /\ exception \in {"none", "interrupt", "source"}
      /\ pc = "fail" => exception # "none"
  BY <1>2
<1> HIDE DEF pc, exception
<1>6. new \in Task
  BY <1>2, <1>5 DEF Task, ProducerSteps
<1>7. /\ new.pc = pc /\ new.query = t.query /\ new.next_query = t.next_query
      /\ new.row = t.row /\ new.pending = t.pending /\ new.exception = exception
  BY <1>2 DEF Task
<1> HIDE DEF new
<1>8. Ahead(p, new) = Ahead(p, t)
  BY <1>7 DEF Ahead, Unread
<1>9. TaskOK(p, new, stop_requested)
  BY <1>2, <1>3, <1>5, <1>7 DEF TaskOK
<1>10. /\ lock' \in Producers \cup {NoTask} /\ lock' # p
       /\ \A r \in Producers : r # p => (lock' = r <=> lock = r)
  BY <1>1, <1>3, SameLock
<1> QED
  BY <1>3, <1>4, <1>5, <1>6, <1>7, <1>8, <1>9, <1>10, TaskMoved DEF Moves

LEMMA ReadRowStep ==
    ASSUME IInv, NEW p \in Producers, ReadRow(p)
    PROVE  IInv'
<1> DEFINE t == producer[p]
           row == FrameQueries[t.query][t.row + 1]
           new == [t EXCEPT !.pc = "loop", !.row = t.row + 1, !.pending = row]
<1>1. TaskInv
  BY DEF IInv
<1>2. /\ t \in Task /\ producer \in [Producers -> Task] /\ TaskOK(p, t, stop_requested)
      /\ t.row \in Nat /\ t.query \in 0..Len(FrameQueries)
  BY <1>1, TaskIs DEF TaskInv
<1>3. /\ t.pc = "fetch" /\ t.query # 0 /\ t.row < Len(FrameQueries[t.query])
      /\ UNCHANGED <<lock, stateVars, scanVars, hostVars>>
  BY DEF ReadRow
<1>4. producer' = [producer EXCEPT ![p] = new]
  BY <1>2 DEF ReadRow
<1>5. t.pending = <<>>
  BY <1>2, <1>3 DEF TaskOK
<1>6. /\ t.query \in DOMAIN FrameQueries /\ t.row + 1 \in DOMAIN FrameQueries[t.query]
      /\ row \in Seq(Targets) /\ Distinct(row) /\ t.row + 1 <= Len(FrameQueries[t.query])
      /\ t.next_query = t.query + N /\ t.next_query % N = p % N
  <2>1. t.query \in DOMAIN FrameQueries
    BY <1>2, <1>3, Workers
  <2>2. t.row + 1 \in DOMAIN FrameQueries[t.query] /\ t.row + 1 <= Len(FrameQueries[t.query])
    BY <1>2, <1>3, <2>1, QueryTargets
  <2>3. row \in Seq(Targets) /\ Distinct(row)
    BY <2>1, <2>2, QueryTargets
  <2>4. t.next_query = t.query + N /\ t.next_query % N = p % N
    BY <1>2, <1>3 DEF TaskOK
  <2> QED
    BY <2>1, <2>2, <2>3, <2>4
<1> HIDE DEF row
<1>7. new \in Task
  <2>1. t.row + 1 \in Nat
    BY <1>2
  <2> QED
    BY <1>2, <1>6, <2>1 DEF Task, ProducerSteps
<1>8. /\ new.pc = "loop" /\ new.query = t.query /\ new.next_query = t.next_query
      /\ new.row = t.row + 1 /\ new.pending = row
  BY <1>2 DEF Task
<1> HIDE DEF new
<1>9. Ahead(p, new) = Ahead(p, t)
  BY <1>2, <1>3, <1>5, <1>7, <1>8, RowAhead DEF row
<1>10. TaskOK(p, new, stop_requested)
  BY <1>2, <1>3, <1>6, <1>8 DEF TaskOK, row
<1>11. /\ lock' \in Producers \cup {NoTask} /\ lock' # p
       /\ \A r \in Producers : r # p => (lock' = r <=> lock = r)
  BY <1>1, <1>3, SameLock
<1> QED
  BY <1>3, <1>4, <1>7, <1>8, <1>9, <1>10, <1>11, TaskMoved DEF Moves

LEMMA EndQueryStep ==
    ASSUME IInv, NEW p \in Producers, EndQuery(p)
    PROVE  IInv'
<1> DEFINE t == producer[p]
           new == [t EXCEPT !.pc = "loop", !.query = 0, !.row = 0]
<1>1. TaskInv
  BY DEF IInv
<1>2. /\ t \in Task /\ producer \in [Producers -> Task] /\ TaskOK(p, t, stop_requested)
      /\ t.row \in Nat /\ t.query \in 0..Len(FrameQueries) /\ Len(FrameQueries) \in Nat
  BY <1>1, TaskIs, Workers DEF TaskInv
<1>3. /\ t.pc = "fetch" /\ t.query # 0 /\ t.row = Len(FrameQueries[t.query])
      /\ UNCHANGED <<lock, stateVars, scanVars, hostVars>>
  BY DEF EndQuery
<1>4. producer' = [producer EXCEPT ![p] = new]
  BY <1>2 DEF EndQuery
<1>5. t.pending = <<>>
  BY <1>2, <1>3 DEF TaskOK
<1>6. new \in Task
  <2>1. 0 \in 0..Len(FrameQueries)
    BY <1>2
  <2> QED
    BY <1>2, <2>1 DEF Task, ProducerSteps
<1>7. /\ new.pc = "loop" /\ new.query = 0 /\ new.next_query = t.next_query
      /\ new.row = 0 /\ new.pending = t.pending
  BY <1>2 DEF Task
<1> HIDE DEF new
<1>8. Ahead(p, new) = Ahead(p, t)
  BY <1>2, <1>3, <1>5, <1>6, <1>7, EndAhead
<1>9. TaskOK(p, new, stop_requested)
  BY <1>2, <1>5, <1>7 DEF TaskOK
<1>10. /\ lock' \in Producers \cup {NoTask} /\ lock' # p
       /\ \A r \in Producers : r # p => (lock' = r <=> lock = r)
  BY <1>1, <1>3, SameLock
<1> QED
  BY <1>3, <1>4, <1>6, <1>7, <1>8, <1>9, <1>10, TaskMoved DEF Moves

LEMMA SourceFailsStep ==
    ASSUME IInv, NEW p \in Producers, SourceFails(p)
    PROVE  IInv'
<1> DEFINE t == producer[p]
           new == [t EXCEPT !.pc = "fail", !.exception = "source"]
<1>1. TaskInv
  BY DEF IInv
<1>2. t \in Task /\ producer \in [Producers -> Task] /\ TaskOK(p, t, stop_requested)
  BY <1>1, TaskIs DEF TaskInv
<1>3. t.pc \in {"opening", "fetch"} /\ UNCHANGED <<lock, stateVars, scanVars, hostVars>>
  BY DEF SourceFails
<1>4. producer' = [producer EXCEPT ![p] = new]
  BY <1>2 DEF SourceFails
<1>5. new \in Task
  BY <1>2 DEF Task, ProducerSteps
<1>6. /\ new.pc = "fail" /\ new.query = t.query /\ new.next_query = t.next_query
      /\ new.row = t.row /\ new.pending = t.pending /\ new.exception = "source"
  BY <1>2 DEF Task
<1> HIDE DEF new
<1>7. Ahead(p, new) = Ahead(p, t)
  BY <1>6 DEF Ahead, Unread
<1>8. TaskOK(p, new, stop_requested)
  BY <1>2, <1>6 DEF TaskOK
<1>9. /\ lock' \in Producers \cup {NoTask} /\ lock' # p
      /\ \A r \in Producers : r # p => (lock' = r <=> lock = r)
  BY <1>1, <1>3, SameLock
<1> QED
  BY <1>3, <1>4, <1>5, <1>6, <1>7, <1>8, <1>9, TaskMoved DEF Moves

-----------------------------------------------------------------------------
(* Queueing a target *)

LEMMA QueueTargetQueue ==
    ASSUME IInv, NEW p \in Producers, QueueTarget(p)
    PROVE  /\ QueueInv' /\ Queued' = Queued \cup {Head(producer[p].pending)}
           /\ ready_buffers # <<>> => ready_buffers' # <<>>
<1> DEFINE t == Head(producer[p].pending)
           s == t.shard
           gathered == partial_buffers[s] \cup {t}
           partial1 == Gathering(partial_buffers, t)
<1>1. /\ TaskInv /\ QueueInv /\ PlaceInv
      /\ QueueOK(partial_buffers, partial_lru, ready_buffers, pending_target_count)
  BY DEF IInv, QueueInv
<1>2. t \in Targets /\ t \in Ahead(p, producer[p])
  <2> DEFINE new == [producer[p] EXCEPT !.pending = Tail(producer[p].pending)]
  <2>1. producer[p] \in Task /\ TaskOK(p, producer[p], stop_requested) /\ producer[p].pending # <<>>
    BY <1>1, TaskIs DEF QueueTarget
  <2>2. producer[p].pending \in Seq(Targets)
    BY <2>1 DEF Task
  <2>3. Tail(producer[p].pending) \in Seq(Targets)
    BY <2>1, <2>2
  <2>4. new \in Task /\ new.next_query = producer[p].next_query /\ new.query = producer[p].query
        /\ new.row = producer[p].row /\ new.pending = Tail(producer[p].pending)
    BY <2>1, <2>3 DEF Task
  <2> HIDE DEF new
  <2> QED
    BY <2>1, <2>4, HeadAhead
<1>3. /\ pending_target_count < MaxPendingTargets /\ pending_target_count' = pending_target_count + 1
      /\ Cardinality(gathered) >= TargetBufferSize =>
            /\ ready_buffers' = Append(ready_buffers, [shard |-> s, targets |-> gathered])
            /\ partial_buffers' = [partial_buffers EXCEPT ![s] = {}]
            /\ partial_lru' = Without(s)
      /\ ~(Cardinality(gathered) >= TargetBufferSize) =>
            /\ partial_buffers' = [partial_buffers EXCEPT ![s] = gathered]
            /\ partial_lru' = Touched(s)
            /\ ready_buffers' = ready_buffers
  BY DEF QueueTarget
<1> HIDE DEF t
<1>4. t \notin QueuedIn(partial_buffers, ready_buffers)
  BY <1>1, <1>2, QueuedIs DEF PlaceInv
<1>5. s \in Shards
  BY <1>2, QueriesAssumption
<1>6. partial_lru \in Seq(Shards) /\ Distinct(partial_lru)
  BY <1>1 DEF QueueOK
<1>7. /\ partial_buffers \in [Shards -> SUBSET Targets] /\ ready_buffers \in Seq(BufferType)
  BY <1>1 DEF QueueOK
<1>8. Adds(Touched(s), partial_lru, s)
  BY <1>5, <1>6, ListTouched
<1>9. /\ QueueOK(partial1, Touched(s), ready_buffers, pending_target_count + 1)
      /\ QueuedIn(partial1, ready_buffers) = QueuedIn(partial_buffers, ready_buffers) \cup {t}
  BY <1>1, <1>2, <1>3, <1>4, <1>8, Gather
<1>10. CASE Cardinality(gathered) >= TargetBufferSize
  <2> DEFINE partial2 == Holding(partial1, s, {})
             ready2 == Append(ready_buffers, [shard |-> s, targets |-> partial1[s]])
  <2>1. /\ Without(s) \in Seq(Shards) /\ Distinct(Without(s))
        /\ \A x : Listed(Without(s), x) <=> x # s /\ Listed(Touched(s), x)
    BY <1>5, <1>6, <1>8, ListWithout DEF Adds
  <2>2. partial1[s] = gathered /\ gathered # {}
    BY <1>5, <1>7 DEF Gathering, Holding
  <2>3. partial2 = [partial_buffers EXCEPT ![s] = {}]
    BY <1>5, <1>7 DEF Gathering, Holding
  <2>4. partial_buffers' = partial2 /\ ready_buffers' = ready2 /\ partial_lru' = Without(s)
    BY <1>3, <1>10, <2>2, <2>3
  <2> HIDE DEF partial1, gathered
  <2>5. /\ QueueOK(partial2, Without(s), ready2, pending_target_count + 1)
        /\ QueuedIn(partial2, ready2) = QueuedIn(partial1, ready_buffers) /\ ready2 # <<>>
    BY <1>5, <1>9, <2>1, <2>2, Publish
  <2>6. Queued' = QueuedIn(partial_buffers', ready_buffers')
    BY DEF Queued, QueuedIn
  <2> HIDE DEF partial2, ready2
  <2>7. QueueInv'
    BY <1>3, <2>4, <2>5 DEF QueueInv
  <2>8. Queued' = Queued \cup {t}
    BY <1>9, <2>4, <2>5, <2>6, QueuedIs
  <2> QED
    BY <2>4, <2>5, <2>7, <2>8 DEF t
<1>11. CASE ~(Cardinality(gathered) >= TargetBufferSize)
  <2>1. partial_buffers' = partial1 /\ ready_buffers' = ready_buffers /\ partial_lru' = Touched(s)
    BY <1>3, <1>11 DEF Gathering, Holding
  <2>2. Queued' = QueuedIn(partial_buffers', ready_buffers')
    BY DEF Queued, QueuedIn
  <2> HIDE DEF partial1, gathered
  <2>3. QueueInv'
    BY <1>3, <1>9, <2>1 DEF QueueInv
  <2>4. Queued' = Queued \cup {t}
    BY <1>9, <2>1, <2>2, QueuedIs
  <2> QED
    BY <2>1, <2>3, <2>4 DEF t
<1> QED
  BY <1>10, <1>11

LEMMA QueueTargetStep ==
    ASSUME IInv, NEW p \in Producers, QueueTarget(p)
    PROVE  IInv'
<1> DEFINE task == producer[p]
           t == Head(task.pending)
           new == [task EXCEPT !.pending = Tail(task.pending)]
<1>1. TaskInv /\ RunInv /\ QueueInv /\ ScanInv /\ PlaceInv /\ EndInv
  BY DEF IInv
<1>2. /\ task \in Task /\ producer \in [Producers -> Task] /\ TaskOK(p, task, stop_requested)
      /\ task.pending \in Seq(Targets)
  BY <1>1, TaskIs DEF TaskInv
<1>3. /\ task.pc = "queueing" /\ task.pending # <<>>
      /\ UNCHANGED <<lock, active_producers, source_exhausted, stop_requested, error,
                     busy_shards, blocked_producers, scanVars, hostVars>>
  BY DEF QueueTarget
<1>4. Moves(p, new)
  BY <1>2 DEF QueueTarget, Moves
<1>5. new \in Task
  <2>1. Tail(task.pending) \in Seq(Targets)
    BY <1>2, <1>3
  <2> QED
    BY <1>2, <2>1 DEF Task
<1>6. /\ new.pc = "queueing" /\ new.query = task.query /\ new.next_query = task.next_query
      /\ new.row = task.row /\ new.pending = Tail(task.pending) /\ new.exception = task.exception
  BY <1>2, <1>3 DEF Task
<1> HIDE DEF new
<1>7. /\ t \in Targets /\ t \in Ahead(p, task) /\ Ahead(p, new) = Ahead(p, task) \ {t}
      /\ t \in Range(task.pending)
      /\ Range(new.pending) \subseteq Range(task.pending) /\ Distinct(new.pending)
  BY <1>2, <1>3, <1>5, <1>6, HeadAhead
<1>8. TaskOK(p, new, stop_requested)
  <2>1. task.row # 0 /\ task.query # 0
    BY <1>2, <1>3 DEF TaskOK
  <2> QED
    BY <1>2, <1>3, <1>6, <1>7, <2>1 DEF TaskOK
<1>9. lock = p
  BY <1>1, <1>3 DEF TaskInv
<1>10. TaskInv'
  BY <1>1, <1>3, <1>4, <1>5, <1>6, <1>8, <1>9, TasksKept DEF TaskInv
<1>11. \A r \in Producers : producer'[r] = IF r = p THEN new ELSE producer[r]
  BY <1>1, <1>4, <1>5, MovedTask
<1>12. /\ Running' = Running /\ Cardinality(Running) \in Nat \ {0}
  BY <1>1, <1>3, <1>4, <1>5, <1>6, RunningKept
<1>13. RunInv'
  <2>1. \A r \in blocked_producers : cancelled \/ producer'[r].pc = "blocked"
    BY <1>1, <1>3, <1>11 DEF RunInv
  <2> QED
    BY <1>1, <1>3, <1>12, <2>1 DEF RunInv, hostVars
<1>14. ScanInv'
  BY <1>1, <1>3 DEF ScanInv, OneConsumerPerShard, scanVars
<1>15. /\ QueueInv' /\ Queued' = Queued \cup {t} /\ (ready_buffers # <<>> => ready_buffers' # <<>>)
  BY QueueTargetQueue
<1> HIDE DEF t
<1>16. Claimed' = Claimed /\ emitted' = emitted
  BY <1>3 DEF Claimed, scanVars
<1>17. Ahead(p, producer'[p]) = Ahead(p, task) \ {t} /\ \A r \in Producers : r # p => Ahead(r, producer'[r]) = Ahead(r, producer[r])
  BY <1>7, <1>11
<1>18. \A r \in Producers : r # p => t \notin Ahead(r, producer[r])
  BY <1>1, <1>7, OneAhead DEF TaskInv
<1>19. PlaceInv'
  <2>1. t \notin Queued \cup Claimed \cup emitted
    BY <1>1, <1>7 DEF PlaceInv
  <2>2. ASSUME NEW r \in Producers
        PROVE  Ahead(r, producer'[r]) \cap (Queued' \cup Claimed' \cup emitted') = {}
    <3>1. Ahead(r, producer[r]) \cap (Queued \cup Claimed \cup emitted) = {}
      BY <1>1 DEF PlaceInv
    <3>2. Ahead(r, producer'[r]) \subseteq Ahead(r, producer[r]) /\ t \notin Ahead(r, producer'[r])
      BY <1>17, <1>18
    <3> QED
      BY <1>15, <1>16, <3>1, <3>2
  <2>3. Queued' \cap Claimed' = {} /\ Queued' \cap emitted' = {} /\ Claimed' \cap emitted' = {}
    BY <1>1, <1>15, <1>16, <2>1 DEF PlaceInv
  <2>4. emitted' \in SUBSET Targets
    BY <1>1, <1>16 DEF PlaceInv
  <2> QED
    BY <2>2, <2>3, <2>4 DEF PlaceInv
<1>20. Whole => Whole'
  <2> SUFFICES ASSUME Whole, NEW x \in Targets
              
               PROVE  x \in Queued' \cup Claimed' \cup emitted' \/ \E r \in Producers : x \in Ahead(r, producer'[r])
    BY DEF Whole
  <2>1. x \in Queued \cup Claimed \cup emitted \/ \E r \in Producers : x \in Ahead(r, producer[r])
    BY DEF Whole
  <2> QED
    BY <1>15, <1>16, <1>17, <2>1
<1>21. HostInv' /\ NoSilentTruncation'
  BY <1>1, <1>3 DEF EndInv, HostInv, NoSilentTruncation, scanVars, hostVars
<1>22. StopInv'
  BY <1>1, <1>3, <1>6, <1>11 DEF EndInv, StopInv, Undisturbed, hostVars
<1>23. FinishInv'
  BY <1>1, <1>3, <1>12 DEF EndInv, FinishInv, RunInv, Undisturbed, scanVars, hostVars
<1>24. BlockInv'
  BY <1>1, <1>3, <1>15 DEF EndInv, BlockInv
<1>25. WholeInv'
  BY <1>1, <1>3, <1>20 DEF EndInv, WholeInv, Undisturbed, scanVars, hostVars
<1> QED
  BY <1>10, <1>13, <1>14, <1>15, <1>19, <1>21, <1>22, <1>23, <1>24, <1>25 DEF IInv, EndInv

LEMMA FlushOldest ==
    ASSUME QueueInv, FlushOldestPartialBuffer, pending_target_count' = pending_target_count
    PROVE  /\ QueueInv' /\ Queued' = Queued
           /\ pending_target_count > 0 => ready_buffers' # <<>>
<1>1. QueueOK(partial_buffers, partial_lru, ready_buffers, pending_target_count)
  BY DEF QueueInv
<1>2. /\ partial_lru \in Seq(Shards) /\ Distinct(partial_lru)
      /\ partial_buffers \in [Shards -> SUBSET Targets] /\ ready_buffers \in Seq(BufferType)
      /\ \A x \in Shards : partial_buffers[x] # {} <=> Listed(partial_lru, x)
  BY <1>1 DEF QueueOK
<1>3. Queued' = QueuedIn(partial_buffers', ready_buffers')
  BY DEF Queued, QueuedIn
<1>4. CASE partial_lru = <<>>
  <2>1. partial_buffers' = partial_buffers /\ partial_lru' = partial_lru /\ ready_buffers' = ready_buffers
    BY <1>4 DEF FlushOldestPartialBuffer
  <2>2. QueueInv' /\ Queued' = Queued
    BY <1>1, <1>3, <2>1, QueuedIs DEF QueueInv
  <2>3. ASSUME pending_target_count > 0 PROVE ready_buffers # <<>>
    <3> SUFFICES ASSUME ready_buffers = <<>> PROVE FALSE
      OBVIOUS
    <3>1. \A x \in Shards : partial_buffers[x] = {}
      BY <1>2, <1>4 DEF Listed
    <3>2. \A x : x \notin QueuedIn(partial_buffers, ready_buffers)
      <4>1. \A x : ~\E i \in 1..Len(ready_buffers) : x \in ready_buffers[i].targets
        OBVIOUS
      <4> QED
        BY <1>2, <3>1, <4>1, QueuedOf
    <3>3. QueuedIn(partial_buffers, ready_buffers) = {}
      BY <3>2
    <3>4. pending_target_count = 0
      BY <1>1, <3>3, FS_EmptySet DEF QueueOK
    <3> QED
      BY <2>3, <3>4
  <2> QED
    BY <2>1, <2>2, <2>3
<1>5. CASE partial_lru # <<>>
  <2> DEFINE s == Last(partial_lru)
             partial2 == Holding(partial_buffers, s, {})
             ready2 == Append(ready_buffers, [shard |-> s, targets |-> partial_buffers[s]])
  <2>1. s \in Shards /\ Listed(partial_lru, s)
    <3>1. Len(partial_lru) \in 1..Len(partial_lru)
      BY <1>2, <1>5
    <3> QED
      BY <1>2, <3>1 DEF Last, Listed
  <2>2. /\ partial_buffers' = partial2 /\ ready_buffers' = ready2 /\ partial_lru' = Without(s)
    BY <1>5 DEF FlushOldestPartialBuffer, PartialBuffer, Holding
  <2> HIDE DEF s
  <2>3. partial_buffers[s] # {}
    BY <1>2, <2>1
  <2>4. /\ Without(s) \in Seq(Shards) /\ Distinct(Without(s))
        /\ \A x : Listed(Without(s), x) <=> x # s /\ Listed(partial_lru, x)
    BY <1>2, <2>1, ListWithout
  <2>5. /\ QueueOK(partial2, Without(s), ready2, pending_target_count)
        /\ QueuedIn(partial2, ready2) = QueuedIn(partial_buffers, ready_buffers) /\ ready2 # <<>>
    BY <1>1, <2>1, <2>3, <2>4, Publish
  <2> HIDE DEF partial2, ready2
  <2>6. QueueInv' /\ Queued' = Queued
    BY <1>3, <2>2, <2>5, QueuedIs DEF QueueInv
  <2> QED
    BY <2>2, <2>5, <2>6
<1> QED
  BY <1>4, <1>5

LEMMA BlockProducerStep ==
    ASSUME IInv, NEW p \in Producers, BlockProducer(p)
    PROVE  IInv'
<1> DEFINE task == producer[p]
           new == [task EXCEPT !.pc = "blocked"]
<1>1. TaskInv /\ RunInv /\ QueueInv /\ ScanInv /\ PlaceInv /\ EndInv
  BY DEF IInv
<1>2. /\ task.pc = "queueing" /\ pending_target_count >= MaxPendingTargets
      /\ FlushOldestPartialBuffer /\ blocked_producers' = blocked_producers \cup {p}
      /\ lock' = NoTask /\ producer' = Goto(p, "blocked")
      /\ UNCHANGED <<active_producers, source_exhausted, stop_requested, error,
                     pending_target_count, busy_shards, scanVars, hostVars>>
  BY DEF BlockProducer
<1>3. "blocked" \in ProducerSteps /\ MayGo(p, "blocked", stop_requested)
  BY DEF ProducerSteps, MayGo
<1>4. /\ new \in Task /\ new.pc = "blocked" /\ Goto(p, "blocked") = [producer EXCEPT ![p] = new]
      /\ Ahead(p, new) = Ahead(p, task)
  BY <1>1, <1>3, Going
<1>5. TaskOK(p, new, stop_requested)
  BY <1>1, <1>3, GoingOK
<1> HIDE DEF new
<1>6. Moves(p, new)
  BY <1>2, <1>4 DEF Moves
<1>7. \A r \in Producers : producer'[r] = IF r = p THEN new ELSE producer[r]
  BY <1>1, <1>4, <1>6, MovedTask
<1>8. TaskInv'
  <2>1. lock = p
    BY <1>1, <1>2 DEF TaskInv
  <2>2. \A r \in Producers : r # NoTask
    BY Workers DEF NoTask
  <2>3. stop_requested' \in BOOLEAN /\ stop_requested' = stop_requested
    BY <1>1, <1>2 DEF TaskInv
  <2>4. \A r \in Producers : r # p => (lock' = r <=> lock = r)
    BY <1>2, <2>1, <2>2
  <2> QED
    BY <1>1, <1>2, <1>4, <1>5, <1>6, <2>2, <2>3, <2>4, TasksKept
<1>9. Running' = Running
  BY <1>1, <1>2, <1>4, <1>6, RunningKept
<1>10. RunInv'
  <2>1. \A r \in blocked_producers' : cancelled \/ producer'[r].pc = "blocked"
    BY <1>1, <1>2, <1>4, <1>7 DEF RunInv
  <2> QED
    BY <1>1, <1>2, <1>9, <2>1 DEF RunInv, hostVars
<1>11. ScanInv'
  BY <1>1, <1>2 DEF ScanInv, OneConsumerPerShard, scanVars
<1>12. QueueInv' /\ Queued' = Queued /\ ready_buffers' # <<>>
  BY <1>1, <1>2, FlushOldest, BudgetAssumption, QueuedFinite DEF QueueInv
<1>13. Claimed' = Claimed /\ emitted' = emitted
  BY <1>2 DEF Claimed, scanVars
<1>14. \A r \in Producers : Ahead(r, producer'[r]) = Ahead(r, producer[r])
  BY <1>1, <1>4, <1>6, AheadMoves
<1>15. PlaceInv'
  BY <1>1, <1>12, <1>13, <1>14, PlacesShrink
<1>16. HostInv' /\ NoSilentTruncation'
  BY <1>1, <1>2 DEF EndInv, HostInv, NoSilentTruncation, scanVars, hostVars
<1>17. StopInv'
  BY <1>1, <1>2, <1>4, <1>7 DEF EndInv, StopInv, Undisturbed, hostVars
<1>18. FinishInv' /\ BlockInv'
  <2>1. ~source_exhausted
    <3>1. Cardinality(Running) \in Nat \ {0}
      BY <1>1, <1>2, <1>4, <1>6, RunningKept
    <3> QED
      BY <1>1, <3>1 DEF RunInv
  <2> QED
    BY <1>1, <1>2, <1>12, <2>1 DEF EndInv, FinishInv, BlockInv, Undisturbed, scanVars, hostVars
<1>19. WholeInv'
  BY <1>1, <1>2, <1>12, <1>13, <1>14, WholeKept DEF EndInv, WholeInv, Undisturbed, scanVars,
     hostVars
<1> QED
  BY <1>8, <1>10, <1>11, <1>12, <1>15, <1>16, <1>17, <1>18, <1>19 DEF IInv, EndInv

-----------------------------------------------------------------------------
(* Stops, and the producers that are resumed *)

\* What becomes of the tasks: `tasks' are those of RequestStop's caller.
CallerTasks(tasks) ==
    \/ tasks = producer
    \/ \E p \in Producers : producer[p].pc \in {"stop", "fail"} /\ tasks = Goto(p, "finish") /\ stop_requested'

SamePosition(task, new) ==
    /\ new.next_query = task.next_query /\ new.query = task.query /\ new.row = task.row
    /\ new.pending = task.pending /\ new.exception = task.exception

LEMMA ResumedTasks ==
    ASSUME IInv, NEW tasks, CallerTasks(tasks), ResumeBlocked(tasks), lock = NoTask
    PROVE  \A r \in Producers :
              /\ producer'[r] \in Task /\ SamePosition(producer[r], producer'[r])
              /\ producer'[r].pc # "queueing"
              /\ producer'[r].pc = "stop" => producer[r].pc = "stop"
              /\ producer'[r].pc = "done" <=> producer[r].pc = "done"
              /\ \/ producer'[r].pc = producer[r].pc \/ producer'[r].pc = "loop"
                 \/ producer'[r].pc = "finish" /\ stop_requested'
<1> SUFFICES ASSUME NEW r \in Producers
             PROVE  /\ producer'[r] \in Task /\ SamePosition(producer[r], producer'[r])
                    /\ producer'[r].pc # "queueing"
                    /\ producer'[r].pc = "stop" => producer[r].pc = "stop"
                    /\ producer'[r].pc = "done" <=> producer[r].pc = "done"
                    /\ \/ producer'[r].pc = producer[r].pc \/ producer'[r].pc = "loop"
                       \/ producer'[r].pc = "finish" /\ stop_requested'
  OBVIOUS
<1>1. TaskInv /\ RunInv
  BY DEF IInv
<1>2. producer \in [Producers -> Task] /\ producer[r] \in Task /\ producer[r].pc # "queueing"
  BY <1>1, Workers DEF TaskInv, NoTask
<1>3. "finish" \in ProducerSteps /\ "loop" \in ProducerSteps
  BY DEF ProducerSteps
<1>4. /\ tasks[r] \in Task /\ SamePosition(producer[r], tasks[r])
      /\ \/ tasks[r].pc = producer[r].pc
         \/ producer[r].pc \in {"stop", "fail"} /\ tasks[r].pc = "finish" /\ stop_requested'
  <2>1. CASE tasks = producer
    BY <1>2, <2>1 DEF SamePosition
  <2>2. CASE \E p \in Producers : producer[p].pc \in {"stop", "fail"} /\ tasks = Goto(p, "finish") /\ stop_requested'
    <3>1. PICK p \in Producers : producer[p].pc \in {"stop", "fail"} /\ tasks = Goto(p, "finish") /\ stop_requested'
      BY <2>2
    <3> DEFINE new == [producer[p] EXCEPT !.pc = "finish"]
    <3>2. /\ new \in Task /\ new.pc = "finish" /\ SamePosition(producer[p], new)
          /\ tasks = [producer EXCEPT ![p] = new]
      BY <1>1, <1>3, <3>1, Going DEF SamePosition
    <3> HIDE DEF new
    <3>3. tasks[r] = IF r = p THEN new ELSE producer[r]
      BY <1>2, <3>2
    <3> QED
      BY <1>2, <3>1, <3>2, <3>3 DEF SamePosition
  <2> QED
    BY <2>1, <2>2 DEF CallerTasks
<1>5. producer'[r] = IF r \in blocked_producers /\ ~cancelled THEN [tasks[r] EXCEPT !.pc = "loop"] ELSE tasks[r]
  BY DEF ResumeBlocked
<1>6. CASE r \in blocked_producers /\ ~cancelled
  <2>1. producer[r].pc = "blocked"
    BY <1>1, <1>6 DEF RunInv
  <2> DEFINE new == [tasks[r] EXCEPT !.pc = "loop"]
  <2>2. new \in Task
    BY <1>3, <1>4 DEF Task
  <2>3. new.pc = "loop" /\ SamePosition(tasks[r], new)
    BY <1>4 DEF Task, SamePosition
  <2>4. producer'[r] = new
    BY <1>5, <1>6
  <2> HIDE DEF new
  <2> QED
    BY <1>4, <2>1, <2>2, <2>3, <2>4 DEF SamePosition
<1>7. CASE ~(r \in blocked_producers /\ ~cancelled)
  BY <1>2, <1>4, <1>5, <1>7
<1> QED
  BY <1>6, <1>7

LEMMA Resumed ==
    ASSUME IInv, NEW tasks, CallerTasks(tasks), ResumeBlocked(tasks), lock = NoTask,
           stop_requested' \in BOOLEAN, stop_requested => stop_requested',
           UNCHANGED <<lock, active_producers, source_exhausted, cancelled>>
    PROVE  /\ TaskInv' /\ RunInv' /\ blocked_producers' = {}
           /\ \A r \in Producers : Ahead(r, producer'[r]) = Ahead(r, producer[r])
           /\ \A r \in Producers : producer'[r].pc = "stop" => producer[r].pc = "stop"
<1>1. \A r \in Producers :
         /\ producer'[r] \in Task /\ SamePosition(producer[r], producer'[r])
         /\ producer'[r].pc # "queueing"
         /\ producer'[r].pc = "stop" => producer[r].pc = "stop"
         /\ producer'[r].pc = "done" <=> producer[r].pc = "done"
         /\ \/ producer'[r].pc = producer[r].pc \/ producer'[r].pc = "loop"
            \/ producer'[r].pc = "finish" /\ stop_requested'
  BY ResumedTasks
<1>2. TaskInv /\ RunInv
  BY DEF IInv
<1>3. producer' \in [Producers -> Task]
  <2>1. producer' = [p \in Producers |-> producer'[p]]
    BY DEF ResumeBlocked
  <2> QED
    BY <1>1, <2>1
<1>4. ASSUME NEW r \in Producers PROVE TaskOK(r, producer'[r], stop_requested')
  <2>1. TaskOK(r, producer[r], stop_requested)
    BY <1>2 DEF TaskInv
  <2>2. /\ SamePosition(producer[r], producer'[r])
        /\ \/ producer'[r].pc = producer[r].pc \/ producer'[r].pc = "loop"
           \/ producer'[r].pc = "finish" /\ stop_requested'
    BY <1>1
  <2> QED
    BY <2>1, <2>2 DEF TaskOK, SamePosition
<1>5. ASSUME NEW r \in Producers PROVE Ahead(r, producer'[r]) = Ahead(r, producer[r])
  <2>1. SamePosition(producer[r], producer'[r])
    BY <1>1
  <2> QED
    BY <2>1 DEF SamePosition, Ahead, Unread
<1>6. TaskInv'
  <2>1. \A r \in Producers : producer'[r].pc = "queueing" <=> lock' = r
    BY <1>1, Workers DEF NoTask
  <2> QED
    BY <1>3, <1>4, <2>1 DEF TaskInv
<1>7. RunInv' /\ blocked_producers' = {}
  <2>1. Running' = Running
    BY <1>1 DEF Running
  <2>2. blocked_producers' = {}
    BY DEF ResumeBlocked
  <2> QED
    BY <1>2, <2>1, <2>2 DEF RunInv
<1> QED
  BY <1>1, <1>5, <1>6, <1>7

\* The scan is stopped, and nothing else happens to its targets.
LEMMA Stopping ==
    ASSUME IInv, NEW tasks, CallerTasks(tasks), RequestStop(tasks), lock = NoTask,
           UNCHANGED <<lock, active_producers, source_exhausted, queueVars, busy_shards, interrupted, cancelled>>,
           emitted' = emitted, Claimed' = Claimed
    PROVE  /\ TaskInv' /\ RunInv' /\ QueueInv' /\ PlaceInv' /\ BlockInv' /\ WholeInv'
           /\ Queued' = Queued
           /\ \A r \in Producers : producer'[r].pc = "stop" => interrupted' \/ stop_requested'
<1>1. stop_requested' = TRUE /\ ResumeBlocked(tasks)
  BY DEF RequestStop
<1>2. /\ TaskInv' /\ RunInv' /\ blocked_producers' = {}
      /\ \A r \in Producers : Ahead(r, producer'[r]) = Ahead(r, producer[r])
  BY <1>1, Resumed
<1>3. QueueInv' /\ Queued' = Queued
  BY DEF IInv, QueueInv, Queued, queueVars
<1>4. PlaceInv'
  BY <1>2, <1>3, PlacesShrink DEF IInv
<1> QED
  BY <1>1, <1>2, <1>3, <1>4 DEF BlockInv, WholeInv

LEMMA StopScanStep ==
    ASSUME IInv, NEW p \in Producers, StopScan(p)
    PROVE  IInv'
<1>1. /\ producer[p].pc = "stop" /\ lock = NoTask /\ RequestStop(Goto(p, "finish"))
      /\ UNCHANGED <<lock, active_producers, source_exhausted, error, queueVars, busy_shards, scanVars, hostVars>>
      /\ stop_requested' = TRUE
  BY DEF StopScan, RequestStop
<1>2. CallerTasks(Goto(p, "finish"))
  BY <1>1 DEF CallerTasks
<1>3. Claimed' = Claimed /\ emitted' = emitted
  BY <1>1 DEF Claimed, scanVars
<1>4. /\ TaskInv' /\ RunInv' /\ QueueInv' /\ PlaceInv' /\ BlockInv' /\ WholeInv'
      /\ \A r \in Producers : producer'[r].pc = "stop" => interrupted' \/ stop_requested'
  BY <1>1, <1>2, <1>3, Stopping DEF hostVars
<1>5. ScanInv'
  BY <1>1 DEF IInv, ScanInv, OneConsumerPerShard, scanVars
<1>6. HostInv' /\ FinishInv' /\ NoSilentTruncation'
  BY <1>1 DEF IInv, EndInv, HostInv, FinishInv, NoSilentTruncation, Undisturbed, scanVars,
     hostVars, queueVars
<1>7. StopInv'
  BY <1>1, <1>4 DEF IInv, EndInv, StopInv, Undisturbed, hostVars
<1> QED
  BY <1>4, <1>5, <1>6, <1>7 DEF IInv, EndInv

LEMMA FailStep ==
    ASSUME IInv, NEW p \in Producers, Fail(p)
    PROVE  IInv'
<1>1. /\ producer[p].pc = "fail" /\ lock = NoTask /\ RequestStop(Goto(p, "finish"))
      /\ UNCHANGED <<lock, active_producers, source_exhausted, queueVars, busy_shards, scanVars, hostVars>>
      /\ stop_requested' = TRUE /\ error' = FirstError(p)
  BY DEF Fail, RequestStop
<1>2. CallerTasks(Goto(p, "finish"))
  BY <1>1 DEF CallerTasks
<1>3. Claimed' = Claimed /\ emitted' = emitted
  BY <1>1 DEF Claimed, scanVars
<1>4. /\ TaskInv' /\ RunInv' /\ QueueInv' /\ PlaceInv' /\ BlockInv' /\ WholeInv'
      /\ \A r \in Producers : producer'[r].pc = "stop" => interrupted' \/ stop_requested'
  BY <1>1, <1>2, <1>3, Stopping DEF hostVars
<1>5. ScanInv'
  BY <1>1 DEF IInv, ScanInv, OneConsumerPerShard, scanVars
<1>6. error' # "none"
  <2>1. producer[p].exception # "none"
    BY <1>1 DEF IInv, TaskInv, TaskOK
  <2> QED
    BY <1>1, <2>1 DEF FirstError
<1>7. ~source_exhausted
  <2>1. p \in Running /\ IsFiniteSet(Running)
    BY <1>1, Workers, FS_Subset DEF Running
  <2> QED
    BY <2>1, FS_EmptySet DEF IInv, RunInv
<1>8. HostInv' /\ FinishInv' /\ NoSilentTruncation'
  BY <1>1, <1>7 DEF IInv, EndInv, HostInv, FinishInv, NoSilentTruncation, Undisturbed, scanVars,
     hostVars, queueVars
<1>9. StopInv'
  BY <1>1, <1>4, <1>6 DEF StopInv
<1> QED
  BY <1>4, <1>5, <1>8, <1>9 DEF IInv, EndInv

LEMMA DestroyScanStep ==
    ASSUME IInv, DestroyScan
    PROVE  IInv'
<1>1. /\ lock = NoTask /\ RequestStop(producer) /\ \A c \in Consumers : consumer[c].pc \in Ended
      /\ UNCHANGED <<lock, active_producers, source_exhausted, error, queueVars, busy_shards,
                     scanVars, interrupted, cancelled>>
      /\ stop_requested' = TRUE /\ destroyed' = TRUE
  BY DEF DestroyScan, RequestStop
<1>2. CallerTasks(producer)
  BY DEF CallerTasks
<1>3. Claimed' = Claimed /\ emitted' = emitted
  BY <1>1 DEF Claimed, scanVars
<1>4. /\ TaskInv' /\ RunInv' /\ QueueInv' /\ PlaceInv' /\ BlockInv' /\ WholeInv'
      /\ \A r \in Producers : producer'[r].pc = "stop" => interrupted' \/ stop_requested'
  BY <1>1, <1>2, <1>3, Stopping
<1>5. ScanInv'
  BY <1>1 DEF IInv, ScanInv, OneConsumerPerShard, scanVars
<1>6. HostInv' /\ FinishInv' /\ NoSilentTruncation'
  BY <1>1 DEF IInv, EndInv, HostInv, FinishInv, NoSilentTruncation, Undisturbed, scanVars, queueVars
<1>7. StopInv'
  BY <1>1, <1>4 DEF StopInv
<1> QED
  BY <1>4, <1>5, <1>6, <1>7 DEF IInv, EndInv

-----------------------------------------------------------------------------
(* The end of a producer *)

LEMMA FinishedQueue ==
    ASSUME QueueInv, NEW stops \in BOOLEAN,
           IF stops THEN DropQueued
           ELSE IF active_producers = 1 THEN FlushAllPartialBuffers ELSE UNCHANGED queueVars
    PROVE  /\ QueueInv' /\ Queued' \subseteq Queued
           /\ ~stops => Queued' = Queued /\ (ready_buffers # <<>> => ready_buffers' # <<>>)
           /\ stops \/ active_producers = 1 => \A s \in Shards : partial_buffers'[s] = {}
           /\ ~stops /\ active_producers # 1 => partial_buffers' = partial_buffers
<1>1. QueueOK(partial_buffers, partial_lru, ready_buffers, pending_target_count)
  BY DEF QueueInv
<1>2. Queued' = QueuedIn(partial_buffers', ready_buffers')
  BY DEF Queued, QueuedIn
<1>3. \A s \in Shards : Nothing[s] = {}
  BY DEF Nothing
<1>4. CASE stops
  <2>1. partial_buffers' = Nothing /\ partial_lru' = <<>> /\ ready_buffers' = <<>> /\ pending_target_count' = 0
    BY <1>4 DEF DropQueued, Nothing
  <2>2. Queued' = {} /\ QueueInv'
    BY <1>2, <2>1, DropAll DEF QueueInv
  <2> QED
    BY <1>3, <1>4, <2>1, <2>2
<1>5. CASE ~stops /\ active_producers = 1
  <2>1. FlushAllPartialBuffers
    BY <1>5
  <2>2. PICK order \in [1..Cardinality(Gathered) -> Gathered] :
           /\ Range(order) = Gathered
           /\ ready_buffers' = ready_buffers \o [i \in DOMAIN order |-> PartialBuffer(order[i])]
    BY <2>1 DEF FlushAllPartialBuffers
  <2>3. partial_buffers' = Nothing /\ partial_lru' = <<>> /\ pending_target_count' = pending_target_count
    BY <2>1 DEF FlushAllPartialBuffers, Nothing
  <2>4. /\ QueueOK(Nothing, <<>>, ready_buffers', pending_target_count)
        /\ QueuedIn(Nothing, ready_buffers') = QueuedIn(partial_buffers, ready_buffers)
        /\ ready_buffers # <<>> => ready_buffers' # <<>>
    <3>1. Gathered = NotEmpty(partial_buffers)
      BY DEF Gathered, NotEmpty
    <3>2. ready_buffers' = ready_buffers \o Flushed(partial_buffers, order)
      BY <2>2 DEF PartialBuffer, Flushed
    <3>3. /\ order \in [1..Cardinality(NotEmpty(partial_buffers)) -> NotEmpty(partial_buffers)]
          /\ Range(order) = NotEmpty(partial_buffers)
      BY <2>2, <3>1
    <3> QED
      BY <1>1, <3>2, <3>3, PublishAll
  <2> QED
    BY <1>2, <1>3, <1>5, <2>3, <2>4, QueuedIs DEF QueueInv
<1>6. CASE ~stops /\ active_producers # 1
  <2>1. UNCHANGED queueVars
    BY <1>6
  <2> QED
    BY <1>6, <2>1 DEF QueueInv, Queued, queueVars
<1> QED
  BY <1>4, <1>5, <1>6

LEMMA ProducerFinishedStep ==
    ASSUME IInv, NEW p \in Producers, NEW abandoned \in BOOLEAN, ProducerFinished(p, abandoned),
           \/ producer[p].pc = "finish" /\ ~abandoned
           \/ producer[p].pc = "blocked" /\ abandoned /\ cancelled
    PROVE  IInv'
<1> DEFINE stops == stop_requested \/ abandoned
           task == producer[p]
           new == [task EXCEPT !.pc = "done"]
<1>1. TaskInv /\ RunInv /\ QueueInv /\ ScanInv /\ PlaceInv /\ EndInv
  BY DEF IInv
<1>2. /\ lock = NoTask /\ stop_requested' = stops /\ active_producers' = active_producers - 1
      /\ source_exhausted' = (source_exhausted \/ active_producers = 1)
      /\ producer' = Goto(p, "done")
      /\ UNCHANGED <<lock, error, busy_shards, blocked_producers, scanVars, hostVars>>
  BY DEF ProducerFinished
<1>3. IF stops THEN DropQueued
      ELSE IF active_producers = 1 THEN FlushAllPartialBuffers ELSE UNCHANGED queueVars
  BY DEF ProducerFinished
<1>4. stops \in BOOLEAN /\ (stop_requested => stops) /\ (stops /\ ~stop_requested => cancelled)
  BY <1>1 DEF TaskInv
<1>5. /\ QueueInv' /\ Queued' \subseteq Queued
      /\ ~stops => Queued' = Queued /\ (ready_buffers # <<>> => ready_buffers' # <<>>)
      /\ stops \/ active_producers = 1 => \A s \in Shards : partial_buffers'[s] = {}
      /\ ~stops /\ active_producers # 1 => partial_buffers' = partial_buffers
  BY <1>1, <1>3, <1>4, FinishedQueue
<1>6. "done" \in ProducerSteps /\ MayGo(p, "done", stops)
  BY <1>1 DEF ProducerSteps, MayGo, TaskInv, TaskOK
<1> HIDE DEF stops
<1>7. /\ new \in Task /\ new.pc = "done" /\ Goto(p, "done") = [producer EXCEPT ![p] = new]
      /\ Ahead(p, new) = Ahead(p, task)
  BY <1>1, <1>6, Going
<1>8. TaskOK(p, new, stops)
  BY <1>1, <1>6, GoingOK
<1> HIDE DEF new
<1>9. Moves(p, new)
  BY <1>2, <1>7 DEF Moves
<1>10. \A r \in Producers : producer'[r] = IF r = p THEN new ELSE producer[r]
  BY <1>1, <1>7, <1>9, MovedTask
<1>11. TaskInv'
  <2>1. \A r \in Producers : r # NoTask
    BY Workers DEF NoTask
  <2>2. lock' = lock /\ lock' \in Producers \cup {NoTask} /\ lock' # p
    BY <1>2, <2>1
  <2> QED
    BY <1>1, <1>2, <1>4, <1>7, <1>8, <1>9, <2>2, TasksKept
<1>12. /\ Cardinality(Running) \in Nat \ {0} /\ Cardinality(Running') = Cardinality(Running) - 1
  BY <1>1, <1>7, <1>9, RunningKept
<1>13. ~source_exhausted
  BY <1>1, <1>12 DEF RunInv
<1>14. RunInv'
  <2>1. active_producers' = Cardinality(Running') /\ source_exhausted' = (active_producers' = 0)
    BY <1>1, <1>2, <1>12, <1>13 DEF RunInv
  <2>2. \A r \in blocked_producers : cancelled \/ producer'[r].pc = "blocked"
    BY <1>1, <1>10 DEF RunInv
  <2> QED
    BY <1>1, <1>2, <2>1, <2>2 DEF RunInv, hostVars
<1>15. ScanInv'
  BY <1>1, <1>2 DEF ScanInv, OneConsumerPerShard, scanVars
<1>16. Claimed' = Claimed /\ emitted' = emitted
  BY <1>2 DEF Claimed, scanVars
<1>17. \A r \in Producers : Ahead(r, producer'[r]) = Ahead(r, producer[r])
  BY <1>1, <1>7, <1>9, AheadMoves
<1>18. PlaceInv'
  BY <1>1, <1>5, <1>16, <1>17, PlacesShrink
<1>19. HostInv' /\ NoSilentTruncation'
  BY <1>1, <1>2 DEF EndInv, HostInv, NoSilentTruncation, scanVars, hostVars
<1>20. StopInv'
  BY <1>1, <1>2, <1>4, <1>7, <1>10 DEF EndInv, StopInv, Undisturbed, hostVars
<1>21. FinishInv'
  BY <1>1, <1>2, <1>5, <1>13 DEF EndInv, FinishInv, Undisturbed, scanVars, hostVars
<1>22. BlockInv'
  BY <1>1, <1>2, <1>4, <1>5 DEF EndInv, BlockInv
<1>23. WholeInv'
  BY <1>1, <1>2, <1>4, <1>5, <1>16, <1>17, WholeKept DEF EndInv, WholeInv, Undisturbed, scanVars,
     hostVars
<1> QED
  BY <1>5, <1>11, <1>14, <1>15, <1>18, <1>19, <1>20, <1>21, <1>22, <1>23 DEF IInv, EndInv

LEMMA ProducerEndStep ==
    ASSUME IInv, NEW p \in Producers, Finish(p) \/ Abandon(p)
    PROVE  IInv'
BY ProducerFinishedStep DEF Finish, Abandon

-----------------------------------------------------------------------------
(* The consumers *)

\* The local state of consumer c becomes local.
Turns(c, local) == consumer' = [consumer EXCEPT ![c] = local]

LEMMA TurnedConsumer ==
    ASSUME ScanInv, NEW c \in Consumers, NEW local \in ConsumerType, Turns(c, local)
    PROVE  /\ consumer' \in [Consumers -> ConsumerType]
           /\ \A d \in Consumers : consumer'[d] = IF d = c THEN local ELSE consumer[d]
BY DEF ScanInv, Turns

\* A consumer that decodes nothing before and after.
LEMMA IdleScan ==
    ASSUME ScanInv, NEW c \in Consumers, NEW local \in ConsumerType, Turns(c, local),
           consumer[c].pc \in {"claim", "wait"}, local.pc \in {"claim", "wait", "finished", "failed"},
           local.buffer = consumer[c].buffer, busy_shards' = busy_shards
    PROVE  ScanInv' /\ Claimed' = Claimed
<1>1. /\ consumer' \in [Consumers -> ConsumerType]
      /\ \A d \in Consumers : consumer'[d] = IF d = c THEN local ELSE consumer[d]
  BY TurnedConsumer
<1>2. \A d \in Consumers : ConsumerOK(consumer'[d])
  BY <1>1 DEF ScanInv, ConsumerOK
<1>3. OneConsumerPerShard'
  BY <1>1 DEF ScanInv, OneConsumerPerShard
<1>4. Claimed' = Claimed
  BY ClaimedMoves DEF Turns
<1>5. ASSUME \A d \in Consumers : consumer'[d].pc # "dropped", NEW s \in busy_shards'
      PROVE  \E d \in Consumers : consumer'[d].pc = "decode" /\ consumer'[d].buffer.shard = s
  <2>1. \A d \in Consumers : consumer[d].pc # "dropped"
    BY <1>1, <1>5
  <2>2. PICK d \in Consumers : consumer[d].pc = "decode" /\ consumer[d].buffer.shard = s
    BY <1>5, <2>1 DEF ScanInv
  <2> QED
    BY <1>1, <2>2
<1> QED
  BY <1>1, <1>2, <1>3, <1>4, <1>5 DEF ScanInv

\* What a step of one consumer that leaves the producers alone keeps.
LEMMA ProducersAside ==
    ASSUME IInv, UNCHANGED <<lock, stateVars, producer>>, cancelled' = cancelled
    PROVE  TaskInv' /\ RunInv' /\ QueueInv' /\ Queued' = Queued
<1>1. TaskInv /\ RunInv /\ QueueInv
  BY DEF IInv
<1>2. TaskInv' /\ RunInv'
  BY <1>1 DEF TaskInv, RunInv, Running, stateVars
<1> QED
  BY <1>1, <1>2 DEF QueueInv, Queued, stateVars, queueVars

\* The fields of a local state.
LEMMA LocalFields ==
    ASSUME NEW local \in ConsumerType, NEW pc \in {"claim", "wait", "decode", "finished",
           "failed", "dropped"}
    PROVE  LET new == [local EXCEPT !.pc = pc]
           IN  new \in ConsumerType /\ new.pc = pc /\ new.buffer = local.buffer
BY DEF ConsumerType

LEMMA WaitStep ==
    ASSUME IInv, NEW c \in Consumers, Wait(c)
    PROVE  IInv'
<1> DEFINE local == [consumer[c] EXCEPT !.pc = "claim"]
<1>1. TaskInv /\ RunInv /\ QueueInv /\ ScanInv /\ PlaceInv /\ EndInv
  BY DEF IInv
<1>2. consumer[c].pc = "wait" /\ UNCHANGED <<lock, stateVars, producer, emitted, hostVars>>
  BY DEF Wait
<1>3. consumer[c] \in ConsumerType /\ consumer \in [Consumers -> ConsumerType]
  BY <1>1 DEF ScanInv
<1>4. local \in ConsumerType /\ local.pc = "claim" /\ local.buffer = consumer[c].buffer
  BY <1>3, LocalFields
<1>5. Turns(c, local)
  BY <1>3 DEF Wait, Turns
<1> HIDE DEF local
<1>6. \A d \in Consumers : consumer'[d] = IF d = c THEN local ELSE consumer[d]
  BY <1>1, <1>4, <1>5, TurnedConsumer
<1>7. ScanInv' /\ Claimed' = Claimed
  BY <1>1, <1>2, <1>4, <1>5, IdleScan DEF stateVars
<1>8. TaskInv' /\ RunInv' /\ QueueInv' /\ Queued' = Queued
  BY <1>2, ProducersAside DEF hostVars
<1>9. PlaceInv'
  BY <1>1, <1>2, <1>7, <1>8, PlacesShrink
<1>10. HostInv'
  BY <1>1, <1>2, <1>4, <1>6 DEF EndInv, HostInv, Ended, hostVars
<1>11. StopInv' /\ BlockInv'
  BY <1>1, <1>2 DEF EndInv, StopInv, BlockInv, Undisturbed, hostVars, stateVars, queueVars
<1>12. FinishInv'
  BY <1>1, <1>2, <1>4, <1>6 DEF EndInv, FinishInv, Undisturbed, hostVars, stateVars, queueVars
<1>13. WholeInv'
  <2>1. (\A d \in Consumers : consumer'[d].pc \notin {"dropped", "failed"}) =>
           \A d \in Consumers : consumer[d].pc \notin {"dropped", "failed"}
    BY <1>2, <1>6
  <2> QED
    BY <1>1, <1>2, <1>7, <1>8, <2>1, WholeKept DEF EndInv, WholeInv, Undisturbed, hostVars,
       stateVars
<1>14. NoSilentTruncation'
  BY <1>4, <1>6 DEF NoSilentTruncation
<1> QED
  BY <1>7, <1>8, <1>9, <1>10, <1>11, <1>12, <1>13, <1>14 DEF IInv, EndInv

LEMMA WaitInterruptedStep ==
    ASSUME IInv, NEW c \in Consumers, WaitInterrupted(c)
    PROVE  IInv'
<1>1. TaskInv /\ RunInv /\ QueueInv /\ ScanInv /\ PlaceInv /\ EndInv
  BY DEF IInv
<1>2. /\ consumer[c].pc = "wait" /\ lock = NoTask /\ interrupted /\ RequestStop(producer)
      /\ UNCHANGED <<lock, active_producers, source_exhausted, error, queueVars, busy_shards,
                     emitted, hostVars>>
      /\ stop_requested' = TRUE
  BY DEF WaitInterrupted, RequestStop
<1>3. PICK pc \in {"failed", "claim"} : consumer' = [consumer EXCEPT ![c].pc = pc]
  BY DEF WaitInterrupted
<1> DEFINE local == [consumer[c] EXCEPT !.pc = pc]
<1>4. consumer[c] \in ConsumerType /\ consumer \in [Consumers -> ConsumerType]
  BY <1>1 DEF ScanInv
<1>5. local \in ConsumerType /\ local.pc = pc /\ local.buffer = consumer[c].buffer
  <2>1. pc \in {"claim", "wait", "decode", "finished", "failed", "dropped"}
    OBVIOUS
  <2> QED
    BY <1>4, <2>1, LocalFields
<1>6. Turns(c, local)
  BY <1>3, <1>4 DEF Turns
<1> HIDE DEF local
<1>7. \A d \in Consumers : consumer'[d] = IF d = c THEN local ELSE consumer[d]
  BY <1>1, <1>5, <1>6, TurnedConsumer
<1>8. ScanInv' /\ Claimed' = Claimed
  BY <1>1, <1>2, <1>5, <1>6, IdleScan
<1>9. CallerTasks(producer)
  BY DEF CallerTasks
<1>10. /\ TaskInv' /\ RunInv' /\ QueueInv' /\ PlaceInv' /\ BlockInv' /\ WholeInv'
       /\ \A r \in Producers : producer'[r].pc = "stop" => interrupted' \/ stop_requested'
  BY <1>2, <1>8, <1>9, Stopping DEF hostVars
<1>11. interrupted' /\ interrupted' \in BOOLEAN
  BY <1>1, <1>2 DEF hostVars, EndInv, HostInv
<1>12. StopInv' /\ NoSilentTruncation'
  BY <1>10, <1>11 DEF StopInv, NoSilentTruncation, Undisturbed
<1>13. FinishInv'
  BY <1>1, <1>2, <1>11 DEF EndInv, FinishInv, Undisturbed, queueVars
<1>14. HostInv'
  BY <1>1, <1>2, <1>7, <1>11 DEF EndInv, HostInv, Ended, hostVars
<1> QED
  BY <1>8, <1>10, <1>12, <1>13, <1>14 DEF IInv, EndInv

LEMMA ClaimReadyStep ==
    ASSUME IInv, NEW c \in Consumers, ClaimReady(c)
    PROVE  IInv'
<1>1. TaskInv /\ RunInv /\ QueueInv /\ ScanInv /\ PlaceInv /\ EndInv
  BY DEF IInv
<1>2. /\ consumer[c].pc = "claim" /\ lock = NoTask /\ error = "none" /\ ResumeBlocked(producer)
      /\ UNCHANGED <<lock, active_producers, source_exhausted, stop_requested, error,
                     partial_buffers, partial_lru, emitted, hostVars>>
  BY DEF ClaimReady
<1>3. PICK i \in DOMAIN ready_buffers :
         /\ Claimable(i)
         /\ consumer' = [consumer EXCEPT ![c] = [pc |-> "decode", buffer |-> ready_buffers[i]]]
         /\ ready_buffers' = RemoveAt(ready_buffers, i)
         /\ busy_shards' = busy_shards \cup {ready_buffers[i].shard}
         /\ pending_target_count' = pending_target_count - Cardinality(ready_buffers[i].targets)
  BY DEF ClaimReady
<1> DEFINE b == ready_buffers[i]
           local == [pc |-> "decode", buffer |-> b]
<1>4. /\ QueueOK(partial_buffers, partial_lru, ready_buffers, pending_target_count)
      /\ ready_buffers \in Seq(BufferType) /\ i \in 1..Len(ready_buffers)
  BY <1>1 DEF QueueInv, QueueOK
<1>5. b \in BufferType /\ \A t \in b.targets : t.shard = b.shard
  BY <1>4 DEF QueueOK
<1>6. b.shard \in Shards /\ b.targets \subseteq Targets /\ b.shard \notin busy_shards
  BY <1>3, <1>5 DEF BufferType, Claimable
<1>7. local \in ConsumerType /\ local.pc = "decode" /\ local.buffer = b
  BY <1>5 DEF ConsumerType, BufferType
<1>8. Turns(c, local)
  BY <1>3 DEF Turns
<1>9. /\ QueueOK(partial_buffers, partial_lru, RemoveAt(ready_buffers, i), pending_target_count - Cardinality(b.targets))
      /\ QueuedIn(partial_buffers, RemoveAt(ready_buffers, i)) = QueuedIn(partial_buffers, ready_buffers) \ b.targets
      /\ b.targets \subseteq QueuedIn(partial_buffers, ready_buffers)
  BY <1>4, ClaimBuffer
<1>10. /\ QueueInv' /\ Queued' = Queued \ b.targets /\ b.targets \subseteq Queued
  <2>1. Queued' = QueuedIn(partial_buffers', ready_buffers')
    BY DEF Queued, QueuedIn
  <2>2. QueueInv'
    BY <1>2, <1>3, <1>9 DEF QueueInv
  <2> QED
    BY <1>2, <1>3, <1>9, <2>1, <2>2, QueuedIs
<1>11. busy_shards' = busy_shards \cup {b.shard}
  BY <1>3
<1> HIDE DEF local, b
<1>12. /\ consumer' \in [Consumers -> ConsumerType]
       /\ \A d \in Consumers : consumer'[d] = IF d = c THEN local ELSE consumer[d]
  BY <1>1, <1>7, <1>8, TurnedConsumer
<1>13. /\ consumer[c].buffer.targets = {} /\ Claimed' = Claimed \cup b.targets
  <2>1. consumer[c].buffer.targets = {}
    BY <1>1, <1>2 DEF ScanInv, ConsumerOK, NoBuffer
  <2> QED
    BY <1>1, <1>7, <1>8, <2>1, ClaimedMoves DEF Turns
<1>14. /\ TaskInv' /\ RunInv' /\ blocked_producers' = {}
       /\ \A r \in Producers : Ahead(r, producer'[r]) = Ahead(r, producer[r])
       /\ \A r \in Producers : producer'[r].pc = "stop" => producer[r].pc = "stop"
  <2>1. CallerTasks(producer)
    BY DEF CallerTasks
  <2>2. stop_requested' \in BOOLEAN /\ (stop_requested => stop_requested')
    BY <1>1, <1>2 DEF TaskInv
  <2> QED
    BY <1>2, <2>1, <2>2, Resumed DEF hostVars
<1>15. ScanInv'
  <2>1. \A d \in Consumers : ConsumerOK(consumer'[d])
    BY <1>1, <1>5, <1>6, <1>7, <1>12 DEF ScanInv, ConsumerOK
  <2>2. OneConsumerPerShard'
    BY <1>1, <1>6, <1>7, <1>11, <1>12 DEF ScanInv, OneConsumerPerShard
  <2>3. ASSUME \A d \in Consumers : consumer'[d].pc # "dropped", NEW s \in busy_shards'
        PROVE  \E d \in Consumers : consumer'[d].pc = "decode" /\ consumer'[d].buffer.shard = s
    <3>1. CASE s = b.shard
      BY <1>7, <1>12, <3>1
    <3>2. CASE s \in busy_shards
      <4>1. \A d \in Consumers : consumer[d].pc # "dropped"
        BY <1>2, <1>12, <2>3
      <4>2. PICK d \in Consumers : consumer[d].pc = "decode" /\ consumer[d].buffer.shard = s
        BY <1>1, <3>2, <4>1 DEF ScanInv
      <4>3. d # c
        BY <1>2, <4>2
      <4> QED
        BY <1>12, <4>2, <4>3
    <3> QED
      BY <1>11, <2>3, <3>1, <3>2
  <2>4. busy_shards' \in SUBSET Shards
    BY <1>1, <1>6, <1>11 DEF ScanInv
  <2> QED
    BY <1>12, <2>1, <2>2, <2>3, <2>4 DEF ScanInv
<1>16. PlaceInv'
  BY <1>1, <1>2, <1>10, <1>13, <1>14 DEF PlaceInv
<1>17. Whole => Whole'
  BY <1>2, <1>10, <1>13, <1>14 DEF Whole
<1>18. ~destroyed
  BY <1>1, <1>2 DEF EndInv, HostInv, Ended
<1>19. HostInv'
  BY <1>1, <1>2, <1>7, <1>12, <1>18 DEF EndInv, HostInv, hostVars
<1>20. StopInv' /\ BlockInv'
  BY <1>1, <1>2, <1>14 DEF EndInv, StopInv, BlockInv, Undisturbed, hostVars
<1>21. FinishInv'
  BY <1>1, <1>2, <1>7, <1>12 DEF EndInv, FinishInv, Undisturbed, hostVars
<1>22. WholeInv'
  <2>1. (\A d \in Consumers : consumer'[d].pc \notin {"dropped", "failed"}) =>
           \A d \in Consumers : consumer[d].pc \notin {"dropped", "failed"}
    BY <1>2, <1>12
  <2> QED
    BY <1>1, <1>2, <1>17, <2>1 DEF EndInv, WholeInv, Undisturbed, hostVars
<1>23. NoSilentTruncation'
  BY <1>7, <1>12 DEF NoSilentTruncation
<1> QED
  BY <1>10, <1>14, <1>15, <1>16, <1>19, <1>20, <1>21, <1>22, <1>23 DEF IInv, EndInv

\* When every consumer has found the end, everything was emitted.
LEMMA AllEmitted ==
    ASSUME IInv, NEW c \in Consumers, consumer[c].pc = "claim", error = "none",
           source_exhausted, ~stop_requested, Undisturbed,
           \A i \in DOMAIN ready_buffers : ~Claimable(i),
           \A d \in Consumers : d # c => consumer[d].pc = "finished"
    PROVE  emitted = Targets
<1>1. TaskInv /\ RunInv /\ QueueInv /\ ScanInv /\ PlaceInv /\ EndInv
  BY DEF IInv
<1>2. Whole
  BY <1>1 DEF EndInv, WholeInv
<1>3. \A d \in Consumers : consumer[d].pc \in {"claim", "finished"} /\ consumer[d].buffer.targets = {}
  BY <1>1 DEF ScanInv, ConsumerOK, NoBuffer
<1>4. Claimed = {}
  BY <1>3, ClaimedOf
<1>5. busy_shards = {}
  BY <1>1, <1>3 DEF ScanInv
<1>6. Queued = {}
  <2>1. ready_buffers \in Seq(BufferType) /\ \A s \in Shards : partial_buffers[s] = {}
    BY <1>1 DEF QueueInv, QueueOK, EndInv, FinishInv
  <2>2. \A i \in 1..Len(ready_buffers) : FALSE
    <3>1. DOMAIN ready_buffers = 1..Len(ready_buffers)
      BY <2>1
    <3> QED
      BY <1>5, <3>1 DEF Claimable
  <2>3. \A x : x \notin QueuedIn(partial_buffers, ready_buffers)
    BY <2>1, <2>2, QueuedOf
  <2> QED
    BY <2>3, QueuedIs
<1>7. \A p \in Producers : Ahead(p, producer[p]) = {}
  <2>1. Running = {}
    <3>1. IsFiniteSet(Running) /\ Cardinality(Running) = 0
      BY <1>1, Workers, FS_Subset DEF Running, RunInv
    <3> QED
      BY <3>1, FS_EmptySet
  <2>2. ASSUME NEW p \in Producers PROVE Ahead(p, producer[p]) = {}
    <3>1. producer[p].pc = "done" /\ producer[p] \in Task /\ TaskOK(p, producer[p], FALSE)
      BY <1>1, <2>1 DEF Running, TaskInv
    <3> QED
      BY <3>1, NothingAhead
  <2> QED
    BY <2>2
<1>8. \A t \in Targets : t \in emitted
  BY <1>2, <1>4, <1>6, <1>7 DEF Whole
<1> QED
  BY <1>1, <1>8 DEF PlaceInv

LEMMA ClaimNothingStep ==
    ASSUME IInv, NEW c \in Consumers, ClaimNothing(c)
    PROVE  IInv'
<1> DEFINE pc == IF error # "none" THEN "failed"
                 ELSE IF source_exhausted \/ stop_requested THEN "finished" ELSE "wait"
           local == [consumer[c] EXCEPT !.pc = pc]
<1>1. TaskInv /\ RunInv /\ QueueInv /\ ScanInv /\ PlaceInv /\ EndInv
  BY DEF IInv
<1>2. /\ consumer[c].pc = "claim" /\ UNCHANGED <<lock, stateVars, producer, emitted, hostVars>>
      /\ error # "none" \/ \A i \in DOMAIN ready_buffers : ~Claimable(i)
  BY DEF ClaimNothing
<1>3. consumer[c] \in ConsumerType /\ consumer \in [Consumers -> ConsumerType]
  BY <1>1 DEF ScanInv
<1>4. consumer' = [consumer EXCEPT ![c].pc = pc]
  BY DEF ClaimNothing
<1>5. /\ pc \in {"failed", "finished", "wait"} /\ (pc = "failed" <=> error # "none")
      /\ pc = "finished" => error = "none" /\ (source_exhausted \/ stop_requested)
  OBVIOUS
<1> HIDE DEF pc
<1>6. local \in ConsumerType /\ local.pc = pc /\ local.buffer = consumer[c].buffer
  <2>1. pc \in {"claim", "wait", "decode", "finished", "failed", "dropped"}
    BY <1>5
  <2> QED
    BY <1>3, <2>1, LocalFields
<1>7. Turns(c, local)
  BY <1>3, <1>4 DEF Turns
<1> HIDE DEF local
<1>8. \A d \in Consumers : consumer'[d] = IF d = c THEN local ELSE consumer[d]
  BY <1>1, <1>6, <1>7, TurnedConsumer
<1>9. ScanInv' /\ Claimed' = Claimed
  BY <1>1, <1>2, <1>5, <1>6, <1>7, IdleScan DEF stateVars
<1>10. TaskInv' /\ RunInv' /\ QueueInv' /\ Queued' = Queued
  BY <1>2, ProducersAside DEF hostVars
<1>11. PlaceInv'
  BY <1>1, <1>2, <1>9, <1>10, PlacesShrink
<1>12. ~destroyed
  BY <1>1, <1>2 DEF EndInv, HostInv, Ended
<1>13. HostInv'
  BY <1>1, <1>2, <1>5, <1>6, <1>8, <1>12 DEF EndInv, HostInv, hostVars
<1>14. StopInv' /\ BlockInv'
  BY <1>1, <1>2 DEF EndInv, StopInv, BlockInv, Undisturbed, hostVars, stateVars, queueVars
<1>15. pc = "finished" /\ Undisturbed => source_exhausted /\ error = "none" /\ ~stop_requested
  BY <1>1, <1>5, <1>12 DEF EndInv, StopInv
<1>16. FinishInv'
  BY <1>1, <1>2, <1>6, <1>8, <1>15 DEF EndInv, FinishInv, Undisturbed, hostVars, stateVars,
     queueVars
<1>17. WholeInv'
  <2>1. (\A d \in Consumers : consumer'[d].pc \notin {"dropped", "failed"}) =>
           \A d \in Consumers : consumer[d].pc \notin {"dropped", "failed"}
    BY <1>2, <1>8
  <2> QED
    BY <1>1, <1>2, <1>9, <1>10, <2>1, WholeKept DEF EndInv, WholeInv, Undisturbed, hostVars,
       stateVars
<1>18. NoSilentTruncation'
  <2> SUFFICES ASSUME \A d \in Consumers : consumer'[d].pc = "finished", Undisturbed
               PROVE  emitted = Targets
    BY <1>2 DEF NoSilentTruncation, Undisturbed, hostVars
  <2>1. pc = "finished" /\ \A d \in Consumers : d # c => consumer[d].pc = "finished"
    BY <1>6, <1>8
  <2> QED
    BY <1>2, <1>15, <2>1, AllEmitted
<1> QED
  BY <1>9, <1>10, <1>11, <1>13, <1>14, <1>16, <1>17, <1>18 DEF IInv, EndInv

LEMMA EmitStep ==
    ASSUME IInv, NEW c \in Consumers, Emit(c)
    PROVE  IInv'
<1>1. TaskInv /\ RunInv /\ QueueInv /\ ScanInv /\ PlaceInv /\ EndInv
  BY DEF IInv
<1>2. consumer[c].pc = "decode" /\ UNCHANGED <<lock, stateVars, producer, hostVars>>
  BY DEF Emit
<1>3. PICK t \in consumer[c].buffer.targets :
         /\ consumer' = [consumer EXCEPT ![c].buffer.targets = @ \ {t}]
         /\ emitted' = emitted \cup {t}
  BY DEF Emit
<1> DEFINE buffer == [consumer[c].buffer EXCEPT !.targets = consumer[c].buffer.targets \ {t}]
           local == [consumer[c] EXCEPT !.buffer = buffer]
<1>4. /\ consumer[c] \in ConsumerType /\ consumer \in [Consumers -> ConsumerType]
      /\ consumer[c].buffer \in [shard : Shards \cup {"none"}, targets : SUBSET Targets]
  BY <1>1 DEF ScanInv, ConsumerType
<1>5. /\ buffer \in [shard : Shards \cup {"none"}, targets : SUBSET Targets]
      /\ buffer.shard = consumer[c].buffer.shard /\ buffer.targets = consumer[c].buffer.targets \ {t}
  BY <1>4
<1>6. Turns(c, local)
  BY <1>3, <1>4 DEF Turns
<1> HIDE DEF buffer
<1>7. local \in ConsumerType /\ local.pc = "decode" /\ local.buffer = buffer
  BY <1>2, <1>4, <1>5 DEF ConsumerType
<1> HIDE DEF local
<1>8. /\ consumer' \in [Consumers -> ConsumerType]
      /\ \A d \in Consumers : consumer'[d] = IF d = c THEN local ELSE consumer[d]
  BY <1>1, <1>6, <1>7, TurnedConsumer
<1>9. /\ t \in Targets /\ t \in Claimed
      /\ \A d \in Consumers : d # c => t \notin consumer[d].buffer.targets
  <2>1. t \in Targets
    BY <1>4
  <2>2. ASSUME NEW d \in Consumers, d # c, t \in consumer[d].buffer.targets PROVE FALSE
    <3>1. consumer[d].pc = "decode"
      BY <1>1, <2>2 DEF ScanInv, ConsumerOK, NoBuffer
    <3>2. t.shard = consumer[d].buffer.shard /\ t.shard = consumer[c].buffer.shard
      BY <1>1, <1>2, <2>2, <3>1 DEF ScanInv, ConsumerOK
    <3> QED
      BY <1>1, <1>2, <2>2, <3>1, <3>2 DEF ScanInv, OneConsumerPerShard
  <2> QED
    BY <2>1, <2>2, ClaimedOf
<1>10. Claimed' = Claimed \ {t}
  <2>1. \A x : x \in Claimed' <=> \E d \in Consumers : x \in consumer'[d].buffer.targets
    BY DEF Claimed
  <2> QED
    BY <1>5, <1>7, <1>8, <1>9, <2>1, ClaimedOf
<1>11. TaskInv' /\ RunInv' /\ QueueInv' /\ Queued' = Queued
  BY <1>2, ProducersAside DEF hostVars
<1>12. ScanInv'
  <2>1. \A d \in Consumers : consumer'[d].pc = consumer[d].pc /\ consumer'[d].buffer.shard = consumer[d].buffer.shard
    BY <1>2, <1>5, <1>7, <1>8
  <2>2. \A d \in Consumers : ConsumerOK(consumer'[d])
    BY <1>1, <1>2, <1>5, <1>7, <1>8 DEF ScanInv, ConsumerOK
  <2>3. busy_shards' = busy_shards
    BY <1>2 DEF stateVars
  <2>4. OneConsumerPerShard'
    BY <1>1, <2>1, <2>3 DEF ScanInv, OneConsumerPerShard
  <2>5. (\A d \in Consumers : consumer'[d].pc # "dropped") =>
          \A s \in busy_shards' : \E d \in Consumers : consumer'[d].pc = "decode" /\ consumer'[d].buffer.shard = s
    BY <1>1, <2>1, <2>3 DEF ScanInv
  <2>6. busy_shards' \in SUBSET Shards
    BY <1>1, <2>3 DEF ScanInv
  <2> QED
    BY <1>8, <2>2, <2>4, <2>5, <2>6 DEF ScanInv
<1>13. PlaceInv'
  BY <1>1, <1>2, <1>3, <1>9, <1>10, <1>11 DEF PlaceInv
<1>14. Whole => Whole'
  BY <1>2, <1>3, <1>10, <1>11 DEF Whole
<1>15. \A d \in Consumers : consumer'[d].pc = consumer[d].pc
  BY <1>2, <1>7, <1>8
<1>16. HostInv' /\ StopInv' /\ BlockInv'
  BY <1>1, <1>2, <1>15 DEF EndInv, HostInv, StopInv, BlockInv, Undisturbed, hostVars, stateVars,
     queueVars
<1>17. FinishInv'
  BY <1>1, <1>2, <1>15 DEF EndInv, FinishInv, Undisturbed, hostVars, stateVars, queueVars
<1>18. WholeInv'
  BY <1>1, <1>2, <1>14, <1>15 DEF EndInv, WholeInv, Undisturbed, hostVars, stateVars
<1>19. NoSilentTruncation'
  BY <1>7, <1>8 DEF NoSilentTruncation
<1> QED
  BY <1>11, <1>12, <1>13, <1>16, <1>17, <1>18, <1>19 DEF IInv, EndInv

LEMMA FinishBufferStep ==
    ASSUME IInv, NEW c \in Consumers, FinishBuffer(c)
    PROVE  IInv'
<1>1. TaskInv /\ RunInv /\ QueueInv /\ ScanInv /\ PlaceInv /\ EndInv
  BY DEF IInv
<1>2. /\ consumer[c].pc = "decode" /\ lock = NoTask
      /\ busy_shards' = busy_shards \ {consumer[c].buffer.shard}
      /\ UNCHANGED <<lock, active_producers, source_exhausted, stop_requested, error, queueVars,
                     blocked_producers, producer, emitted, hostVars>>
  BY DEF FinishBuffer
<1>3. PICK pc \in {"claim", "failed"} :
         /\ pc = "claim" => consumer[c].buffer.targets = {}
         /\ consumer' = [consumer EXCEPT ![c] = [pc |-> pc, buffer |-> NoBuffer]]
  BY DEF FinishBuffer
<1> DEFINE local == [pc |-> pc, buffer |-> NoBuffer]
<1>4. local \in ConsumerType /\ local.pc = pc /\ local.buffer = NoBuffer /\ NoBuffer.targets = {}
  BY DEF ConsumerType, NoBuffer
<1>5. Turns(c, local)
  BY <1>3 DEF Turns
<1> HIDE DEF local
<1>6. /\ consumer' \in [Consumers -> ConsumerType]
      /\ \A d \in Consumers : consumer'[d] = IF d = c THEN local ELSE consumer[d]
  BY <1>1, <1>4, <1>5, TurnedConsumer
<1>7. Claimed' \subseteq Claimed /\ (pc = "claim" => Claimed' = Claimed)
  BY <1>1, <1>3, <1>4, <1>5, ClaimedMoves DEF Turns
<1>8. TaskInv' /\ RunInv' /\ QueueInv' /\ Queued' = Queued
  BY <1>1, <1>2 DEF TaskInv, RunInv, Running, QueueInv, Queued, queueVars, hostVars
<1>9. ScanInv'
  <2>1. \A d \in Consumers : ConsumerOK(consumer'[d])
    BY <1>1, <1>4, <1>6 DEF ScanInv, ConsumerOK
  <2>2. \A d \in Consumers : d # c /\ consumer[d].pc = "decode" => consumer[d].buffer.shard # consumer[c].buffer.shard
    BY <1>1, <1>2 DEF ScanInv, OneConsumerPerShard
  <2>3. OneConsumerPerShard'
    BY <1>1, <1>2, <1>4, <1>6, <2>2 DEF ScanInv, OneConsumerPerShard
  <2>4. ASSUME \A d \in Consumers : consumer'[d].pc # "dropped", NEW s \in busy_shards'
        PROVE  \E d \in Consumers : consumer'[d].pc = "decode" /\ consumer'[d].buffer.shard = s
    <3>1. \A d \in Consumers : consumer[d].pc # "dropped"
      BY <1>2, <1>6, <2>4
    <3>2. PICK d \in Consumers : consumer[d].pc = "decode" /\ consumer[d].buffer.shard = s
      BY <1>1, <1>2, <2>4, <3>1 DEF ScanInv
    <3>3. d # c
      BY <1>2, <2>4, <3>2
    <3> QED
      BY <1>6, <3>2, <3>3
  <2>5. busy_shards' \in SUBSET Shards
    BY <1>1, <1>2 DEF ScanInv
  <2> QED
    BY <1>6, <2>1, <2>3, <2>4, <2>5 DEF ScanInv
<1>10. PlaceInv'
  BY <1>1, <1>2, <1>7, <1>8, PlacesShrink
<1>11. ~destroyed
  BY <1>1, <1>2 DEF EndInv, HostInv, Ended
<1>12. HostInv'
  BY <1>1, <1>2, <1>4, <1>6, <1>11 DEF EndInv, HostInv, hostVars
<1>13. StopInv' /\ BlockInv'
  BY <1>1, <1>2 DEF EndInv, StopInv, BlockInv, Undisturbed, hostVars, queueVars
<1>14. FinishInv'
  BY <1>1, <1>2, <1>4, <1>6 DEF EndInv, FinishInv, Undisturbed, hostVars, queueVars
<1>15. WholeInv'
  <2> SUFFICES ASSUME Undisturbed', ~stop_requested', \A d \in Consumers : consumer'[d].pc \notin {"dropped", "failed"}
               PROVE  Whole'
    BY DEF WholeInv
  <2>1. pc = "claim" /\ \A d \in Consumers : consumer[d].pc \notin {"dropped", "failed"}
    BY <1>2, <1>4, <1>6
  <2>2. Whole
    BY <1>1, <1>2, <2>1 DEF EndInv, WholeInv, Undisturbed, hostVars
  <2> QED
    BY <1>2, <1>7, <1>8, <2>1, <2>2, WholeKept
<1>16. NoSilentTruncation'
  BY <1>4, <1>6 DEF NoSilentTruncation
<1> QED
  BY <1>8, <1>9, <1>10, <1>12, <1>13, <1>14, <1>15, <1>16 DEF IInv, EndInv

LEMMA DropConsumerStep ==
    ASSUME IInv, NEW c \in Consumers, DropConsumer(c)
    PROVE  IInv'
<1> DEFINE local == [pc |-> "dropped", buffer |-> NoBuffer]
<1>1. TaskInv /\ RunInv /\ QueueInv /\ ScanInv /\ PlaceInv /\ EndInv
  BY DEF IInv
<1>2. /\ consumer[c].pc \in Scanning
      /\ interrupted \/ cancelled \/ EarlyStop
      /\ UNCHANGED <<lock, stateVars, producer, emitted, hostVars>>
  BY DEF DropConsumer
<1>3. local \in ConsumerType /\ local.pc = "dropped" /\ local.buffer = NoBuffer /\ NoBuffer.targets = {}
  BY DEF ConsumerType, NoBuffer
<1>4. Turns(c, local)
  BY DEF DropConsumer, Turns
<1> HIDE DEF local
<1>5. /\ consumer' \in [Consumers -> ConsumerType]
      /\ \A d \in Consumers : consumer'[d] = IF d = c THEN local ELSE consumer[d]
  BY <1>1, <1>3, <1>4, TurnedConsumer
<1>6. Claimed' \subseteq Claimed
  BY <1>1, <1>3, <1>4, ClaimedMoves DEF Turns
<1>7. TaskInv' /\ RunInv' /\ QueueInv' /\ Queued' = Queued
  BY <1>2, ProducersAside DEF hostVars
<1>8. ScanInv'
  <2>1. \A d \in Consumers : ConsumerOK(consumer'[d])
    BY <1>1, <1>3, <1>5 DEF ScanInv, ConsumerOK
  <2>2. busy_shards' = busy_shards
    BY <1>2 DEF stateVars
  <2>3. OneConsumerPerShard'
    BY <1>1, <1>3, <1>5, <2>2 DEF ScanInv, OneConsumerPerShard
  <2>4. consumer'[c].pc = "dropped"
    BY <1>3, <1>5
  <2>5. busy_shards' \in SUBSET Shards
    BY <1>1, <2>2 DEF ScanInv
  <2> QED
    BY <1>5, <2>1, <2>3, <2>4, <2>5 DEF ScanInv
<1>9. PlaceInv'
  BY <1>1, <1>2, <1>6, <1>7, PlacesShrink
<1>10. ~destroyed
  BY <1>1, <1>2 DEF EndInv, HostInv, Ended, Scanning
<1>11. HostInv'
  BY <1>1, <1>2, <1>3, <1>5, <1>10 DEF EndInv, HostInv, hostVars
<1>12. StopInv' /\ BlockInv'
  BY <1>1, <1>2 DEF EndInv, StopInv, BlockInv, Undisturbed, hostVars, stateVars, queueVars
<1>13. FinishInv'
  BY <1>1, <1>2, <1>3, <1>5 DEF EndInv, FinishInv, Undisturbed, hostVars, stateVars, queueVars
<1>14. WholeInv' /\ NoSilentTruncation'
  BY <1>3, <1>5 DEF WholeInv, NoSilentTruncation
<1> QED
  BY <1>7, <1>8, <1>9, <1>11, <1>12, <1>13, <1>14 DEF IInv, EndInv

LEMMA HostStep ==
    ASSUME IInv, Interrupt \/ Cancel
    PROVE  IInv'
<1>1. TaskInv /\ RunInv /\ QueueInv /\ ScanInv /\ PlaceInv /\ EndInv
  BY DEF IInv
<1>2. /\ UNCHANGED <<lock, stateVars, producer, scanVars, destroyed>>
      /\ interrupted' \in BOOLEAN /\ cancelled' \in BOOLEAN
      /\ interrupted => interrupted'
      /\ cancelled => cancelled'
      /\ interrupted' \/ cancelled'
  BY <1>1 DEF Interrupt, Cancel, EndInv, HostInv
<1>3. TaskInv' /\ RunInv' /\ QueueInv'
  BY <1>1, <1>2 DEF TaskInv, RunInv, Running, QueueInv, stateVars, queueVars
<1>4. ScanInv'
  BY <1>1, <1>2 DEF ScanInv, OneConsumerPerShard, stateVars, scanVars
<1>5. PlaceInv'
  BY <1>1, <1>2, PlacesShrink DEF Queued, Claimed, stateVars, queueVars, scanVars
<1>6. EndInv'
  BY <1>1, <1>2 DEF EndInv, HostInv, StopInv, FinishInv, BlockInv, WholeInv, NoSilentTruncation,
                    Undisturbed, stateVars, queueVars, scanVars
<1> QED
  BY <1>3, <1>4, <1>5, <1>6 DEF IInv

LEMMA Unchanged ==
    ASSUME IInv, UNCHANGED vars
    PROVE  IInv'
<1>1. TaskInv /\ RunInv /\ QueueInv /\ ScanInv /\ PlaceInv /\ EndInv
  BY DEF IInv
<1>2. UNCHANGED <<lock, stateVars, producer, scanVars, hostVars>>
  BY DEF vars
<1>3. TaskInv' /\ RunInv' /\ QueueInv'
  BY <1>1, <1>2 DEF TaskInv, RunInv, Running, QueueInv, stateVars, queueVars, hostVars
<1>4. ScanInv'
  BY <1>1, <1>2 DEF ScanInv, OneConsumerPerShard, stateVars, scanVars
<1>5. Queued' = Queued /\ Claimed' = Claimed
  BY <1>2 DEF Queued, Claimed, stateVars, queueVars, scanVars
<1>6. PlaceInv'
  BY <1>1, <1>2, <1>5, PlacesShrink DEF scanVars
<1>7. WholeInv'
  BY <1>1, <1>2, <1>5, WholeKept DEF EndInv, WholeInv, Undisturbed, stateVars, queueVars, scanVars,
     hostVars
<1>8. HostInv' /\ StopInv' /\ FinishInv' /\ BlockInv' /\ NoSilentTruncation'
  BY <1>1, <1>2 DEF EndInv, HostInv, StopInv, FinishInv, BlockInv, NoSilentTruncation,
                    Undisturbed, stateVars, queueVars, scanVars, hostVars
<1> QED
  BY <1>3, <1>4, <1>6, <1>7, <1>8 DEF IInv, EndInv

-----------------------------------------------------------------------------
(* The invariant holds *)

LEMMA InitInv == Init => IInv
<1> SUFFICES ASSUME Init PROVE IInv
  OBVIOUS
<1> USE DEF Init
<1>1. /\ N \in Nat /\ Producers = 1..N /\ IsFiniteSet(Producers) /\ N = Cardinality(Producers)
      /\ \A p \in Producers : N \in Nat \ {0} /\ p \in Nat \ {0}
      /\ Len(FrameQueries) \in Nat /\ DOMAIN FrameQueries = 1..Len(FrameQueries)
  BY Workers DEF N
<1> DEFINE first(p) == [pc |-> "loop", next_query |-> p, query |-> 0, row |-> 0, pending |-> <<>>,
                        connected |-> FALSE, exception |-> "none"]
<1>2. \A p \in Producers : producer[p] = first(p)
  OBVIOUS
<1>3. \A p \in Producers : first(p) \in Task
  BY <1>1 DEF Task, ProducerSteps
<1>4. TaskInv
  <2>1. producer \in [Producers -> Task]
    BY <1>3
  <2>2. ASSUME NEW p \in Producers PROVE TaskOK(p, producer[p], stop_requested)
    <3>1. Distinct(<<>>)
      BY DEF Distinct
    <3> QED
      BY <1>2, <3>1 DEF TaskOK
  <2>3. \A p \in Producers : producer[p].pc = "queueing" <=> lock = p
    BY <1>1, <1>2 DEF NoTask
  <2> QED
    BY <2>1, <2>2, <2>3 DEF TaskInv
<1>5. RunInv
  <2>1. Running = Producers
    BY <1>2 DEF Running
  <2>2. Cardinality(Producers) = 0 <=> Producers = {}
    BY <1>1, FS_EmptySet
  <2> QED
    BY <2>1, <2>2 DEF RunInv
<1>6. QueueInv /\ Queued = {}
  <2>1. partial_buffers = Nothing
    BY DEF Nothing
  <2> QED
    BY <2>1, DropAll, QueuedIs DEF QueueInv
<1>7. \A c \in Consumers : consumer[c].pc = "claim" /\ consumer[c].buffer = NoBuffer /\ NoBuffer.targets = {}
  BY DEF NoBuffer
<1>8. Claimed = {}
  BY <1>7, ClaimedOf
<1>9. ScanInv
  <2>1. consumer \in [Consumers -> ConsumerType]
    BY DEF ConsumerType, NoBuffer
  <2>2. \A c \in Consumers : ConsumerOK(consumer[c])
    BY <1>7 DEF ConsumerOK
  <2>3. OneConsumerPerShard
    BY <1>7 DEF OneConsumerPerShard
  <2> QED
    BY <2>1, <2>2, <2>3 DEF ScanInv
<1>10. PlaceInv
  BY <1>6, <1>8 DEF PlaceInv
<1>11. Whole
  <2> SUFFICES ASSUME NEW t \in Targets PROVE \E p \in Producers : t \in Ahead(p, producer[p])
    BY DEF Whole
  <2>1. PICK q \in DOMAIN FrameQueries : \E r \in DOMAIN FrameQueries[q] : t \in Range(FrameQueries[q][r])
    BY EveryTarget
  <2>2. PICK p \in Producers : q % N = p % N
    BY HasOwner
  <2>3. q >= p
    <3>1. p \in 1..N /\ q \in Nat \ {0} /\ N \in Nat \ {0}
      BY <1>1
    <3> HIDE DEF N
    <3>2. CASE q <= N
      <4>1. q < p + N /\ q > p - N /\ q \in Int /\ p \in Int
        BY <3>1, <3>2
      <4>2. q = p
        BY <2>2, <3>1, <4>1, SameClass
      <4> QED
        BY <3>1, <4>2
    <3> QED
      BY <3>1, <3>2
  <2>4. producer[p].next_query = p
    BY <1>2
  <2>5. t \in Unread(p, producer[p])
    BY <2>1, <2>2, <2>3, <2>4 DEF Unread
  <2> QED
    BY <2>5 DEF Ahead
<1>12. HostInv /\ StopInv /\ BlockInv /\ WholeInv
  BY <1>2, <1>7, <1>11 DEF HostInv, StopInv, BlockInv, WholeInv
<1>13. FinishInv
  BY <1>7 DEF FinishInv
<1>14. NoSilentTruncation
  BY <1>7, SetsAssumption DEF NoSilentTruncation
<1> QED
  BY <1>4, <1>5, <1>6, <1>9, <1>10, <1>12, <1>13, <1>14 DEF IInv, EndInv

LEMMA NextInv == ASSUME IInv, [Next]_vars PROVE IInv'
<1>1. ASSUME NEW p \in Producers, ProducerStep(p) PROVE IInv'
  BY <1>1, CheckStopStep, StopScanStep, LockQueueStep, QueueTargetStep, TargetsQueuedStep,
     BlockProducerStep, GetQueryStep, StartQueryStep, ReadRowStep, EndQueryStep, SourceFailsStep,
     FailStep, ProducerEndStep DEF ProducerStep
<1>2. ASSUME NEW c \in Consumers, ConsumerStep(c) \/ DropConsumer(c) PROVE IInv'
  BY <1>2, ClaimReadyStep, ClaimNothingStep, WaitStep, WaitInterruptedStep, EmitStep,
     FinishBufferStep, DropConsumerStep DEF ConsumerStep
<1>3. ASSUME Terminated PROVE IInv'
  BY <1>3, Unchanged DEF Terminated
<1> QED
  BY <1>1, <1>2, <1>3, HostStep, DestroyScanStep, Unchanged DEF Next

\* The invariant that the theorems below rest on: where every task is in its queries, what
\* the queue holds and where each target is.  It is inductive in all the actions of the scan.
THEOREM FramesInductive == Spec => []IInv
<1>1. Init => IInv
  BY InitInv
<1>2. IInv /\ [Next]_vars => IInv'
  BY NextInv
<1> QED
  BY <1>1, <1>2, PTL DEF Spec

-----------------------------------------------------------------------------
(* What the scan keeps *)

\* pending_target_count, which QueueTargets increases and ClaimBuffer decreases, counts
\* exactly the targets in partial and ready buffers and stays below max_pending_targets;
\* partial_lru names the partial buffers, each once.
THEOREM CountExact == Spec => []PendingTargetsExact
<1>1. IInv => PendingTargetsExact
  <2> SUFFICES ASSUME IInv PROVE PendingTargetsExact
    OBVIOUS
  <2>1. QueueOK(partial_buffers, partial_lru, ready_buffers, pending_target_count)
    BY DEF IInv, QueueInv
  <2>2. DOMAIN partial_lru = 1..Len(partial_lru)
    BY <2>1 DEF QueueOK
  <2>3. pending_target_count = Cardinality(Queued) /\ pending_target_count <= MaxPendingTargets
    BY <2>1, QueuedIs DEF QueueOK
  <2>4. \A s : Listed(partial_lru, s) <=> s \in Range(partial_lru)
    BY <2>2 DEF Listed, Range
  <2>5. \A s \in Shards : partial_buffers[s] # {} <=> Listed(partial_lru, s)
    BY <2>1 DEF QueueOK
  <2>6. \A i, k \in DOMAIN partial_lru : partial_lru[i] = partial_lru[k] => i = k
    BY <2>1, <2>2 DEF QueueOK, Distinct
  <2> QED
    BY <2>3, <2>4, <2>5, <2>6 DEF PendingTargetsExact
<1> QED
  BY <1>1, FramesInductive, PTL

\* ClaimBuffer and FinishBuffer keep one consumer per shard, whatever happens to the others.
THEOREM OnePerShard == Spec => []OneConsumerPerShard
<1>1. IInv => OneConsumerPerShard
  BY DEF IInv, ScanInv
<1> QED
  BY <1>1, FramesInductive, PTL

\* When all consumers report the end of an undisturbed scan, every target of every row was
\* emitted: a failed source query, a stop or a blocked producer never shortens the result.
THEOREM NothingCutOff == Spec => []NoSilentTruncation
<1>1. IInv => NoSilentTruncation
  BY DEF IInv, EndInv
<1> QED
  BY <1>1, FramesInductive, PTL

\* A set whose elements are all the same has at most one.
LEMMA AtMostOne ==
    ASSUME NEW S, \A x, y \in S : x = y
    PROVE  Cardinality(S) <= 1
<1>1. CASE S = {}
  BY <1>1, FS_EmptySet
<1>2. CASE S # {}
  <2>1. PICK x \in S : TRUE
    BY <1>2
  <2>2. S = {x}
    BY <2>1
  <2> QED
    BY <2>2, FS_Singleton
<1> QED
  BY <1>1, <1>2

\* Across blocking, resuming, stopping and claiming, a target is with its producer, queued,
\* claimed or emitted, and in one of these places only.
THEOREM NeverTwice == Spec => []NoTargetTwice
<1>1. IInv => NoTargetTwice
  <2> SUFFICES ASSUME IInv, NEW t \in Targets
               PROVE  Cardinality({f \in DOMAIN PlaceOf(t) : PlaceOf(t)[f]}) <= 1
    BY DEF NoTargetTwice
  <2> DEFINE pending == \E p \in Producers : t \in Range(producer[p].pending)
             claimed == \E c \in Consumers : t \in consumer[c].buffer.targets
  <2>1. claimed <=> t \in Claimed
    BY ClaimedOf
  <2>2. pending => \E p \in Producers : t \in Ahead(p, producer[p])
    BY DEF Ahead
  <2>3. /\ ~(t \in Queued /\ t \in Claimed) /\ ~(t \in Queued /\ t \in emitted)
        /\ ~(t \in Claimed /\ t \in emitted)
        /\ \A p \in Producers : t \in Ahead(p, producer[p]) => t \notin Queued /\ t \notin Claimed /\ t \notin emitted
    BY DEF IInv, PlaceInv
  <2>4. /\ ~(pending /\ t \in Queued) /\ ~(pending /\ claimed) /\ ~(pending /\ t \in emitted)
        /\ ~(claimed /\ t \in Queued) /\ ~(claimed /\ t \in emitted) /\ ~(t \in Queued /\ t \in emitted)
    BY <2>1, <2>2, <2>3
  <2>5. PlaceOf(t) = [queued |-> t \in Queued, emitted |-> t \in emitted, pending |-> pending, claimed |-> claimed]
    BY DEF PlaceOf
  <2> HIDE DEF pending, claimed
  <2>6. /\ DOMAIN PlaceOf(t) = {"queued", "emitted", "pending", "claimed"}
        /\ PlaceOf(t)["queued"] = (t \in Queued) /\ PlaceOf(t)["emitted"] = (t \in emitted)
        /\ PlaceOf(t)["pending"] = pending /\ PlaceOf(t)["claimed"] = claimed
    BY <2>5
  <2>7. ASSUME NEW f \in DOMAIN PlaceOf(t), NEW g \in DOMAIN PlaceOf(t), PlaceOf(t)[f],
               PlaceOf(t)[g]
        PROVE  f = g
    <3> DEFINE at(x) == PlaceOf(t)[x]
    <3>1. /\ ~(at("pending") /\ at("queued")) /\ ~(at("pending") /\ at("claimed"))
          /\ ~(at("pending") /\ at("emitted")) /\ ~(at("claimed") /\ at("queued"))
          /\ ~(at("claimed") /\ at("emitted")) /\ ~(at("queued") /\ at("emitted"))
      BY <2>4, <2>6, Zenon
    <3>2. at(f) /\ at(g)
      BY <2>7
    <3>3. /\ f \in {"queued", "emitted", "pending", "claimed"}
          /\ g \in {"queued", "emitted", "pending", "claimed"}
      BY <2>6
    <3> HIDE DEF at
    <3>4. CASE f = "queued"
      BY <3>1, <3>2, <3>3, <3>4, Zenon
    <3>5. CASE f = "emitted"
      BY <3>1, <3>2, <3>3, <3>5, Zenon
    <3>6. CASE f = "pending"
      BY <3>1, <3>2, <3>3, <3>6, Zenon
    <3>7. CASE f = "claimed"
      BY <3>1, <3>2, <3>3, <3>7, Zenon
    <3> QED
      BY <3>3, <3>4, <3>5, <3>6, <3>7
  <2> QED
    BY <2>7, AtMostOne
<1> QED
  BY <1>1, FramesInductive, PTL

\* Unless a LIMIT above may drop a consumer, a producer that QueueTargets blocks leaves a
\* buffer that a consumer can claim, now or when the consumer of its shard comes back.
THEOREM BlockedLeavesWork == (EarlyStop = FALSE) => (Spec => []CapacityCanBeCreated)
<1> SUFFICES ASSUME EarlyStop = FALSE PROVE Spec => []CapacityCanBeCreated
  OBVIOUS
<1>1. IInv => CapacityCanBeCreated
  <2> SUFFICES ASSUME IInv, blocked_producers # {}, ~stop_requested, ~interrupted, ~cancelled
               PROVE  \E i \in DOMAIN ready_buffers :
                         \/ Claimable(i)
                         \/ \E c \in Consumers : consumer[c].pc = "decode"
                                                 /\ consumer[c].buffer.shard = ready_buffers[i].shard
    BY DEF CapacityCanBeCreated
  <2>1. ready_buffers # <<>> /\ ready_buffers \in Seq(BufferType)
    BY DEF IInv, EndInv, BlockInv, QueueInv, QueueOK
  <2>2. 1 \in DOMAIN ready_buffers
    BY <2>1
  <2>3. \A c \in Consumers : consumer[c].pc # "dropped"
    BY DEF IInv, EndInv, HostInv
  <2>4. \A s \in busy_shards : \E c \in Consumers : consumer[c].pc = "decode" /\ consumer[c].buffer.shard = s
    BY <2>3 DEF IInv, ScanInv
  <2> QED
    BY <2>2, <2>4 DEF Claimable
<1> QED
  BY <1>1, FramesInductive, PTL
=============================================================================
