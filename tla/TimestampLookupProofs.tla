----------------------- MODULE TimestampLookupProofs -----------------------
(***************************************************************************)
(* What holds of the timestamp lookup for every number of workers, shards  *)
(* and versions, whatever the limits are: the budget, what an index that   *)
(* is kept or that answers was read from, and who loads a slot.            *)
(***************************************************************************)
EXTENDS TimestampLookup, FiniteSetTheorems, SequenceTheorems, TLAPS

Steps == {"idle", "visit", "stat", "check", "find", "drop", "failed"} \cup Loading
Index == [id : Nat, rows : Nat, holds : SUBSET Nat]
SlotType == [fingerprint : Int, visits : Nat, loading : BOOLEAN, skipped : BOOLEAN, index : Index]

Types ==
    /\ version \in [Shards -> 0..LastVersion]
    /\ slots \in [Shards -> Slots \cup {NoSlot}] /\ recency \in Seq(Shards)
    /\ slot \in [Slots -> SlotType]
    /\ pc \in [Workers -> Steps] /\ todo \in [Workers -> SUBSET Shards]
    /\ shard \in [Workers -> Shards] /\ held \in [Workers -> Slots \cup {NoSlot}]
    /\ fingerprint \in [Workers -> Int] /\ row_count \in [Workers -> Nat]
    /\ unchanged \in [Workers -> BOOLEAN] /\ index \in [Workers -> Index]
    /\ since \in [Workers -> [Shards -> SUBSET Nat]]

-----------------------------------------------------------------------------
(* The invariant *)

\* Each tracked shard has one place in the order of use, and a slot of its own.
TrackInv ==
    /\ Len(recency) <= MaxTracked
    /\ \A m, n \in 1..Len(recency) : recency[m] = recency[n] => m = n
    /\ \A s \in Shards : slots[s] # NoSlot <=> \E n \in 1..Len(recency) : recency[n] = s
    /\ \A s, t \in Shards : slots[s] = slots[t] /\ slots[s] # NoSlot => s = t

\* A worker holds a slot while it is in GetIndex; the slot is nobody else's shard's.
Holding == {"stat", "check"} \cup Loading
HoldInv ==
    \A w \in Workers : /\ held[w] # NoSlot <=> pc[w] \in Holding
                       /\ \A s \in Shards : held[w] = slots[s] /\ held[w] # NoSlot => s = shard[w]

\* The index of a slot is that of its fingerprint.  There is none while somebody loads one.
SlotInv ==
    \A i \in Slots :
       /\ slot[i].index # NoIndex => /\ slot[i].fingerprint # NoVersion
                                     /\ slot[i].index.holds = {slot[i].fingerprint}
       /\ slot[i].loading => /\ slot[i].index = NoIndex
                             /\ \E w \in Workers : held[w] = i /\ pc[w] \in Loading

\* A loader has its slot for itself, and the slot the version that the loader wants.
LoaderInv ==
    \A w \in Workers : pc[w] \in Loading =>
       /\ slot[held[w]].loading /\ slot[held[w]].fingerprint = fingerprint[w]
       /\ \A x \in Workers : held[x] = held[w] /\ pc[x] \in Loading => x = w

\* What a worker has read is not older than its fingerprint, nor newer than the file.
WorkerInv(w) ==
    LET s == shard[w]
    IN /\ \A t \in todo[w] : version[t] \in since[w][t]
       /\ pc[w] \in Holding \cup {"find", "drop"} => s \notin todo[w] /\ version[s] \in since[w][s]
       /\ pc[w] \in {"check"} \cup Loading => fingerprint[w] \in since[w][s] /\ fingerprint[w] <= version[s]
       /\ pc[w] \in Loading => \A v \in index[w].holds : fingerprint[w] <= v /\ v <= version[s]
       /\ pc[w] \in {"reread", "recheck", "publish"} /\ index[w] # NoIndex => index[w].holds # {}
       /\ pc[w] \notin {"read", "reread", "recheck", "publish", "find", "drop"} => index[w] = NoIndex
       /\ pc[w] = "publish" /\ unchanged[w] /\ index[w] # NoIndex => index[w].holds = {fingerprint[w]}
       /\ pc[w] = "find" => \E v \in since[w][s] : index[w].holds = {v}

\* While an index is being read nobody else has it.
PrivateInv ==
    \A w \in Workers : pc[w] \in {"read", "reread"} =>
       /\ index[w].id # NoIndex.id
       /\ \A i \in Slots : slot[i].index.id # index[w].id
       /\ \A x \in Workers \ {w} : index[x].id # index[w].id

IInv ==
    /\ Types /\ TrackInv /\ HoldInv /\ SlotInv /\ LoaderInv
    /\ \A w \in Workers : WorkerInv(w)
    /\ PrivateInv /\ BudgetKept

-----------------------------------------------------------------------------
(* Slots and indexes *)

LEMMA UpTo == ASSUME NEW n \in Nat PROVE IsFiniteSet(1..n) /\ Cardinality(1..n) = n
<1>1. IsFiniteSet(1..n) /\ Cardinality(1..n) = IF 1 > n THEN 0 ELSE n - 1 + 1
  <2>1. 1 \in Int /\ n \in Int
    OBVIOUS
  <2> QED
    BY <2>1, FS_Interval
<1>2. (1 > n <=> n = 0) /\ n - 1 + 1 = n
  OBVIOUS
<1> QED
  BY <1>1, <1>2

LEMMA SlotsType == /\ IsFiniteSet(Slots) /\ NoSlot \notin Slots /\ Slots \subseteq Nat
                   /\ Cardinality(Slots) = MaxTracked + Cardinality(Workers) + 1
                   /\ Cardinality(Workers) \in Nat
<1>1. Cardinality(Workers) \in Nat
  BY LookupAssumption, FS_CardinalityType
<1>2. MaxTracked + Cardinality(Workers) + 1 \in Nat
  BY <1>1, LookupAssumption
<1>3. IsFiniteSet(Slots) /\ Cardinality(Slots) = MaxTracked + Cardinality(Workers) + 1
  BY <1>2, UpTo DEF Slots
<1> QED
  BY <1>1, <1>3 DEF Slots, NoSlot

LEMMA NoIndexType == NoIndex \in Index /\ NewSlot \in SlotType /\ NewSlot.index = NoIndex
                       /\ ~NewSlot.loading /\ NoIndex.id = 0
BY DEF NoIndex, Index, NewSlot, SlotType, NoVersion

LEMMA SlotFields ==
    ASSUME Types, NEW i \in Slots
    PROVE  /\ slot[i] \in SlotType /\ slot[i].index \in Index /\ slot[i].loading \in BOOLEAN
           /\ slot[i].fingerprint \in Int /\ slot[i].visits \in Nat
BY DEF Types, SlotType

\* The pairs that an index counts with.
RowsOf(indexes) == UNION {{i} \X (1..i.rows) : i \in indexes}

LEMMA RowsFinite ==
    ASSUME NEW indexes, IsFiniteSet(indexes), \A i \in indexes : i.rows \in Nat
    PROVE  IsFiniteSet(RowsOf(indexes)) /\ BytesOf(indexes) \in Nat
<1> DEFINE T == {{i} \X (1..i.rows) : i \in indexes}
           f == [i \in indexes |-> {i} \X (1..i.rows)]
<1>1. IsFiniteSet(T)
  <2>1. f \in Surjection(indexes, T)
    BY DEF Surjection
  <2> QED
    BY <2>1, FS_Surjection
<1>2. \A t \in T : IsFiniteSet(t)
  <2>1. SUFFICES ASSUME NEW i \in indexes PROVE IsFiniteSet({i} \X (1..i.rows))
    OBVIOUS
  <2>2. IsFiniteSet({i}) /\ IsFiniteSet(1..i.rows)
    <3>1. i.rows \in Int
      BY <2>1
    <3>2. IsFiniteSet(1..i.rows)
      BY <3>1, FS_Interval
    <3> QED
      BY <3>2, FS_Singleton
  <2> QED
    BY <2>2, FS_Product
<1>3. IsFiniteSet(UNION T)
  BY <1>1, <1>2, FS_UNION
<1>4. Cardinality(UNION T) \in Nat
  BY <1>3, FS_CardinalityType
<1> QED
  BY <1>3, <1>4 DEF RowsOf, BytesOf

\* Fewer indexes take no more bytes.
LEMMA FewerBytes ==
    ASSUME NEW S, NEW T, IsFiniteSet(T), \A i \in T : i.rows \in Nat, S \subseteq T
    PROVE  BytesOf(S) <= BytesOf(T)
<1>1. IsFiniteSet(RowsOf(T))
  BY RowsFinite
<1>2. RowsOf(S) \subseteq RowsOf(T)
  BY DEF RowsOf
<1>3. Cardinality(RowsOf(S)) <= Cardinality(RowsOf(T))
  BY <1>1, <1>2, FS_Subset
<1> QED
  BY <1>3 DEF RowsOf, BytesOf

\* One index counts with its rows.
LEMMA OneIndexBytes ==
    ASSUME NEW i, i.rows \in Nat
    PROVE  IsFiniteSet({i} \X (1..i.rows)) /\ Cardinality({i} \X (1..i.rows)) = i.rows
<1>1. IsFiniteSet({i}) /\ Cardinality({i}) = 1
  BY FS_Singleton
<1>2. IsFiniteSet(1..i.rows) /\ Cardinality(1..i.rows) = i.rows
  BY UpTo
<1>3. IsFiniteSet({i} \X (1..i.rows)) /\ Cardinality({i} \X (1..i.rows)) = 1 * i.rows
  BY <1>1, <1>2, FS_Product
<1> QED
  BY <1>3

\* One more index takes its rows at most, and exactly if it is new.
LEMMA OneMoreIndex ==
    ASSUME NEW S, IsFiniteSet(S), \A i \in S : i.rows \in Nat, NEW e, e.rows \in Nat
    PROVE  /\ BytesOf(S \cup {e}) <= BytesOf(S) + e.rows
           /\ e \notin S => BytesOf(S \cup {e}) = BytesOf(S) + e.rows
<1> DEFINE E == {e} \X (1..e.rows)
<1>1. RowsOf(S \cup {e}) = RowsOf(S) \cup E
  BY DEF RowsOf
<1>2. IsFiniteSet(RowsOf(S)) /\ BytesOf(S) \in Nat
  BY RowsFinite
<1>3. IsFiniteSet(E) /\ Cardinality(E) = e.rows
  BY OneIndexBytes
<1>4. Cardinality(RowsOf(S) \cup E) = Cardinality(RowsOf(S)) + Cardinality(E) - Cardinality(RowsOf(S) \cap E)
  BY <1>2, <1>3, FS_Union
<1>5. Cardinality(RowsOf(S) \cap E) \in Nat
  BY <1>2, FS_Intersection, FS_CardinalityType
<1>6. e \notin S => Cardinality(RowsOf(S) \cap E) = 0
  <2>1. SUFFICES ASSUME e \notin S PROVE RowsOf(S) \cap E = {}
    BY FS_EmptySet
  <2> QED
    BY <2>1 DEF RowsOf
<1>7. BytesOf(S) = Cardinality(RowsOf(S)) /\ BytesOf(S \cup {e}) = Cardinality(RowsOf(S) \cup E)
  BY <1>1 DEF BytesOf, RowsOf
<1> QED
  BY <1>2, <1>3, <1>4, <1>5, <1>6, <1>7

LEMMA InLive ==
    ASSUME Types, NEW evicted \in SUBSET Slots
    PROVE  /\ \A e : e \in LiveWithout(evicted) <=>
                     /\ e # NoIndex
                     /\ \/ \E i \in Slots \ evicted : slot[i].index = e
                        \/ \E w \in Workers : index[w] = e
           /\ LiveWithout(evicted) \subseteq Index
           /\ IsFiniteSet(LiveWithout(evicted))
<1>1. \A e : e \in LiveWithout(evicted) <=>
               /\ e # NoIndex
               /\ \/ \E i \in Slots \ evicted : slot[i].index = e
                  \/ \E w \in Workers : index[w] = e
  BY DEF LiveWithout
<1>2. LiveWithout(evicted) \subseteq Index
  <2>1. SUFFICES ASSUME NEW e \in LiveWithout(evicted) PROVE e \in Index
    OBVIOUS
  <2>2. CASE \E i \in Slots \ evicted : slot[i].index = e
    BY <2>2, SlotFields
  <2>3. CASE \E w \in Workers : index[w] = e
    BY <2>3 DEF Types
  <2> QED
    BY <1>1, <2>1, <2>2, <2>3
<1>3. IsFiniteSet(LiveWithout(evicted))
  <2> DEFINE A == {slot[i].index : i \in Slots \ evicted}
             B == {index[w] : w \in Workers}
  <2>1. IsFiniteSet(Slots \ evicted)
    BY SlotsType, FS_Difference
  <2>2. [i \in Slots \ evicted |-> slot[i].index] \in Surjection(Slots \ evicted, A)
    BY DEF Surjection
  <2>3. [w \in Workers |-> index[w]] \in Surjection(Workers, B)
    BY DEF Surjection
  <2>4. IsFiniteSet(A) /\ IsFiniteSet(B)
    BY <2>1, <2>2, <2>3, FS_Surjection, LookupAssumption
  <2>5. IsFiniteSet((A \cup B) \ {NoIndex})
    BY <2>4, FS_Union, FS_Difference
  <2> QED
    BY <2>5 DEF LiveWithout
<1> QED
  BY <1>1, <1>2, <1>3

\* Indexes that go leave more of the budget.
LEMMA FewerLive ==
    ASSUME IInv, Types', Live' \subseteq Live
    PROVE  BudgetKept'
<1>1. Types /\ BytesOf(Live) <= Limit
  BY DEF IInv, BudgetKept
<1>2. IsFiniteSet(Live) /\ \A e \in Live : e.rows \in Nat
  BY <1>1, InLive DEF Live, Index
<1>3. IsFiniteSet(Live') /\ \A e \in Live' : e.rows \in Nat
  BY <1>2, FS_Subset
<1>4. BytesOf(Live)' = BytesOf(Live')
  BY DEF BytesOf
<1>5. BytesOf(Live') <= BytesOf(Live) /\ BytesOf(Live) \in Nat /\ BytesOf(Live') \in Nat
  BY <1>2, <1>3, FewerBytes, RowsFinite
<1> QED
  BY <1>1, <1>4, <1>5, LookupAssumption DEF BudgetKept

\* An index that is begun has an id of its own.
LEMMA NewIdIsNew ==
    ASSUME Types
    PROVE  NewId \in Nat /\ NewId # 0 /\ \A e \in Live : e.id # NewId
<1> DEFINE N == Cardinality(Live) + 1
           Ids == {e.id : e \in Live}
<1>1. IsFiniteSet(Live) /\ Live \subseteq Index
  BY InLive DEF Live
<1>2. Cardinality(Live) \in Nat
  BY <1>1, FS_CardinalityType
<1>3. IsFiniteSet(Ids) /\ Cardinality(Ids) <= Cardinality(Live)
  <2>1. [e \in Live |-> e.id] \in Surjection(Live, Ids)
    BY DEF Surjection
  <2> QED
    BY <1>1, <2>1, FS_Surjection
<1>4. \E n \in 1..N : n \notin Ids
  <2>1. SUFFICES ASSUME 1..N \subseteq Ids PROVE FALSE
    OBVIOUS
  <2>2. Cardinality(1..N) = N
    BY <1>2, UpTo
  <2>3. Cardinality(1..N) <= Cardinality(Ids)
    BY <1>3, <2>1, FS_Subset
  <2>4. Cardinality(Ids) \in Nat
    BY <1>3, FS_CardinalityType
  <2> QED
    BY <1>2, <1>3, <2>2, <2>3, <2>4
<1>5. \E n \in 1..(Cardinality(Live) + 1) : \A e \in Live : e.id # n
  BY <1>4
<1>6. NewId \in 1..(Cardinality(Live) + 1) /\ \A e \in Live : e.id # NewId
  BY <1>5 DEF NewId
<1> QED
  BY <1>2, <1>6

\* There is always a slot to give away: at most MaxTracked are tracked, and each worker holds one.
LEMMA FreeSlotIsFree ==
    ASSUME Types, TrackInv
    PROVE  /\ FreeSlot \in Slots
           /\ \A s \in Shards : slots[s] # FreeSlot
           /\ \A w \in Workers : held[w] # FreeSlot
<1> DEFINE A == {slots[recency[n]] : n \in 1..Len(recency)}
           B == {held[w] : w \in Workers}
<1>1. Len(recency) \in Nat /\ Len(recency) <= MaxTracked
  BY DEF Types, TrackInv
<1>2. IsFiniteSet(A) /\ Cardinality(A) <= Len(recency)
  <2>1. [n \in 1..Len(recency) |-> slots[recency[n]]] \in Surjection(1..Len(recency), A)
    BY DEF Surjection
  <2>2. IsFiniteSet(1..Len(recency)) /\ Cardinality(1..Len(recency)) = Len(recency)
    BY <1>1, UpTo
  <2> QED
    BY <2>1, <2>2, FS_Surjection
<1>3. IsFiniteSet(B) /\ Cardinality(B) <= Cardinality(Workers)
  <2>1. [w \in Workers |-> held[w]] \in Surjection(Workers, B)
    BY DEF Surjection
  <2> QED
    BY <2>1, FS_Surjection, LookupAssumption
<1>4. \E i \in Slots : i \notin A /\ i \notin B
  <2>1. SUFFICES ASSUME Slots \subseteq A \cup B PROVE FALSE
    OBVIOUS
  <2>2. IsFiniteSet(A \cup B) /\ Cardinality(A \cup B) <= Cardinality(A) + Cardinality(B)
    <3>1. Cardinality(A \cap B) \in Nat
      BY <1>2, FS_Intersection, FS_CardinalityType
    <3>2. Cardinality(A) \in Nat /\ Cardinality(B) \in Nat
      BY <1>2, <1>3, FS_CardinalityType
    <3>3. IsFiniteSet(A \cup B) /\ Cardinality(A \cup B) = Cardinality(A) + Cardinality(B) - Cardinality(A \cap B)
      BY <1>2, <1>3, FS_Union
    <3> QED
      BY <3>1, <3>2, <3>3
  <2>3. Cardinality(Slots) <= Cardinality(A \cup B)
    BY <2>1, <2>2, FS_Subset
  <2>4. Cardinality(A) \in Nat /\ Cardinality(B) \in Nat /\ Cardinality(A \cup B) \in Nat
    BY <1>2, <1>3, <2>2, FS_CardinalityType
  <2> QED
    BY <1>1, <1>2, <1>3, <2>2, <2>3, <2>4, SlotsType, LookupAssumption
<1>5. PICK i \in Slots : i \notin A /\ i \notin B
  BY <1>4
<1>6. ASSUME NEW s \in Shards PROVE slots[s] # i
  <2>1. CASE slots[s] = NoSlot
    BY <2>1, SlotsType
  <2>2. CASE slots[s] # NoSlot
    BY <1>5, <2>2 DEF TrackInv
  <2> QED
    BY <2>1, <2>2
<1>7. \E j \in Slots : /\ \A s \in Shards : slots[s] # j
                       /\ \A w \in Workers : held[w] # j
  BY <1>5, <1>6
<1> QED
  BY <1>7 DEF FreeSlot

-----------------------------------------------------------------------------
(* What the steps of one worker leave alone *)

OthersKept(w) ==
    \A x \in Workers \ {w} :
       /\ pc'[x] = pc[x] /\ todo'[x] = todo[x] /\ shard'[x] = shard[x] /\ held'[x] = held[x]
       /\ fingerprint'[x] = fingerprint[x] /\ unchanged'[x] = unchanged[x]
       /\ index'[x] = index[x] /\ since'[x] = since[x]

LEMMA OthersStay ==
    ASSUME IInv, NEW w \in Workers, OthersKept(w), UNCHANGED version, WorkerInv(w)'
    PROVE  \A x \in Workers : WorkerInv(x)'
<1>1. SUFFICES ASSUME NEW x \in Workers, x # w PROVE WorkerInv(x)'
  OBVIOUS
<1>2. WorkerInv(x)
  BY DEF IInv
<1>3. /\ pc'[x] = pc[x] /\ todo'[x] = todo[x] /\ shard'[x] = shard[x]
      /\ fingerprint'[x] = fingerprint[x] /\ unchanged'[x] = unchanged[x]
      /\ index'[x] = index[x] /\ since'[x] = since[x] /\ version' = version
  BY <1>1 DEF OthersKept
<1> QED
  BY <1>2, <1>3 DEF WorkerInv

\* Indexes go from hand to hand or away.
LEMMA IndexesMove ==
    ASSUME IInv, Types', NEW w \in Workers, OthersKept(w),
           \A i \in Slots : slot'[i].index \in {slot[i].index, NoIndex, index[w]},
           \/ index'[w] \in {NoIndex, index[w]}
           \/ \E i \in Slots : index'[w] = slot[i].index,
           pc'[w] \notin {"read", "reread"}
    PROVE  PrivateInv' /\ BudgetKept'
<1>1. BudgetKept'
  <2>1. Types /\ {} \in SUBSET Slots
    BY DEF IInv
  <2>2. ASSUME NEW e \in Live' PROVE e \in Live
    <3>1. e # NoIndex /\ ((\E i \in Slots : slot'[i].index = e) \/ (\E x \in Workers : index'[x] = e))
      BY <2>2 DEF Live, LiveWithout
    <3>2. CASE \E i \in Slots : slot'[i].index = e
      BY <2>1, <3>1, <3>2, InLive DEF Live
    <3>3. CASE index'[w] = e
      BY <2>1, <3>1, <3>3, InLive DEF Live
    <3>4. CASE \E x \in Workers \ {w} : index'[x] = e
      BY <2>1, <3>1, <3>4, InLive DEF Live, OthersKept
    <3> QED
      BY <3>1, <3>2, <3>3, <3>4
  <2> QED
    BY <2>2, FewerLive
<1>2. PrivateInv'
  <2>1. SUFFICES ASSUME NEW x \in Workers, pc'[x] \in {"read", "reread"}
                 PROVE  /\ index'[x].id # NoIndex.id
                        /\ \A i \in Slots : slot'[i].index.id # index'[x].id
                        /\ \A y \in Workers \ {x} : index'[y].id # index'[x].id
    BY DEF PrivateInv
  <2>2. x # w /\ pc[x] \in {"read", "reread"} /\ index'[x] = index[x]
    BY <2>1 DEF OthersKept
  <2>3. /\ index[x].id # NoIndex.id
        /\ \A i \in Slots : slot[i].index.id # index[x].id
        /\ \A y \in Workers \ {x} : index[y].id # index[x].id
    BY <2>2 DEF IInv, PrivateInv
  <2>4. \A y \in Workers \ {x} : index'[y].id # index'[x].id
    BY <2>2, <2>3 DEF OthersKept
  <2> QED
    BY <2>2, <2>3, <2>4
<1> QED
  BY <1>1, <1>2

\* A step that does not touch the slots.
LEMMA QuietStep ==
    ASSUME IInv, Types', NEW w \in Workers, OthersKept(w), UNCHANGED <<version, cache, held>>,
           pc'[w] \in Holding <=> pc[w] \in Holding, pc'[w] \in Loading <=> pc[w] \in Loading,
           pc'[w] \in Holding => shard'[w] = shard[w],
           pc'[w] \in Loading => fingerprint'[w] = fingerprint[w],
           WorkerInv(w)', PrivateInv', BudgetKept'
    PROVE  IInv'
<1>1. slots' = slots /\ recency' = recency /\ slot' = slot /\ held' = held
  BY DEF cache
<1>2. TrackInv'
  BY <1>1 DEF IInv, TrackInv
<1>3. \A x \in Workers : /\ pc'[x] \in Holding <=> pc[x] \in Holding
                         /\ pc'[x] \in Loading <=> pc[x] \in Loading
                         /\ pc'[x] \in Holding => shard'[x] = shard[x]
                         /\ pc'[x] \in Loading => fingerprint'[x] = fingerprint[x]
  BY DEF OthersKept
<1>4. HoldInv'
  BY <1>1, <1>3 DEF IInv, HoldInv
<1>5. SlotInv'
  BY <1>1, <1>3 DEF IInv, SlotInv
<1>6. LoaderInv'
  BY <1>1, <1>3 DEF IInv, LoaderInv
<1> QED
  BY <1>2, <1>4, <1>5, <1>6, OthersStay DEF IInv

\* One that leaves the indexes, too, or drops the worker's own.
LEMMA LocalStep ==
    ASSUME IInv, Types', NEW w \in Workers, OthersKept(w), UNCHANGED <<version, cache, held>>,
           index'[w] \in {NoIndex, index[w]}, pc'[w] \notin {"read", "reread"},
           pc'[w] \in Holding <=> pc[w] \in Holding, pc'[w] \in Loading <=> pc[w] \in Loading,
           pc'[w] \in Holding => shard'[w] = shard[w],
           pc'[w] \in Loading => fingerprint'[w] = fingerprint[w],
           WorkerInv(w)'
    PROVE  IInv'
<1>1. \A i \in Slots : slot'[i].index \in {slot[i].index, NoIndex, index[w]}
  BY DEF cache
<1>2. PrivateInv' /\ BudgetKept'
  BY <1>1, IndexesMove
<1> QED
  BY <1>2, QuietStep

-----------------------------------------------------------------------------
(* The steps of a worker *)

\* A lookup has seen the files as they are now.
LEMMA BeginStep == ASSUME IInv, NEW w \in Workers, Begin(w) PROVE IInv'
<1>1. Types
  BY DEF IInv
<1>2. PICK asked \in SUBSET Shards :
           /\ todo' = [todo EXCEPT ![w] = asked]
           /\ since' = [since EXCEPT ![w] = [s \in Shards |-> IF s \in asked THEN {version[s]} ELSE {}]]
  BY DEF Begin
<1>3. /\ pc[w] = "idle" /\ pc' = [pc EXCEPT ![w] = "visit"]
      /\ UNCHANGED <<version, cache, shard, held, fingerprint, row_count, unchanged, index>>
  BY DEF Begin, Goto, locals
<1>4. [s \in Shards |-> IF s \in asked THEN {version[s]} ELSE {}] \in [Shards -> SUBSET Nat]
  BY <1>1, LookupAssumption DEF Types
<1>5. Types'
  BY <1>1, <1>2, <1>3, <1>4 DEF Types, cache, Steps
<1>6. /\ pc'[w] = "visit" /\ todo'[w] = asked /\ OthersKept(w)
      /\ since'[w] = [s \in Shards |-> IF s \in asked THEN {version[s]} ELSE {}]
      /\ index'[w] = index[w] /\ version' = version
  BY <1>1, <1>2, <1>3 DEF Types, OthersKept
<1>7. WorkerInv(w)
  BY DEF IInv
<1>8. WorkerInv(w)'
  BY <1>3, <1>6, <1>7 DEF WorkerInv, Holding, Loading
<1> QED
  BY <1>3, <1>5, <1>6, <1>8, LocalStep DEF Holding, Loading

\* The fingerprint is the version of now.
LEMMA StatStep == ASSUME IInv, NEW w \in Workers, Stat(w) PROVE IInv'
<1>1. Types /\ WorkerInv(w)
  BY DEF IInv
<1>2. /\ pc[w] = "stat" /\ pc' = [pc EXCEPT ![w] = "check"]
      /\ fingerprint' = [fingerprint EXCEPT ![w] = version[shard[w]]]
      /\ UNCHANGED <<version, since, cache, todo, shard, held, row_count, unchanged, index>>
  BY DEF Stat, Goto, files
<1>3. Types'
  BY <1>1, <1>2, LookupAssumption DEF Types, cache, Steps
<1>4. /\ pc'[w] = "check" /\ fingerprint'[w] = version[shard[w]] /\ OthersKept(w)
      /\ version[shard[w]] <= version[shard[w]]
  BY <1>1, <1>2, LookupAssumption DEF Types, OthersKept
<1>5. WorkerInv(w)'
  BY <1>1, <1>2, <1>4 DEF WorkerInv, Holding, Loading
<1> QED
  BY <1>2, <1>3, <1>4, <1>5, LocalStep DEF Holding, Loading

\* Counting the rows reads nothing yet.
LEMMA CountRowsStep == ASSUME IInv, NEW w \in Workers, CountRows(w) PROVE IInv'
<1>1. Types /\ WorkerInv(w)
  BY DEF IInv
<1>2. /\ pc[w] = "count" /\ pc' \in {[pc EXCEPT ![w] = "recheck"], [pc EXCEPT ![w] = "reserve"]}
      /\ row_count' = [row_count EXCEPT ![w] = Rows[version[shard[w]]]]
      /\ UNCHANGED <<version, since, cache, todo, shard, held, fingerprint, unchanged, index>>
  BY DEF CountRows, Goto, files
<1>3. Types'
  <2>1. Rows[version[shard[w]]] \in Nat
    BY <1>1, LookupAssumption DEF Types
  <2> QED
    BY <1>1, <1>2, <2>1 DEF Types, cache, Steps, Loading
<1>4. pc'[w] \in {"recheck", "reserve"} /\ OthersKept(w)
  BY <1>1, <1>2 DEF Types, OthersKept
<1>5. WorkerInv(w)'
  BY <1>1, <1>2, <1>4 DEF WorkerInv, Holding, Loading
<1> QED
  BY <1>2, <1>3, <1>4, <1>5, LocalStep DEF Holding, Loading

\* A loader without an index has nothing to publish.
LEMMA LoadFailsStep == ASSUME IInv, NEW w \in Workers, LoadFails(w) PROVE IInv'
<1>1. Types /\ WorkerInv(w)
  BY DEF IInv
<1>2. /\ pc[w] \in {"count", "read", "reread"} /\ pc' = [pc EXCEPT ![w] = "recheck"]
      /\ index' = [index EXCEPT ![w] = NoIndex]
      /\ UNCHANGED <<version, since, cache, todo, shard, held, fingerprint, row_count, unchanged>>
  BY DEF LoadFails, Goto, files
<1>3. Types'
  BY <1>1, <1>2, NoIndexType DEF Types, cache, Steps, Loading
<1>4. pc'[w] = "recheck" /\ index'[w] = NoIndex /\ OthersKept(w)
  BY <1>1, <1>2 DEF Types, OthersKept
<1>5. WorkerInv(w)'
  BY <1>1, <1>2, <1>4 DEF WorkerInv, Holding, Loading, NoIndex
<1> QED
  BY <1>2, <1>3, <1>4, <1>5, LocalStep DEF Holding, Loading

\* A file that has the same version again had it all the time that it was read.
LEMMA RecheckStep == ASSUME IInv, NEW w \in Workers, Recheck(w) PROVE IInv'
<1>1. Types /\ WorkerInv(w)
  BY DEF IInv
<1>2. /\ pc[w] = "recheck" /\ pc' = [pc EXCEPT ![w] = "publish"]
      /\ unchanged' = [unchanged EXCEPT ![w] = version[shard[w]] = fingerprint[w]]
      /\ UNCHANGED <<version, since, cache, todo, shard, held, fingerprint, row_count, index>>
  BY DEF Recheck, Goto, files
<1>3. Types'
  BY <1>1, <1>2 DEF Types, cache, Steps, Loading
<1>4. /\ pc'[w] = "publish" /\ OthersKept(w)
      /\ unchanged'[w] => version[shard[w]] = fingerprint[w]
  BY <1>1, <1>2 DEF Types, OthersKept
<1>5. ASSUME unchanged'[w], index[w] # NoIndex PROVE index[w].holds = {fingerprint[w]}
  <2>1. /\ index[w].holds # {} /\ index[w].holds \subseteq Nat
        /\ \A v \in index[w].holds : fingerprint[w] <= v /\ v <= fingerprint[w]
    BY <1>1, <1>2, <1>4, <1>5 DEF WorkerInv, Types, Index, Loading
  <2>2. fingerprint[w] \in Int
    BY <1>1 DEF Types
  <2>3. \A v \in index[w].holds : v = fingerprint[w]
    BY <2>1, <2>2
  <2> QED
    BY <2>1, <2>3
<1>6. WorkerInv(w)'
  BY <1>1, <1>2, <1>4, <1>5 DEF WorkerInv, Holding, Loading
<1> QED
  BY <1>2, <1>3, <1>4, <1>6, LocalStep DEF Holding, Loading

\* The lookup has searched the index, or does not want it.
LEMMA DropIndexStep == ASSUME IInv, NEW w \in Workers, DropIndex(w) PROVE IInv'
<1>1. Types /\ WorkerInv(w)
  BY DEF IInv
<1>2. /\ pc[w] \in {"drop", "find"} /\ pc' = [pc EXCEPT ![w] = "visit"]
      /\ index' = [index EXCEPT ![w] = NoIndex]
      /\ since' = [since EXCEPT ![w] = [s \in Shards |-> IF s = shard[w] THEN {} ELSE since[w][s]]]
      /\ UNCHANGED <<version, cache, todo, shard, held, fingerprint, row_count, unchanged>>
  BY DEF DropIndex, Goto, Asked
<1>3. Types'
  <2>1. [s \in Shards |-> IF s = shard[w] THEN {} ELSE since[w][s]] \in [Shards -> SUBSET Nat]
    BY <1>1 DEF Types
  <2> QED
    BY <1>1, <1>2, <2>1, NoIndexType DEF Types, cache, Steps, Loading
<1>4. /\ pc'[w] = "visit" /\ index'[w] = NoIndex /\ OthersKept(w)
      /\ \A s \in Shards \ {shard[w]} : since'[w][s] = since[w][s]
  BY <1>1, <1>2 DEF Types, OthersKept
<1>5. todo[w] \subseteq Shards \ {shard[w]}
  BY <1>1, <1>2 DEF WorkerInv, Types
<1>6. WorkerInv(w)'
  BY <1>1, <1>2, <1>4, <1>5 DEF WorkerInv, Holding, Loading, NoIndex
<1> QED
  BY <1>2, <1>3, <1>4, <1>6, LocalStep DEF Holding, Loading

LEMMA FinishStep == ASSUME IInv, NEW w \in Workers, Finish(w) PROVE IInv'
<1>1. Types /\ WorkerInv(w)
  BY DEF IInv
<1>2. /\ pc[w] = "visit" /\ pc' = [pc EXCEPT ![w] = "idle"]
      /\ UNCHANGED <<version, since, cache, todo, shard, held, fingerprint, row_count, unchanged, index>>
  BY DEF Finish, Goto, files, locals
<1>3. Types'
  BY <1>1, <1>2 DEF Types, cache, Steps, Loading
<1>4. pc'[w] = "idle" /\ OthersKept(w)
  BY <1>1, <1>2 DEF Types, OthersKept
<1>5. WorkerInv(w)'
  BY <1>1, <1>2, <1>4 DEF WorkerInv, Holding, Loading
<1> QED
  BY <1>2, <1>3, <1>4, <1>5, LocalStep DEF Holding, Loading

\* An index that is being read changes what it holds, for nobody else, and not its size.
LEMMA ReadStep ==
    ASSUME IInv, Types', NEW w \in Workers, OthersKept(w), UNCHANGED slot, pc[w] \in {"read",
    "reread"},
           index'[w].id = index[w].id, index'[w].rows = index[w].rows
    PROVE  PrivateInv' /\ BudgetKept'
<1>1. Types /\ BytesOf(Live) <= Limit
  BY DEF IInv, BudgetKept
<1>2. /\ index[w].id # NoIndex.id
      /\ \A i \in Slots : slot[i].index.id # index[w].id
      /\ \A x \in Workers \ {w} : index[x].id # index[w].id
  BY DEF IInv, PrivateInv
<1>3. PrivateInv'
  <2>1. SUFFICES ASSUME NEW x \in Workers, pc'[x] \in {"read", "reread"}
                 PROVE  /\ index'[x].id # NoIndex.id
                        /\ \A i \in Slots : slot[i].index.id # index'[x].id
                        /\ \A y \in Workers \ {x} : index'[y].id # index'[x].id
    BY DEF PrivateInv
  <2>2. CASE x = w
    BY <1>2, <2>2 DEF OthersKept
  <2>3. CASE x # w
    <3>1. pc[x] \in {"read", "reread"} /\ index'[x] = index[x]
      BY <2>1, <2>3 DEF OthersKept
    <3>2. /\ index[x].id # NoIndex.id
          /\ \A i \in Slots : slot[i].index.id # index[x].id
          /\ \A y \in Workers \ {x} : index[y].id # index[x].id
      BY <3>1 DEF IInv, PrivateInv
    <3>3. \A y \in Workers : index'[y].id = index[y].id
      BY DEF OthersKept
    <3> QED
      BY <3>1, <3>2, <3>3
  <2> QED
    BY <2>2, <2>3
<1>4. BudgetKept'
  <2> DEFINE S == Live \ {index[w]}
  <2>1. {} \in SUBSET Slots
    OBVIOUS
  <2>2. /\ IsFiniteSet(Live) /\ Live \subseteq Index /\ index[w] \in Live
    <3>1. index[w] # NoIndex
      BY <1>2
    <3> QED
      BY <1>1, <2>1, <3>1, InLive DEF Live
  <2>3. IsFiniteSet(S) /\ (\A i \in S : i.rows \in Nat) /\ index[w].rows \in Nat
    BY <2>2, FS_Difference DEF Index
  <2>4. BytesOf(S \cup {index[w]}) = BytesOf(S) + index[w].rows
    BY <2>3, OneMoreIndex
  <2>5. BytesOf(S \cup {index'[w]}) <= BytesOf(S) + index[w].rows
    BY <2>3, OneMoreIndex
  <2>6. Live = S \cup {index[w]}
    BY <2>2
  <2>7. Live' \subseteq S \cup {index'[w]}
    <3>1. SUFFICES ASSUME NEW e \in Live', e # index'[w] PROVE e \in S
      OBVIOUS
    <3>2. e # NoIndex /\ ((\E i \in Slots : slot[i].index = e) \/ (\E x \in Workers : index'[x] = e))
      BY <3>1 DEF Live, LiveWithout
    <3>3. CASE \E i \in Slots : slot[i].index = e
      BY <1>1, <1>2, <2>1, <3>2, <3>3, InLive DEF Live
    <3>4. CASE \E x \in Workers : index'[x] = e
      <4>1. PICK x \in Workers : index'[x] = e
        BY <3>4
      <4>2. x # w /\ index[x] = e
        BY <3>1, <4>1 DEF OthersKept
      <4> QED
        BY <1>1, <1>2, <2>1, <3>2, <4>2, InLive DEF Live
    <3> QED
      BY <3>2, <3>3, <3>4
  <2>8. /\ IsFiniteSet(S \cup {index'[w]}) /\ \A i \in S \cup {index'[w]} : i.rows \in Nat
    BY <2>3, FS_AddElement
  <2>9. BytesOf(Live') <= BytesOf(S \cup {index'[w]})
    BY <2>7, <2>8, FewerBytes
  <2>10. /\ BytesOf(S \cup {index'[w]}) \in Nat /\ BytesOf(S) \in Nat
    BY <2>3, <2>8, RowsFinite
  <2>11. IsFiniteSet(Live') /\ \A i \in Live' : i.rows \in Nat
    BY <2>7, <2>8, FS_Subset
  <2>12. BytesOf(Live') \in Nat /\ BytesOf(Live') = BytesOf(Live)'
    BY <2>11, RowsFinite DEF BytesOf
  <2>13. BytesOf(S) + index[w].rows <= Limit
    BY <1>1, <2>4, <2>6
  <2> QED
    BY <2>3, <2>5, <2>9, <2>10, <2>12, <2>13, LookupAssumption DEF BudgetKept
<1> QED
  BY <1>3, <1>4

\* The columns hold what the file is now, and what it was when the loader began is not newer.
LEMMA ReadSomeStep == ASSUME IInv, NEW w \in Workers, ReadSome(w) PROVE IInv'
<1>1. Types /\ WorkerInv(w)
  BY DEF IInv
<1>2. /\ pc[w] = "read" /\ pc' = [pc EXCEPT ![w] = "reread"]
      /\ index' = [index EXCEPT ![w].holds = {version[shard[w]]}]
      /\ UNCHANGED <<version, since, cache, todo, shard, held, fingerprint, row_count, unchanged>>
  BY DEF ReadSome, Goto, files
<1>3. /\ index'[w] = [index[w] EXCEPT !.holds = {version[shard[w]]}] /\ index[w] \in Index
      /\ version[shard[w]] \in Nat
  BY <1>1, <1>2, LookupAssumption DEF Types
<1>4. /\ index'[w].id = index[w].id /\ index'[w].rows = index[w].rows /\ index'[w] \in Index
      /\ index'[w].holds = {version[shard[w]]}
  BY <1>3 DEF Index
<1>5. Types'
  BY <1>1, <1>2, <1>3, <1>4 DEF Types, cache, Steps, Loading
<1>6. pc'[w] = "reread" /\ OthersKept(w)
  BY <1>1, <1>2 DEF Types, OthersKept
<1>7. WorkerInv(w)'
  BY <1>1, <1>2, <1>3, <1>4, <1>6 DEF WorkerInv, Holding, Loading
<1>8. PrivateInv' /\ BudgetKept'
  BY <1>2, <1>4, <1>5, <1>6, ReadStep DEF cache
<1> QED
  BY <1>2, <1>5, <1>6, <1>7, <1>8, QuietStep DEF Holding, Loading

LEMMA ReadRestStep == ASSUME IInv, NEW w \in Workers, ReadRest(w) PROVE IInv'
<1>1. Types /\ WorkerInv(w)
  BY DEF IInv
<1>2. /\ pc[w] = "reread" /\ pc' = [pc EXCEPT ![w] = "recheck"]
      /\ index' = [index EXCEPT ![w].holds = @ \cup {version[shard[w]]}]
      /\ UNCHANGED <<version, since, cache, todo, shard, held, fingerprint, row_count, unchanged>>
  BY DEF ReadRest, Goto, files
<1>3. /\ index'[w] = [index[w] EXCEPT !.holds = index[w].holds \cup {version[shard[w]]}]
      /\ index[w] \in Index /\ version[shard[w]] \in Nat
  BY <1>1, <1>2, LookupAssumption DEF Types
<1>4. /\ index'[w].id = index[w].id /\ index'[w].rows = index[w].rows /\ index'[w] \in Index
      /\ index'[w].holds = index[w].holds \cup {version[shard[w]]}
  BY <1>3 DEF Index
<1>5. Types'
  BY <1>1, <1>2, <1>3, <1>4 DEF Types, cache, Steps, Loading
<1>6. pc'[w] = "recheck" /\ OthersKept(w)
  BY <1>1, <1>2 DEF Types, OthersKept
<1>7. WorkerInv(w)'
  BY <1>1, <1>2, <1>3, <1>4, <1>6 DEF WorkerInv, Holding, Loading
<1>8. PrivateInv' /\ BudgetKept'
  BY <1>2, <1>4, <1>5, <1>6, ReadStep DEF cache
<1> QED
  BY <1>2, <1>5, <1>6, <1>7, <1>8, QuietStep DEF Holding, Loading

-----------------------------------------------------------------------------
(* The steps that change slots *)

\* A worker lets go of its slot, or fails.
LEMMA GoesStep ==
    ASSUME IInv, Types', NEW w \in Workers, OthersKept(w), UNCHANGED version, TrackInv',
           held'[w] = NoSlot, pc'[w] \notin Holding, WorkerInv(w)',
           \A s \in Shards : slots'[s] = slots[s] \/ \A x \in Workers : held[x] # slots'[s],
           \A i \in Slots :
              /\ slot'[i].index \in {slot[i].index, NoIndex, index[w]}
              /\ slot'[i].index # NoIndex => /\ slot'[i].fingerprint # NoVersion
                                             /\ slot'[i].index.holds = {slot'[i].fingerprint}
              /\ slot'[i].loading => /\ slot[i].loading /\ slot'[i].index = NoIndex
                                     /\ ~(held[w] = i /\ pc[w] \in Loading)
              /\ \A x \in Workers \ {w} : held[x] = i /\ pc[x] \in Loading =>
                    slot'[i].loading /\ slot'[i].fingerprint = slot[i].fingerprint,
           \/ index'[w] \in {NoIndex, index[w]}
           \/ \E i \in Slots : index'[w] = slot[i].index
    PROVE  IInv'
<1>1. Types /\ HoldInv /\ SlotInv /\ LoaderInv
  BY DEF IInv
<1>2. \A x \in Workers \ {w} : held'[x] = held[x] /\ pc'[x] = pc[x] /\ shard'[x] = shard[x]
                                  /\ fingerprint'[x] = fingerprint[x]
  BY DEF OthersKept
<1>3. HoldInv'
  <2>1. SUFFICES ASSUME NEW x \in Workers, x # w
                 PROVE  /\ held'[x] # NoSlot <=> pc'[x] \in Holding
                        /\ \A s \in Shards : held'[x] = slots'[s] /\ held'[x] # NoSlot => s = shard'[x]
    BY DEF HoldInv
  <2> QED
    BY <1>1, <1>2, <2>1 DEF HoldInv
<1>4. SlotInv'
  <2>1. SUFFICES ASSUME NEW i \in Slots, slot'[i].loading
                 PROVE  \E x \in Workers : held'[x] = i /\ pc'[x] \in Loading
    BY DEF SlotInv
  <2>2. PICK x \in Workers : held[x] = i /\ pc[x] \in Loading
    BY <1>1, <2>1 DEF SlotInv
  <2>3. x # w
    BY <2>1, <2>2
  <2> QED
    BY <1>2, <2>2, <2>3
<1>5. LoaderInv'
  <2>1. SUFFICES ASSUME NEW x \in Workers, pc'[x] \in Loading
                 PROVE  /\ slot'[held'[x]].loading /\ slot'[held'[x]].fingerprint = fingerprint'[x]
                        /\ \A y \in Workers : held'[y] = held'[x] /\ pc'[y] \in Loading => y = x
    BY DEF LoaderInv
  <2>2. x # w
    BY <2>1 DEF Holding
  <2>3. pc[x] \in Loading /\ held'[x] = held[x] /\ fingerprint'[x] = fingerprint[x]
    BY <1>2, <2>1, <2>2
  <2>4. held[x] \in Slots
    BY <1>1, <2>3 DEF HoldInv, Holding, Types
  <2>5. slot'[held[x]].loading /\ slot'[held[x]].fingerprint = fingerprint[x]
    BY <1>1, <2>2, <2>3, <2>4 DEF LoaderInv
  <2>6. \A y \in Workers : held'[y] = held'[x] /\ pc'[y] \in Loading => y = x
    BY <1>1, <1>2, <2>3 DEF LoaderInv, Holding
  <2> QED
    BY <2>3, <2>5, <2>6
<1>6. PrivateInv' /\ BudgetKept'
  <2>1. pc'[w] \notin {"read", "reread"}
    BY DEF Holding, Loading
  <2> QED
    BY <2>1, IndexesMove
<1> QED
  BY <1>3, <1>4, <1>5, <1>6, OthersStay DEF IInv

\* What is kept is as it was, or a slot of nobody.
LEMMA WhatIsKept ==
    ASSUME NEW new_slot, NEW new_slots, NEW new_held, NEW i \in Slots
    PROVE  /\ Kept(new_slot, new_slots, new_held)[i] \in {new_slot[i], NewSlot}
           /\ (\E w \in Workers : new_held[w] = i) => Kept(new_slot, new_slots, new_held)[i] = new_slot[i]
BY DEF Kept

LEMMA KeptType ==
    ASSUME NEW new_slot \in [Slots -> SlotType], NEW new_slots, NEW new_held
    PROVE  Kept(new_slot, new_slots, new_held) \in [Slots -> SlotType]
BY NoIndexType DEF Kept

\* What is the same for all of them.
LEMMA GoneLocals ==
    ASSUME Types, NEW w \in Workers, Return(w)
    PROVE  /\ held' \in [Workers -> Slots \cup {NoSlot}] /\ fingerprint' \in [Workers -> Int]
           /\ row_count' \in [Workers -> Nat] /\ unchanged' \in [Workers -> BOOLEAN]
           /\ held'[w] = NoSlot
           /\ \A x \in Workers \ {w} : /\ held'[x] = held[x] /\ fingerprint'[x] = fingerprint[x]
                                       /\ unchanged'[x] = unchanged[x]
BY DEF Types, Return, NoVersion

LEMMA AskedType ==
    ASSUME Types, NEW w \in Workers, NEW through \in SUBSET Shards, Asked(w, through)
    PROVE  /\ since' \in [Workers -> [Shards -> SUBSET Nat]]
           /\ \A x \in Workers \ {w} : since'[x] = since[x]
           /\ \A s \in Shards \ through : since'[w][s] = since[w][s]
<1>1. since' = [since EXCEPT ![w] = [s \in Shards |-> IF s \in through THEN {} ELSE since[w][s]]]
  BY DEF Asked
<1>2. [s \in Shards |-> IF s \in through THEN {} ELSE since[w][s]] \in [Shards -> SUBSET Nat]
  BY DEF Types
<1> QED
  BY <1>1, <1>2 DEF Types

LEMMA CheckMissStep == ASSUME IInv, NEW w \in Workers, CheckMiss(w) PROVE IInv'
<1>1. Types /\ WorkerInv(w) /\ SlotInv /\ HoldInv /\ LoaderInv /\ TrackInv
  BY DEF IInv
<1>2. /\ pc[w] = "check" /\ pc' = [pc EXCEPT ![w] = "visit"] /\ Return(w)
      /\ slot' = Kept(slot, slots, held') /\ Asked(w, {shard[w]})
      /\ UNCHANGED <<version, slots, recency, todo, shard, index>>
  BY DEF CheckMiss, LetGo, Goto
<1>3. {shard[w]} \in SUBSET Shards
  BY <1>1 DEF Types
<1>4. Types'
  <2>1. slot' \in [Slots -> SlotType]
    BY <1>1, <1>2, KeptType DEF Types
  <2> QED
    BY <1>1, <1>2, <1>3, <2>1, GoneLocals, AskedType DEF Types, Steps
<1>5. pc'[w] = "visit" /\ OthersKept(w)
  BY <1>1, <1>2, <1>3, GoneLocals, AskedType DEF Types, OthersKept
<1>6. TrackInv'
  BY <1>1, <1>2 DEF TrackInv
<1>7. WorkerInv(w)'
  <2>1. todo[w] \subseteq Shards \ {shard[w]} /\ index[w] = NoIndex
    BY <1>1, <1>2 DEF WorkerInv, Types, Holding
  <2>2. \A s \in Shards \ {shard[w]} : since'[w][s] = since[w][s]
    BY <1>1, <1>2, <1>3, AskedType
  <2> QED
    BY <1>1, <1>2, <1>5, <2>1, <2>2 DEF WorkerInv, Holding, Loading
<1>8. ASSUME NEW i \in Slots
      PROVE  /\ slot'[i].index \in {slot[i].index, NoIndex, index[w]}
             /\ slot'[i].index # NoIndex => /\ slot'[i].fingerprint # NoVersion
                                            /\ slot'[i].index.holds = {slot'[i].fingerprint}
             /\ slot'[i].loading => /\ slot[i].loading /\ slot'[i].index = NoIndex
                                    /\ ~(held[w] = i /\ pc[w] \in Loading)
             /\ \A x \in Workers \ {w} : held[x] = i /\ pc[x] \in Loading =>
                   slot'[i].loading /\ slot'[i].fingerprint = slot[i].fingerprint
  <2>1. slot'[i] \in {slot[i], NewSlot} /\ ((\E x \in Workers : held'[x] = i) => slot'[i] = slot[i])
    BY <1>2, WhatIsKept
  <2>2. pc[w] \notin Loading
    BY <1>2 DEF Loading
  <2>3. \A x \in Workers \ {w} : held'[x] = held[x]
    BY <1>1, <1>2, GoneLocals
  <2>4. ASSUME NEW x \in Workers \ {w}, held[x] = i, pc[x] \in Loading
        PROVE  slot'[i].loading /\ slot'[i].fingerprint = slot[i].fingerprint
    BY <1>1, <2>1, <2>3, <2>4 DEF LoaderInv
  <2> QED
    BY <1>1, <2>1, <2>2, <2>4, NoIndexType DEF SlotInv
<1> QED
  BY <1>1, <1>2, <1>4, <1>5, <1>6, <1>7, <1>8, GoneLocals, GoesStep DEF Holding, Loading

LEMMA CheckHitStep == ASSUME IInv, NEW w \in Workers, CheckHit(w) PROVE IInv'
<1>1. Types /\ WorkerInv(w) /\ SlotInv /\ HoldInv /\ LoaderInv /\ TrackInv
  BY DEF IInv
<1>2. /\ pc[w] = "check" /\ pc' = [pc EXCEPT ![w] = "find"] /\ Return(w)
      /\ slot' = Kept(slot, slots, held') /\ index' = [index EXCEPT ![w] = slot[held[w]].index]
      /\ UNCHANGED <<version, since, slots, recency, todo, shard>>
      /\ slot[held[w]].index # NoIndex
      /\ slot[held[w]].fingerprint \in {NoVersion, fingerprint[w]}
  BY DEF CheckHit, LetGo, Goto, files, Slot, SameFile
<1>3. held[w] \in Slots
  BY <1>1, <1>2 DEF HoldInv, Holding, Types
<1>4. Types'
  <2>1. slot' \in [Slots -> SlotType]
    BY <1>1, <1>2, KeptType DEF Types
  <2>2. slot[held[w]].index \in Index
    BY <1>1, <1>3, SlotFields
  <2> QED
    BY <1>1, <1>2, <2>1, <2>2, GoneLocals DEF Types, Steps
<1>5. pc'[w] = "find" /\ index'[w] = slot[held[w]].index /\ OthersKept(w)
  BY <1>1, <1>2, GoneLocals DEF Types, OthersKept
<1>6. TrackInv'
  BY <1>1, <1>2 DEF TrackInv
<1>7. WorkerInv(w)'
  <2>1. /\ \A t \in todo[w] : version[t] \in since[w][t]
        /\ shard[w] \notin todo[w] /\ version[shard[w]] \in since[w][shard[w]]
        /\ fingerprint[w] \in since[w][shard[w]]
    BY <1>1, <1>2 DEF WorkerInv, Holding
  <2>2. slot[held[w]].index.holds = {fingerprint[w]}
    BY <1>1, <1>2, <1>3 DEF SlotInv
  <2> QED
    BY <1>2, <1>5, <2>1, <2>2 DEF WorkerInv, Holding, Loading
<1>8. ASSUME NEW i \in Slots
      PROVE  /\ slot'[i].index \in {slot[i].index, NoIndex, index[w]}
             /\ slot'[i].index # NoIndex => /\ slot'[i].fingerprint # NoVersion
                                            /\ slot'[i].index.holds = {slot'[i].fingerprint}
             /\ slot'[i].loading => /\ slot[i].loading /\ slot'[i].index = NoIndex
                                    /\ ~(held[w] = i /\ pc[w] \in Loading)
             /\ \A x \in Workers \ {w} : held[x] = i /\ pc[x] \in Loading =>
                   slot'[i].loading /\ slot'[i].fingerprint = slot[i].fingerprint
  <2>1. slot'[i] \in {slot[i], NewSlot} /\ ((\E x \in Workers : held'[x] = i) => slot'[i] = slot[i])
    BY <1>2, WhatIsKept
  <2>2. pc[w] \notin Loading
    BY <1>2 DEF Loading
  <2>3. \A x \in Workers \ {w} : held'[x] = held[x]
    BY <1>1, <1>2, GoneLocals
  <2>4. ASSUME NEW x \in Workers \ {w}, held[x] = i, pc[x] \in Loading
        PROVE  slot'[i].loading /\ slot'[i].fingerprint = slot[i].fingerprint
    BY <1>1, <2>1, <2>3, <2>4 DEF LoaderInv
  <2> QED
    BY <1>1, <2>1, <2>2, <2>4, NoIndexType DEF SlotInv
<1> QED
  BY <1>1, <1>2, <1>3, <1>4, <1>5, <1>6, <1>7, <1>8, GoneLocals, GoesStep DEF Holding, Loading

\* A file that was rewritten starts over in a slot that nobody has.
LEMMA CheckChangedStep == ASSUME IInv, NEW w \in Workers, CheckChanged(w) PROVE IInv'
<1>1. Types /\ WorkerInv(w) /\ SlotInv /\ HoldInv /\ LoaderInv /\ TrackInv
  BY DEF IInv
<1> DEFINE n == [NewSlot EXCEPT !.fingerprint = fingerprint[w], !.visits = 1]
<1>2. /\ pc[w] = "check" /\ pc' = [pc EXCEPT ![w] = "visit"] /\ Return(w)
      /\ slots' = [slots EXCEPT ![shard[w]] = FreeSlot]
      /\ slot' = Kept([slot EXCEPT ![FreeSlot] = n], slots', held') /\ Asked(w, {shard[w]})
      /\ UNCHANGED <<version, recency, todo, shard, index>>
      /\ slots[shard[w]] = held[w]
  BY DEF CheckChanged, Goto, Current
<1>3. {shard[w]} \in SUBSET Shards /\ held[w] \in Slots /\ held[w] # NoSlot
  BY <1>1, <1>2 DEF Types, HoldInv, Holding
<1>4. /\ FreeSlot \in Slots /\ FreeSlot # NoSlot
      /\ \A s \in Shards : slots[s] # FreeSlot
      /\ \A x \in Workers : held[x] # FreeSlot
  BY <1>1, FreeSlotIsFree, SlotsType
<1>5. n \in SlotType /\ n.index = NoIndex /\ ~n.loading
  BY <1>1 DEF NewSlot, SlotType, Types, NoIndex, Index
<1>6. Types'
  <2>1. slot' \in [Slots -> SlotType]
    BY <1>1, <1>2, <1>4, <1>5, KeptType DEF Types
  <2>2. slots' \in [Shards -> Slots \cup {NoSlot}]
    BY <1>1, <1>2, <1>4 DEF Types
  <2> QED
    BY <1>1, <1>2, <1>3, <2>1, <2>2, GoneLocals, AskedType DEF Types, Steps
<1>7. pc'[w] = "visit" /\ OthersKept(w)
  BY <1>1, <1>2, <1>3, GoneLocals, AskedType DEF Types, OthersKept
<1>8. \A s \in Shards : slots'[s] = IF s = shard[w] THEN FreeSlot ELSE slots[s]
  BY <1>1, <1>2 DEF Types
<1>9. TrackInv'
  BY <1>1, <1>2, <1>3, <1>4, <1>8 DEF TrackInv
<1>10. WorkerInv(w)'
  <2>1. todo[w] \subseteq Shards \ {shard[w]} /\ index[w] = NoIndex
    BY <1>1, <1>2 DEF WorkerInv, Types, Holding
  <2>2. \A s \in Shards \ {shard[w]} : since'[w][s] = since[w][s]
    BY <1>1, <1>2, <1>3, AskedType
  <2> QED
    BY <1>1, <1>2, <1>7, <2>1, <2>2 DEF WorkerInv, Holding, Loading
<1>11. ASSUME NEW i \in Slots
      PROVE  /\ slot'[i].index \in {slot[i].index, NoIndex, index[w]}
             /\ slot'[i].index # NoIndex => /\ slot'[i].fingerprint # NoVersion
                                            /\ slot'[i].index.holds = {slot'[i].fingerprint}
             /\ slot'[i].loading => /\ slot[i].loading /\ slot'[i].index = NoIndex
                                    /\ ~(held[w] = i /\ pc[w] \in Loading)
             /\ \A x \in Workers \ {w} : held[x] = i /\ pc[x] \in Loading =>
                   slot'[i].loading /\ slot'[i].fingerprint = slot[i].fingerprint
  <2> DEFINE new == [slot EXCEPT ![FreeSlot] = n]
  <2>1. slot'[i] \in {new[i], NewSlot} /\ ((\E x \in Workers : held'[x] = i) => slot'[i] = new[i])
    <3>1. slot' = Kept(new, slots', held')
      BY <1>2
    <3> HIDE DEF new
    <3> QED
      BY <3>1, WhatIsKept
  <2>2. new[i] = IF i = FreeSlot THEN n ELSE slot[i]
    BY <1>1 DEF Types
  <2>3. pc[w] \notin Loading
    BY <1>2 DEF Loading
  <2>4. \A x \in Workers \ {w} : held'[x] = held[x]
    BY <1>1, <1>2, GoneLocals
  <2> HIDE DEF new, n
  <2>5. ASSUME NEW x \in Workers \ {w}, held[x] = i, pc[x] \in Loading
        PROVE  slot'[i].loading /\ slot'[i].fingerprint = slot[i].fingerprint
    BY <1>1, <1>4, <2>1, <2>2, <2>4, <2>5 DEF LoaderInv
  <2> QED
    BY <1>1, <1>5, <2>1, <2>2, <2>3, <2>5, NoIndexType DEF SlotInv
<1>12. \A s \in Shards : slots'[s] = slots[s] \/ \A x \in Workers : held[x] # slots'[s]
  BY <1>4, <1>8
<1> QED
  BY <1>1, <1>2, <1>6, <1>7, <1>9, <1>10, <1>11, <1>12, GoneLocals, GoesStep DEF Holding, Loading

\* The slot is loading, for this worker: nobody else loads it.
LEMMA CheckLoadStep == ASSUME IInv, NEW w \in Workers, CheckLoad(w) PROVE IInv'
<1>1. Types /\ WorkerInv(w) /\ SlotInv /\ HoldInv /\ LoaderInv /\ TrackInv
  BY DEF IInv
<1>2. /\ pc[w] = "check" /\ pc' = [pc EXCEPT ![w] = "count"]
      /\ slot' = [slot EXCEPT ![held[w]].fingerprint = fingerprint[w], ![held[w]].loading = TRUE]
      /\ UNCHANGED <<version, since, slots, recency, todo, shard, held, fingerprint, row_count>>
      /\ UNCHANGED <<unchanged, index>>
      /\ ~slot[held[w]].loading /\ slot[held[w]].index = NoIndex
  BY DEF CheckLoad, Goto, files, locals, Slot
<1>3. held[w] \in Slots /\ held[w] # NoSlot
  BY <1>1, <1>2 DEF HoldInv, Holding, Types
<1>4. \A i \in Slots : slot'[i] = IF i = held[w]
                                  THEN [slot[i] EXCEPT !.fingerprint = fingerprint[w],
                                  !.loading = TRUE]
                                  ELSE slot[i]
  BY <1>1, <1>2, <1>3 DEF Types
<1>5. /\ slot'[held[w]].fingerprint = fingerprint[w] /\ slot'[held[w]].loading
      /\ slot'[held[w]].index = NoIndex /\ slot'[held[w]] \in SlotType
  BY <1>1, <1>2, <1>3, <1>4 DEF Types, SlotType
<1>6. Types'
  <2>1. slot' \in [Slots -> SlotType]
    BY <1>1, <1>2, <1>3, <1>4, <1>5 DEF Types
  <2> QED
    BY <1>1, <1>2, <2>1 DEF Types, Steps, Loading
<1>7. pc'[w] = "count" /\ OthersKept(w)
  BY <1>1, <1>2 DEF Types, OthersKept
<1>8. TrackInv'
  BY <1>1, <1>2 DEF TrackInv
<1>9. HoldInv'
  BY <1>1, <1>2, <1>7 DEF HoldInv, Holding, Loading, OthersKept
<1>10. \A x \in Workers : pc[x] \in Loading => x # w /\ held[x] # held[w] /\ held[x] \in Slots
  BY <1>1, <1>2 DEF LoaderInv, HoldInv, Holding, Loading, Types
<1>11. SlotInv'
  <2>1. SUFFICES ASSUME NEW i \in Slots
                 PROVE  /\ slot'[i].index # NoIndex => /\ slot'[i].fingerprint # NoVersion
                                                       /\ slot'[i].index.holds = {slot'[i].fingerprint}
                        /\ slot'[i].loading => /\ slot'[i].index = NoIndex
                                               /\ \E x \in Workers : held'[x] = i /\ pc'[x] \in Loading
    BY DEF SlotInv
  <2>2. CASE i = held[w]
    BY <1>2, <1>5, <1>7, <2>2 DEF Loading
  <2>3. CASE i # held[w]
    <3>1. ASSUME slot[i].loading PROVE \E x \in Workers : held'[x] = i /\ pc'[x] \in Loading
      BY <1>1, <1>2, <1>7, <1>10, <3>1 DEF SlotInv, OthersKept
    <3> QED
      BY <1>1, <1>4, <2>3, <3>1 DEF SlotInv
  <2> QED
    BY <2>2, <2>3
<1>12. LoaderInv'
  <2>1. SUFFICES ASSUME NEW x \in Workers, pc'[x] \in Loading
                 PROVE  /\ slot'[held[x]].loading /\ slot'[held[x]].fingerprint = fingerprint[x]
                        /\ \A y \in Workers : held[y] = held[x] /\ pc'[y] \in Loading => y = x
    BY <1>2 DEF LoaderInv
  <2>2. CASE x = w
    BY <1>5, <1>7, <1>10, <2>2 DEF OthersKept
  <2>3. CASE x # w
    BY <1>1, <1>4, <1>7, <1>10, <2>1, <2>3 DEF OthersKept, LoaderInv
  <2> QED
    BY <2>2, <2>3
<1>13. WorkerInv(w)'
  <2>1. /\ \A t \in todo[w] : version[t] \in since[w][t]
        /\ shard[w] \notin todo[w] /\ version[shard[w]] \in since[w][shard[w]]
        /\ fingerprint[w] \in since[w][shard[w]] /\ fingerprint[w] <= version[shard[w]]
        /\ index[w] = NoIndex
    BY <1>1, <1>2 DEF WorkerInv, Holding
  <2> QED
    BY <1>2, <1>7, <2>1 DEF WorkerInv, Holding, Loading, NoIndex
<1>14. PrivateInv' /\ BudgetKept'
  <2>1. \A i \in Slots : slot'[i].index \in {slot[i].index, NoIndex, index[w]}
    BY <1>4, <1>5
  <2> QED
    BY <1>2, <1>6, <1>7, <2>1, IndexesMove
<1> QED
  BY <1>2, <1>6, <1>7, <1>8, <1>9, <1>11, <1>12, <1>13, <1>14, OthersStay DEF IInv

\* An index that fits is begun, or the loader goes without.  Evicted slots lose theirs.
LEMMA ReserveStep == ASSUME IInv, NEW w \in Workers, Reserve(w) PROVE IInv'
<1>1. Types /\ WorkerInv(w) /\ SlotInv /\ HoldInv /\ LoaderInv /\ TrackInv /\ PrivateInv
  BY DEF IInv
<1>2. /\ pc[w] = "reserve"
      /\ UNCHANGED <<version, since, slots, recency, todo, shard, held, fingerprint, row_count>>
      /\ UNCHANGED unchanged
  BY DEF Reserve, files
<1>3. PICK k \in 0..Len(recency) :
           /\ Evict(k)
           /\ \/ /\ Fits(row_count[w], k)
                 /\ index' = [index EXCEPT ![w] = [id |-> NewId, rows |-> row_count[w], holds |-> {}]]
                 /\ pc' = [pc EXCEPT ![w] = "read"]
              \/ index' = index /\ pc' = [pc EXCEPT ![w] = "recheck"]
  <2>1. Len(recency) \in 0..Len(recency)
    BY <1>1 DEF Types
  <2> QED
    BY <2>1 DEF Reserve, Goto
<1>4. \A i \in Slots : slot'[i] = IF i \in Oldest(k) /\ slot[i].index # NoIndex
                                  THEN [slot[i] EXCEPT !.index = NoIndex, !.skipped = TRUE]
                                  ELSE slot[i]
  BY <1>3 DEF Evict
<1>5. ASSUME NEW i \in Slots
      PROVE  /\ slot'[i] \in SlotType
             /\ slot'[i].index = IF i \in Oldest(k) THEN NoIndex ELSE slot[i].index
             /\ slot'[i].fingerprint = slot[i].fingerprint /\ slot'[i].loading = slot[i].loading
  BY <1>4, SlotFields, <1>1, NoIndexType DEF SlotType
<1> DEFINE new == [id |-> NewId, rows |-> row_count[w], holds |-> {}]
<1>6. /\ NewId \in Nat /\ NewId # 0 /\ \A e \in Live : e.id # NewId
      /\ new \in Index
  BY <1>1, NewIdIsNew DEF Types, Index
<1>7. Types'
  <2>1. slot' \in [Slots -> SlotType]
    BY <1>3, <1>5 DEF Evict
  <2>2. index' \in [Workers -> Index]
    BY <1>1, <1>3, <1>6 DEF Types
  <2> QED
    BY <1>1, <1>2, <1>3, <2>1, <2>2 DEF Types, Steps, Loading
<1>8. /\ pc'[w] \in {"read", "recheck"} /\ OthersKept(w)
      /\ pc'[w] = "recheck" => index'[w] = index[w]
      /\ pc'[w] = "read" => index'[w] = new /\ Fits(row_count[w], k)
  BY <1>1, <1>2, <1>3 DEF Types, OthersKept
<1>9. TrackInv'
  BY <1>1, <1>2 DEF TrackInv
<1>10. HoldInv'
  BY <1>1, <1>2, <1>8 DEF HoldInv, Holding, Loading, OthersKept
<1>11. \A x \in Workers : pc'[x] \in Loading <=> pc[x] \in Loading
  BY <1>2, <1>8 DEF Loading, OthersKept
<1>12. SlotInv'
  BY <1>1, <1>2, <1>5, <1>11 DEF SlotInv
<1>13. \A x \in Workers : pc[x] \in Loading => held[x] \in Slots
  BY <1>1 DEF HoldInv, Holding, Types
<1>14. LoaderInv'
  BY <1>1, <1>2, <1>5, <1>11, <1>13 DEF LoaderInv
<1>15. WorkerInv(w)'
  <2>1. new.holds = {} /\ NoIndex.holds = {} /\ index[w] = NoIndex
    BY <1>1, <1>2 DEF NoIndex, WorkerInv
  <2> HIDE DEF new
  <2> QED
    BY <1>1, <1>2, <1>8, <2>1 DEF WorkerInv, Holding, Loading
<1>16. CASE pc'[w] = "recheck"
  <2>1. \A i \in Slots : slot'[i].index \in {slot[i].index, NoIndex, index[w]}
    BY <1>5
  <2>2. PrivateInv' /\ BudgetKept'
    BY <1>7, <1>8, <1>16, <2>1, IndexesMove
  <2> QED
    BY <1>2, <1>7, <1>8, <1>9, <1>10, <1>12, <1>14, <1>15, <2>2, OthersStay DEF IInv
<1>17. CASE pc'[w] = "read"
  <2>1. {} \in SUBSET Slots /\ Oldest(k) \in SUBSET Slots
    <3>1. ASSUME NEW n \in 1..k PROVE slots[recency[n]] \in Slots
      <4>1. n \in 1..Len(recency) /\ recency[n] \in Shards
        BY <1>1 DEF Types
      <4> QED
        BY <1>1, <4>1 DEF TrackInv, Types
    <3> QED
      BY <3>1 DEF Oldest
  <2>2. new # NoIndex /\ index'[w] = new /\ new.id = NewId /\ new.rows = row_count[w]
    BY <1>6, <1>8, <1>17 DEF NoIndex
  <2> HIDE DEF new
  <2>3. /\ \A i \in Slots : slot[i].index.id # NewId
        /\ \A x \in Workers : index[x].id # NewId
    <3>1. ASSUME NEW e, e.id = NewId PROVE e # NoIndex
      BY <1>6, <3>1 DEF NoIndex
    <3> QED
      BY <1>1, <1>6, <2>1, <3>1, InLive DEF Live
  <2>4. PrivateInv'
    <3>1. SUFFICES ASSUME NEW x \in Workers, pc'[x] \in {"read", "reread"}
                   PROVE  /\ index'[x].id # NoIndex.id
                          /\ \A i \in Slots : slot'[i].index.id # index'[x].id
                          /\ \A y \in Workers \ {x} : index'[y].id # index'[x].id
      BY DEF PrivateInv
    <3>2. \A y \in Workers \ {w} : index'[y] = index[y] /\ pc'[y] = pc[y]
      BY <1>8 DEF OthersKept
    <3>3. CASE x = w
      BY <1>5, <1>6, <2>2, <2>3, <3>2, <3>3, NoIndexType
    <3>4. CASE x # w
      <4>1. /\ index[x].id # NoIndex.id /\ index'[x] = index[x]
            /\ \A i \in Slots : slot[i].index.id # index[x].id
            /\ \A y \in Workers \ {x} : index[y].id # index[x].id
        BY <1>1, <3>1, <3>2, <3>4 DEF PrivateInv
      <4>2. \A i \in Slots : slot'[i].index.id # index[x].id
        BY <1>5, <4>1
      <4>3. \A y \in Workers \ {x} : index'[y].id # index[x].id
        BY <2>2, <2>3, <3>2, <4>1
      <4> QED
        BY <4>1, <4>2, <4>3
    <3> QED
      BY <3>3, <3>4
  <2>5. BudgetKept'
    <3> DEFINE S == LiveWithout(Oldest(k))
    <3>1. IsFiniteSet(S) /\ \A e \in S : e.rows \in Nat
      BY <1>1, <2>1, InLive DEF Index
    <3>2. row_count[w] + BytesOf(S) <= Limit /\ row_count[w] \in Nat
      BY <1>1, <1>8, <1>17 DEF Fits, Types
    <3>3. Live' \subseteq S \cup {new}
      <4>1. SUFFICES ASSUME NEW e \in Live', e # new PROVE e \in S
        OBVIOUS
      <4>2. e # NoIndex /\ ((\E i \in Slots : slot'[i].index = e) \/ (\E x \in Workers : index'[x] = e))
        BY <4>1 DEF Live, LiveWithout
      <4>3. CASE \E i \in Slots : slot'[i].index = e
        BY <1>1, <1>5, <2>1, <4>2, <4>3, InLive
      <4>4. CASE \E x \in Workers : index'[x] = e
        <5>1. PICK x \in Workers : index'[x] = e
          BY <4>4
        <5>2. x # w /\ index[x] = e
          BY <1>8, <2>2, <4>1, <5>1 DEF OthersKept
        <5> QED
          BY <1>1, <2>1, <4>2, <5>2, InLive
      <4> QED
        BY <4>2, <4>3, <4>4
    <3> HIDE DEF S
    <3>4. BytesOf(S \cup {new}) <= BytesOf(S) + row_count[w]
      BY <2>2, <3>1, <3>2, OneMoreIndex
    <3>5. IsFiniteSet(S \cup {new}) /\ \A e \in S \cup {new} : e.rows \in Nat
      BY <2>2, <3>1, <3>2, FS_AddElement
    <3>6. BytesOf(Live') <= BytesOf(S \cup {new})
      BY <3>3, <3>5, FewerBytes
    <3>7. IsFiniteSet(Live') /\ \A e \in Live' : e.rows \in Nat
      BY <3>3, <3>5, FS_Subset
    <3>8. BytesOf(Live') \in Nat /\ BytesOf(S) \in Nat /\ BytesOf(S \cup {new}) \in Nat
      BY <3>1, <3>5, <3>7, RowsFinite
    <3>9. BytesOf(Live') = BytesOf(Live)'
      BY DEF BytesOf
    <3> QED
      BY <3>2, <3>4, <3>6, <3>8, <3>9, LookupAssumption DEF BudgetKept
  <2> QED
    BY <1>2, <1>7, <1>8, <1>9, <1>10, <1>12, <1>14, <1>15, <2>4, <2>5, OthersStay DEF IInv
<1> QED
  BY <1>8, <1>16, <1>17

\* An index that is kept is of the version that its slot has.
LEMMA PublishStep == ASSUME IInv, NEW w \in Workers, Publish(w) PROVE IInv'
<1>1. Types /\ WorkerInv(w) /\ SlotInv /\ HoldInv /\ LoaderInv /\ TrackInv
  BY DEF IInv
<1> DEFINE done == [slot[held[w]] EXCEPT !.loading = FALSE]
           n == IF unchanged[w] /\ Current(w)
                THEN [done EXCEPT !.skipped = index[w] = NoIndex, !.index = index[w]] ELSE done
           new == [slot EXCEPT ![held[w]] = n]
<1>2. /\ pc[w] = "publish" /\ Return(w) /\ slot' = Kept(new, slots, held')
      /\ UNCHANGED <<version, slots, recency, todo, shard, index>>
  BY DEF Publish, LetGo, Slot
<1>3. held[w] \in Slots /\ {shard[w]} \in SUBSET Shards
  BY <1>1, <1>2 DEF HoldInv, Holding, Loading, Types
<1>4. \/ index[w] = NoIndex /\ pc' = [pc EXCEPT ![w] = "visit"] /\ Asked(w, {shard[w]})
      \/ index[w] # NoIndex /\ unchanged[w] /\ pc' = [pc EXCEPT ![w] = "find"] /\ since' = since
      \/ index[w] # NoIndex /\ pc' = [pc EXCEPT ![w] = "drop"] /\ since' = since
  <2>1. CASE index[w] = NoIndex
    BY <2>1 DEF Publish, Goto
  <2>2. CASE index[w] # NoIndex /\ unchanged[w] /\ Current(w)
    BY <2>2 DEF Publish, Goto
  <2>3. CASE index[w] # NoIndex /\ ~(unchanged[w] /\ Current(w))
    BY <2>3 DEF Publish, Goto
  <2> QED
    BY <2>1, <2>2, <2>3
<1>5. /\ index[w] = NoIndex => pc'[w] = "visit" /\ Asked(w, {shard[w]})
      /\ index[w] # NoIndex => since' = since /\ pc'[w] \in {"find", "drop"}
      /\ pc'[w] = "find" => unchanged[w] /\ index[w] # NoIndex
  BY <1>1, <1>4 DEF Types
<1>6. /\ n \in SlotType /\ n.fingerprint = slot[held[w]].fingerprint /\ ~n.loading
      /\ n.index = slot[held[w]].index \/ (unchanged[w] /\ n.index = index[w])
  <2>1. slot[held[w]] \in SlotType /\ index[w] \in Index
    BY <1>1, <1>3 DEF Types
  <2> QED
    BY <2>1 DEF SlotType
<1>7. \A i \in Slots : new[i] = IF i = held[w] THEN n ELSE slot[i]
  BY <1>1, <1>3 DEF Types
<1>8. new \in [Slots -> SlotType]
  BY <1>1, <1>3, <1>6 DEF Types
<1> HIDE DEF n, new
<1>9. Types'
  <2>1. slot' \in [Slots -> SlotType]
    BY <1>2, <1>8, KeptType
  <2>2. since' \in [Workers -> [Shards -> SUBSET Nat]]
    BY <1>1, <1>3, <1>5, AskedType DEF Types
  <2> QED
    BY <1>1, <1>2, <1>4, <2>1, <2>2, GoneLocals DEF Types, Steps
<1>10. OthersKept(w) /\ pc'[w] \in {"visit", "find", "drop"}
  <2>1. \A x \in Workers \ {w} : since'[x] = since[x]
    BY <1>1, <1>3, <1>5, AskedType
  <2> QED
    BY <1>1, <1>2, <1>4, <2>1, GoneLocals DEF Types, OthersKept
<1>11. TrackInv'
  BY <1>1, <1>2 DEF TrackInv
<1>12. /\ \A t \in todo[w] : version[t] \in since[w][t]
       /\ shard[w] \notin todo[w] /\ version[shard[w]] \in since[w][shard[w]]
       /\ fingerprint[w] \in since[w][shard[w]]
       /\ unchanged[w] /\ index[w] # NoIndex => index[w].holds = {fingerprint[w]}
  BY <1>1, <1>2 DEF WorkerInv, Holding, Loading
<1>13. WorkerInv(w)'
  <2>1. CASE index[w] = NoIndex
    <3>1. pc'[w] = "visit" /\ \A s \in Shards \ {shard[w]} : since'[w][s] = since[w][s]
      BY <1>1, <1>3, <1>5, <2>1, AskedType
    <3>2. todo[w] \subseteq Shards \ {shard[w]}
      BY <1>1, <1>12 DEF Types
    <3> QED
      BY <1>2, <1>12, <2>1, <3>1, <3>2 DEF WorkerInv, Holding, Loading
  <2>2. CASE index[w] # NoIndex
    <3>1. /\ since' = since /\ pc'[w] \in {"find", "drop"}
          /\ pc'[w] = "find" => index[w].holds = {fingerprint[w]}
      BY <1>5, <1>12, <2>2
    <3> QED
      BY <1>2, <1>12, <3>1 DEF WorkerInv, Holding, Loading
  <2> QED
    BY <2>1, <2>2
<1>14. ASSUME NEW i \in Slots
      PROVE  /\ slot'[i].index \in {slot[i].index, NoIndex, index[w]}
             /\ slot'[i].index # NoIndex => /\ slot'[i].fingerprint # NoVersion
                                            /\ slot'[i].index.holds = {slot'[i].fingerprint}
             /\ slot'[i].loading => /\ slot[i].loading /\ slot'[i].index = NoIndex
                                    /\ ~(held[w] = i /\ pc[w] \in Loading)
             /\ \A x \in Workers \ {w} : held[x] = i /\ pc[x] \in Loading =>
                   slot'[i].loading /\ slot'[i].fingerprint = slot[i].fingerprint
  <2>1. slot'[i] \in {new[i], NewSlot} /\ ((\E x \in Workers : held'[x] = i) => slot'[i] = new[i])
    BY <1>2, WhatIsKept
  <2>2. pc[w] \in Loading /\ slot[held[w]].fingerprint = fingerprint[w]
    BY <1>1, <1>2 DEF Loading, LoaderInv
  <2>3. fingerprint[w] # NoVersion
    BY <1>1, <1>3, <1>12 DEF Types, NoVersion
  <2>4. \A x \in Workers \ {w} : held'[x] = held[x]
    BY <1>1, <1>2, GoneLocals
  <2>5. ASSUME NEW x \in Workers \ {w}, held[x] = i, pc[x] \in Loading
        PROVE  slot'[i].loading /\ slot'[i].fingerprint = slot[i].fingerprint
    <3>1. i # held[w] /\ slot[i].loading
      BY <1>1, <2>2, <2>5 DEF LoaderInv
    <3> QED
      BY <1>7, <2>1, <2>4, <2>5, <3>1
  <2>6. CASE i = held[w]
    <3>1. slot'[i] = n \/ slot'[i] = NewSlot
      BY <1>7, <2>1, <2>6
    <3>2. slot[i].fingerprint = fingerprint[w] /\ n.fingerprint = fingerprint[w]
      BY <1>6, <2>2, <2>6
    <3>3. n.index # NoIndex => n.index.holds = {fingerprint[w]}
      BY <1>1, <1>6, <1>12, <2>2, <2>6 DEF SlotInv
    <3> QED
      BY <1>6, <2>3, <2>5, <2>6, <3>1, <3>2, <3>3, NoIndexType
  <2>7. CASE i # held[w]
    BY <1>1, <1>7, <2>1, <2>5, <2>7, NoIndexType DEF SlotInv
  <2> QED
    BY <2>6, <2>7
<1> QED
  BY <1>1, <1>2, <1>9, <1>10, <1>11, <1>13, <1>14, GoneLocals, GoesStep DEF Holding, Loading

\* A loader that fails resets its slot.
LEMMA ThrowStep == ASSUME IInv, NEW w \in Workers, Throw(w) PROVE IInv'
<1>1. Types /\ WorkerInv(w) /\ SlotInv /\ HoldInv /\ LoaderInv /\ TrackInv
  BY DEF IInv
<1> DEFINE new == IF pc[w] \in Loading THEN [slot EXCEPT ![held[w]].loading = FALSE] ELSE slot
<1>2. /\ pc' = [pc EXCEPT ![w] = "failed"] /\ Return(w) /\ slot' = Kept(new, slots, held')
      /\ index' = [index EXCEPT ![w] = NoIndex] /\ todo' = [todo EXCEPT ![w] = {}]
      /\ Asked(w, Shards) /\ UNCHANGED <<version, slots, recency, shard>>
  BY DEF Throw, LetGo, Goto
<1>3. pc[w] \in Loading => held[w] \in Slots
  BY <1>1 DEF HoldInv, Holding, Types
<1>4. ASSUME NEW i \in Slots
      PROVE  /\ new[i] \in SlotType /\ new[i].index = slot[i].index /\ new[i].fingerprint = slot[i].fingerprint
             /\ new[i].loading = IF i = held[w] /\ pc[w] \in Loading THEN FALSE ELSE slot[i].loading
  BY <1>1, <1>3 DEF Types, SlotType
<1>5. new \in [Slots -> SlotType]
  BY <1>1, <1>3 DEF Types, SlotType
<1> HIDE DEF new
<1>6. Types'
  <2>1. slot' \in [Slots -> SlotType]
    BY <1>2, <1>5, KeptType
  <2> QED
    BY <1>1, <1>2, <2>1, NoIndexType, GoneLocals, AskedType DEF Types, Steps
<1>7. OthersKept(w) /\ pc'[w] = "failed" /\ index'[w] = NoIndex /\ todo'[w] = {}
  BY <1>1, <1>2, GoneLocals, AskedType DEF Types, OthersKept
<1>8. TrackInv'
  BY <1>1, <1>2 DEF TrackInv
<1>9. WorkerInv(w)'
  BY <1>7 DEF WorkerInv, Holding, Loading
<1>10. ASSUME NEW i \in Slots
      PROVE  /\ slot'[i].index \in {slot[i].index, NoIndex, index[w]}
             /\ slot'[i].index # NoIndex => /\ slot'[i].fingerprint # NoVersion
                                            /\ slot'[i].index.holds = {slot'[i].fingerprint}
             /\ slot'[i].loading => /\ slot[i].loading /\ slot'[i].index = NoIndex
                                    /\ ~(held[w] = i /\ pc[w] \in Loading)
             /\ \A x \in Workers \ {w} : held[x] = i /\ pc[x] \in Loading =>
                   slot'[i].loading /\ slot'[i].fingerprint = slot[i].fingerprint
  <2>1. slot'[i] \in {new[i], NewSlot} /\ ((\E x \in Workers : held'[x] = i) => slot'[i] = new[i])
    BY <1>2, WhatIsKept
  <2>2. \A x \in Workers \ {w} : held'[x] = held[x]
    BY <1>1, <1>2, GoneLocals
  <2>3. ASSUME NEW x \in Workers \ {w}, held[x] = i, pc[x] \in Loading
        PROVE  slot'[i].loading /\ slot'[i].fingerprint = slot[i].fingerprint
    <3>1. ~(i = held[w] /\ pc[w] \in Loading) /\ slot[i].loading
      BY <1>1, <2>3 DEF LoaderInv
    <3> QED
      BY <1>4, <2>1, <2>2, <2>3, <3>1
  <2>4. CASE slot'[i] = NewSlot
    BY <2>3, <2>4, NoIndexType
  <2>5. CASE slot'[i] = new[i]
    <3>1. /\ slot'[i].index = slot[i].index /\ slot'[i].fingerprint = slot[i].fingerprint
          /\ slot'[i].loading => slot[i].loading /\ ~(held[w] = i /\ pc[w] \in Loading)
      BY <1>4, <2>5
    <3> QED
      BY <1>1, <2>3, <3>1 DEF SlotInv
  <2> QED
    BY <2>1, <2>4, <2>5
<1>11. held'[w] = NoSlot /\ pc'[w] \notin Holding /\ slots' = slots
  BY <1>1, <1>2, <1>7, GoneLocals DEF Holding, Loading
<1>12. ASSUME NEW s \in Shards PROVE slots'[s] = slots[s]
  BY <1>11
<1> QED
  BY <1>2, <1>6, <1>7, <1>8, <1>9, <1>10, <1>11, <1>12, GoesStep

\* A sequence without one of its elements.
LEMMA Removed ==
    ASSUME NEW S, NEW q \in Seq(S), NEW p \in 1..Len(q)
    PROVE  /\ RemoveAt(q, p) \in Seq(S) /\ Len(RemoveAt(q, p)) = Len(q) - 1
           /\ \A n \in 1..(Len(q) - 1) : RemoveAt(q, p)[n] = IF n < p THEN q[n] ELSE q[n + 1]
<1> DEFINE a == SubSeq(q, 1, p - 1)
           b == SubSeq(q, p + 1, Len(q))
<1>1. Len(q) \in Nat /\ p \in Nat /\ 1 <= p /\ p <= Len(q)
  OBVIOUS
<1>2. a \in Seq(S) /\ Len(a) = p - 1 /\ \A n \in 1..(p - 1) : a[n] = q[n]
  BY <1>1
<1>3. b \in Seq(S) /\ Len(b) = Len(q) - p /\ \A n \in 1..(Len(q) - p) : b[n] = q[n + p]
  BY <1>1
<1> HIDE DEF a, b
<1>4. /\ a \o b \in Seq(S) /\ Len(a \o b) = Len(q) - 1
      /\ \A n \in 1..(Len(q) - 1) : (a \o b)[n] = IF n <= Len(a) THEN a[n] ELSE b[n - Len(a)]
  <2>1. a \o b \in Seq(S) /\ Len(a \o b) = Len(a) + Len(b)
    BY <1>2, <1>3, ConcatProperties
  <2>2. \A n \in 1..Len(a) + Len(b) : (a \o b)[n] = IF n <= Len(a) THEN a[n] ELSE b[n - Len(a)]
    BY <1>2, <1>3, ConcatProperties
  <2>3. Len(a) + Len(b) = Len(q) - 1
    BY <1>1, <1>2, <1>3
  <2> QED
    BY <2>1, <2>2, <2>3
<1>5. ASSUME NEW n \in 1..(Len(q) - 1) PROVE (a \o b)[n] = IF n < p THEN q[n] ELSE q[n + 1]
  <2>1. CASE n < p
    BY <1>1, <1>2, <1>4, <2>1
  <2>2. CASE ~(n < p)
    <3>1. n - Len(a) \in 1..(Len(q) - p) /\ (n - Len(a)) + p = n + 1
      BY <1>1, <1>2, <2>2
    <3>2. b[n - Len(a)] = q[(n - Len(a)) + p]
      BY <1>3, <3>1
    <3>3. (a \o b)[n] = b[n - Len(a)]
      BY <1>1, <1>2, <1>4, <2>2
    <3> QED
      BY <2>2, <3>1, <3>2, <3>3
  <2> QED
    BY <2>1, <2>2
<1> QED
  BY <1>4, <1>5 DEF RemoveAt, a, b

Distinct(q) == \A m, n \in 1..Len(q) : q[m] = q[n] => m = n
Occurs(q, x) == \E n \in 1..Len(q) : q[n] = x

LEMMA Without ==
    ASSUME NEW S, NEW q \in Seq(S), NEW p \in 1..Len(q), Distinct(q)
    PROVE  /\ Distinct(RemoveAt(q, p))
           /\ \A x : Occurs(RemoveAt(q, p), x) <=> x # q[p] /\ Occurs(q, x)
<1> DEFINE r == RemoveAt(q, p)
<1>1. Len(q) \in Nat /\ p \in Nat /\ 1 <= p /\ p <= Len(q)
  OBVIOUS
<1>2. Len(r) = Len(q) - 1 /\ \A n \in 1..(Len(q) - 1) : r[n] = IF n < p THEN q[n] ELSE q[n + 1]
  BY Removed
<1> HIDE DEF r
<1> DEFINE Old(n) == IF n < p THEN n ELSE n + 1
<1>3. \A n \in 1..Len(r) : Old(n) \in 1..Len(q) /\ Old(n) # p /\ r[n] = q[Old(n)]
  BY <1>1, <1>2
<1>4. \A m, n \in 1..Len(r) : Old(m) = Old(n) => m = n
  BY <1>1, <1>2
<1>5. Distinct(r)
  <2>1. SUFFICES ASSUME NEW m \in 1..Len(r), NEW n \in 1..Len(r), r[m] = r[n] PROVE m = n
    BY DEF Distinct
  <2>2. q[Old(m)] = q[Old(n)] /\ Old(m) \in 1..Len(q) /\ Old(n) \in 1..Len(q)
    BY <1>3, <2>1
  <2>3. Old(m) = Old(n)
    BY <2>2 DEF Distinct
  <2> QED
    BY <1>4, <2>3
<1>6. ASSUME NEW x, Occurs(r, x) PROVE x # q[p] /\ Occurs(q, x)
  <2>1. PICK n \in 1..Len(r) : r[n] = x
    BY <1>6 DEF Occurs
  <2>2. Old(n) \in 1..Len(q) /\ Old(n) # p /\ x = q[Old(n)]
    BY <1>3, <2>1
  <2> HIDE DEF Old
  <2> QED
    BY <2>2 DEF Occurs, Distinct
<1>7. ASSUME NEW x, x # q[p], Occurs(q, x) PROVE Occurs(r, x)
  <2>1. PICK n \in 1..Len(q) : q[n] = x
    BY <1>7 DEF Occurs
  <2>2. n # p
    BY <1>7, <2>1
  <2>3. CASE n < p
    <3>1. n \in 1..(Len(q) - 1) /\ r[n] = q[n]
      BY <1>1, <1>2, <2>3
    <3> QED
      BY <1>2, <2>1, <3>1 DEF Occurs
  <2>4. CASE n > p
    <3>1. n - 1 \in 1..(Len(q) - 1) /\ ~(n - 1 < p) /\ (n - 1) + 1 = n
      BY <1>1, <2>4
    <3>2. r[n - 1] = q[n]
      BY <1>2, <3>1
    <3> QED
      BY <1>2, <2>1, <3>1, <3>2 DEF Occurs
  <2> QED
    BY <1>1, <2>2, <2>3, <2>4
<1> QED
  BY <1>5, <1>6, <1>7 DEF r

LEMMA Appended ==
    ASSUME NEW S, NEW q \in Seq(S), NEW x \in S, Distinct(q), ~Occurs(q, x)
    PROVE  /\ Append(q, x) \in Seq(S) /\ Len(Append(q, x)) = Len(q) + 1
           /\ Distinct(Append(q, x))
           /\ \A y : Occurs(Append(q, x), y) <=> y = x \/ Occurs(q, y)
<1> DEFINE r == Append(q, x)
<1>1. /\ r \in Seq(S) /\ Len(r) = Len(q) + 1 /\ Len(q) \in Nat
      /\ r[Len(q) + 1] = x /\ \A n \in 1..Len(q) : r[n] = q[n]
  OBVIOUS
<1> HIDE DEF r
<1>2. \A n \in 1..Len(r) : n \in 1..Len(q) \/ n = Len(q) + 1
  BY <1>1
<1>3. \A n \in 1..Len(q) : n \in 1..Len(r) /\ q[n] # x
  BY <1>1 DEF Occurs
<1>4. Len(q) + 1 \in 1..Len(r)
  BY <1>1
<1>5. Distinct(r)
  BY <1>1, <1>2, <1>3 DEF Distinct
<1>6. \A y : Occurs(r, y) <=> y = x \/ Occurs(q, y)
  BY <1>1, <1>2, <1>3, <1>4 DEF Occurs
<1> QED
  BY <1>1, <1>5, <1>6 DEF r

\* The order of use when a shard is used.
Used(s) == LET left == PlacesOf(Evicted(s) \cup {s})
           IN Append(IF left = {} THEN recency ELSE RemoveAt(recency, CHOOSE n \in left : TRUE), s)

\* The shard that is used comes last.  One that was unused for longest has made room.
LEMMA UsedLast ==
    ASSUME Types, TrackInv, NEW s \in Shards, NEW order, order = Used(s)
    PROVE  /\ order \in Seq(Shards) /\ Len(order) <= MaxTracked /\ Distinct(order)
           /\ \A x \in Shards : Occurs(order, x) <=> x = s \/ (slots[x] # NoSlot /\ x \notin Evicted(s))
           /\ s \notin Evicted(s) /\ Evicted(s) \subseteq Shards
<1>1. /\ recency \in Seq(Shards) /\ Len(recency) \in Nat /\ Len(recency) <= MaxTracked
      /\ Distinct(recency) /\ MaxTracked \in Nat /\ MaxTracked >= 1
      /\ \A x \in Shards : slots[x] # NoSlot <=> Occurs(recency, x)
  <2>1. recency \in Seq(Shards) /\ Len(recency) \in Nat /\ Len(recency) <= MaxTracked
    BY DEF Types, TrackInv
  <2>2. Distinct(recency) /\ \A x \in Shards : slots[x] # NoSlot <=> Occurs(recency, x)
    BY DEF TrackInv, Distinct, Occurs
  <2> QED
    BY <2>1, <2>2, LookupAssumption
<1>2. CASE slots[s] = NoSlot /\ Len(recency) # MaxTracked
  <2>1. Evicted(s) = {} /\ ~Occurs(recency, s)
    BY <1>1, <1>2 DEF Evicted
  <2>2. PlacesOf(Evicted(s) \cup {s}) = {}
    BY <2>1 DEF PlacesOf, Occurs
  <2>3. order = Append(recency, s)
    BY <2>2 DEF Used
  <2>4. /\ order \in Seq(Shards) /\ Len(order) = Len(recency) + 1 /\ Distinct(order)
        /\ \A x : Occurs(order, x) <=> x = s \/ Occurs(recency, x)
    <3>1. recency \in Seq(Shards) /\ Distinct(recency) /\ ~Occurs(recency, s)
      BY <1>1, <2>1
    <3> QED
      BY <2>3, <3>1, Appended
  <2>5. Len(order) <= MaxTracked
    BY <1>1, <1>2, <2>4
  <2> QED
    BY <1>1, <2>1, <2>4, <2>5
<1>3. ASSUME NEW p \in 1..Len(recency), Evicted(s) \subseteq {recency[p]},
             s = recency[p] \/ (~Occurs(recency, s) /\ Evicted(s) = {recency[p]}),
             s \notin Evicted(s)
      PROVE  /\ order \in Seq(Shards) /\ Len(order) <= MaxTracked /\ Distinct(order)
             /\ \A x \in Shards : Occurs(order, x) <=> x = s \/ (slots[x] # NoSlot /\ x \notin Evicted(s))
             /\ s \notin Evicted(s) /\ Evicted(s) \subseteq Shards
  <2>1. recency[p] \in Shards
    BY <1>1
  <2>2. PlacesOf(Evicted(s) \cup {s}) = {p}
    <3>1. \A n \in 1..Len(recency) : recency[n] \in Evicted(s) \cup {s} <=> n = p
      BY <1>1, <1>3 DEF Distinct, Occurs
    <3> QED
      BY <3>1 DEF PlacesOf
  <2> DEFINE r == RemoveAt(recency, p)
  <2>3. order = Append(r, s)
    BY <2>2 DEF Used
  <2>4. /\ r \in Seq(Shards) /\ Len(r) = Len(recency) - 1 /\ Distinct(r)
        /\ \A x : Occurs(r, x) <=> x # recency[p] /\ Occurs(recency, x)
    BY <1>1, Removed, Without
  <2> HIDE DEF r
  <2>5. ~Occurs(r, s)
    BY <1>3, <2>4
  <2>6. /\ order \in Seq(Shards) /\ Len(order) = Len(r) + 1 /\ Distinct(order)
        /\ \A x : Occurs(order, x) <=> x = s \/ Occurs(r, x)
    <3>1. r \in Seq(Shards) /\ Distinct(r) /\ ~Occurs(r, s)
      BY <2>4, <2>5
    <3> QED
      BY <2>3, <3>1, Appended
  <2>7. \A x \in Shards : Occurs(order, x) <=> x = s \/ (slots[x] # NoSlot /\ x \notin Evicted(s))
    <3>1. \A x \in Shards : Occurs(order, x) <=> x = s \/ (x # recency[p] /\ slots[x] # NoSlot)
      BY <1>1, <2>4, <2>6
    <3> QED
      BY <1>3, <3>1
  <2>8. Len(order) <= MaxTracked
    <3>1. Len(order) = Len(recency)
      BY <1>1, <2>4, <2>6
    <3> QED
      BY <1>1, <3>1
  <2> QED
    BY <1>3, <2>1, <2>6, <2>7, <2>8
<1>4. CASE slots[s] # NoSlot
  <2>1. PICK p \in 1..Len(recency) : recency[p] = s
    BY <1>1, <1>4 DEF Occurs
  <2>2. Evicted(s) = {}
    BY <1>4 DEF Evicted
  <2> QED
    BY <1>3, <2>1, <2>2
<1>5. CASE slots[s] = NoSlot /\ Len(recency) = MaxTracked
  <2>1. 1 \in 1..Len(recency) /\ Evicted(s) = {recency[1]}
    BY <1>1, <1>5 DEF Evicted
  <2>2. ~Occurs(recency, s)
    BY <1>1, <1>5
  <2>3. recency[1] # s
    BY <2>1, <2>2 DEF Occurs
  <2> QED
    BY <1>3, <2>1, <2>2, <2>3
<1> QED
  BY <1>2, <1>4, <1>5

LEMMA MinOfTwo == ASSUME NEW a \in Int, NEW b \in Int PROVE Min({a, b}) \in {a, b}
<1>1. \E x \in {a, b} : \A y \in {a, b} : x <= y
  OBVIOUS
<1> QED
  BY <1>1 DEF Min

\* A file that is asked has a slot, and the last place.  Another shard loses its slot for it.
LEMMA VisitStep == ASSUME IInv, NEW w \in Workers, NEW s \in Shards, Visit(w, s) PROVE IInv'
<1>1. Types /\ WorkerInv(w) /\ SlotInv /\ HoldInv /\ LoaderInv /\ TrackInv
  BY DEF IInv
<1> DEFINE i == IF slots[s] = NoSlot THEN FreeSlot ELSE slots[s]
           visits == Min({slot[i].visits + 1, IndexOnVisit})
           new == [slot EXCEPT ![i].visits = visits]
<1>2. /\ pc[w] = "visit" /\ s \in todo[w]
      /\ slots' = [x \in Shards |-> CASE x = s -> i [] x \in Evicted(s) -> NoSlot [] OTHER -> slots[x]]
      /\ slot' = Kept(new, slots', held') /\ todo' = [todo EXCEPT ![w] = todo[w] \ {s}]
      /\ UNCHANGED <<version, fingerprint, row_count, unchanged, index>>
  BY DEF Visit
<1>3. \/ /\ held' = [held EXCEPT ![w] = i] /\ shard' = [shard EXCEPT ![w] = s]
         /\ pc' = [pc EXCEPT ![w] = "stat"] /\ since' = since
      \/ held' = held /\ shard' = shard /\ pc' = pc /\ Asked(w, {s})
  BY DEF Visit, Goto
<1>4. /\ recency' \in Seq(Shards) /\ Len(recency') <= MaxTracked /\ Distinct(recency')
      /\ \A x \in Shards : Occurs(recency', x) <=> x = s \/ (slots[x] # NoSlot /\ x \notin Evicted(s))
      /\ s \notin Evicted(s) /\ Evicted(s) \subseteq Shards
  <2>1. recency' = Used(s)
    BY DEF Visit, Used
  <2> QED
    BY <1>1, <2>1, UsedLast
<1>5. i \in Slots /\ i # NoSlot /\ \A x \in Shards \ {s} : slots[x] # i
  BY <1>1, FreeSlotIsFree, SlotsType DEF Types, TrackInv
<1>6. (\A x \in Workers : held[x] # i) \/ i = slots[s]
  BY <1>1, FreeSlotIsFree
<1>7. visits \in Nat
  <2>1. slot[i].visits \in Nat
    BY <1>1, <1>5, SlotFields
  <2> HIDE DEF i
  <2>2. slot[i].visits + 1 \in Nat /\ IndexOnVisit \in Nat
    BY <2>1, LookupAssumption
  <2>3. visits \in {slot[i].visits + 1, IndexOnVisit}
    BY <2>2, MinOfTwo
  <2> QED
    BY <2>2, <2>3
<1>8. ASSUME NEW j \in Slots
      PROVE  /\ new[j] \in SlotType /\ new[j].index = slot[j].index /\ new[j].loading = slot[j].loading
             /\ new[j].fingerprint = slot[j].fingerprint
  <2> HIDE DEF i, visits
  <2>1. slot[j] \in SlotType /\ new[j] = IF j = i THEN [slot[i] EXCEPT !.visits = visits] ELSE slot[j]
    BY <1>1, <1>5 DEF Types
  <2> HIDE DEF new
  <2> QED
    BY <1>7, <2>1 DEF SlotType
<1>9. new \in [Slots -> SlotType]
  <2>1. new = [j \in Slots |-> new[j]]
    BY <1>1 DEF Types
  <2> HIDE DEF new
  <2> QED
    BY <1>8, <2>1
<1> HIDE DEF i, visits, new
<1>10. ASSUME NEW x \in Shards
       PROVE  slots'[x] = IF x = s THEN i ELSE IF x \in Evicted(s) THEN NoSlot ELSE slots[x]
  <2>1. CASE x = s
    BY <1>2, <1>4, <2>1
  <2>2. CASE x # s /\ x \in Evicted(s)
    BY <1>2, <2>2
  <2>3. CASE x # s /\ x \notin Evicted(s)
    BY <1>2, <2>3
  <2> QED
    BY <2>1, <2>2, <2>3
<1>11. Types'
  <2>1. slots' \in [Shards -> Slots \cup {NoSlot}]
    <3>1. slots' = [x \in Shards |-> slots'[x]]
      BY <1>2
    <3> QED
      BY <1>1, <1>5, <1>10, <3>1 DEF Types
  <2>2. slot' \in [Slots -> SlotType]
    BY <1>2, <1>9, KeptType
  <2>3. todo' \in [Workers -> SUBSET Shards]
    BY <1>1, <1>2 DEF Types
  <2>4. since' \in [Workers -> [Shards -> SUBSET Nat]]
    BY <1>1, <1>3, AskedType DEF Types
  <2>5. /\ held' \in [Workers -> Slots \cup {NoSlot}] /\ shard' \in [Workers -> Shards]
        /\ pc' \in [Workers -> Steps]
    <3>1. "stat" \in Steps /\ i \in Slots \cup {NoSlot}
      BY <1>5 DEF Steps
    <3>2. CASE /\ held' = [held EXCEPT ![w] = i] /\ shard' = [shard EXCEPT ![w] = s]
               /\ pc' = [pc EXCEPT ![w] = "stat"]
      BY <1>1, <3>1, <3>2 DEF Types
    <3>3. CASE held' = held /\ shard' = shard /\ pc' = pc
      BY <1>1, <3>3 DEF Types
    <3> QED
      BY <1>3, <3>2, <3>3
  <2> QED
    BY <1>1, <1>2, <1>4, <2>1, <2>2, <2>3, <2>4, <2>5 DEF Types
<1>12. OthersKept(w)
  <2>1. \A x \in Workers \ {w} : since'[x] = since[x]
    BY <1>1, <1>3, AskedType
  <2> QED
    BY <1>1, <1>2, <1>3, <2>1 DEF Types, OthersKept
<1>13. held[w] = NoSlot /\ index[w] = NoIndex
  BY <1>1, <1>2 DEF HoldInv, Holding, Loading, WorkerInv
<1>14. /\ todo'[w] = todo[w] \ {s} /\ \A t \in Shards \ {s} : since'[w][t] = since[w][t]
       /\ \/ pc'[w] = "stat" /\ held'[w] = i /\ shard'[w] = s /\ since'[w] = since[w]
          \/ pc'[w] = "visit" /\ held'[w] = NoSlot /\ shard'[w] = shard[w]
  <2>1. todo'[w] = todo[w] \ {s}
    BY <1>1, <1>2 DEF Types
  <2>2. CASE since' = since /\ held' = [held EXCEPT ![w] = i] /\ shard' = [shard EXCEPT ![w] = s]
             /\ pc' = [pc EXCEPT ![w] = "stat"]
    BY <1>1, <2>1, <2>2 DEF Types
  <2>3. CASE held' = held /\ shard' = shard /\ pc' = pc /\ Asked(w, {s})
    BY <1>1, <1>2, <1>13, <2>1, <2>3, AskedType
  <2> QED
    BY <1>3, <2>2, <2>3
<1>15. TrackInv'
  <2>1. \A x \in Shards : slots'[x] # NoSlot <=> Occurs(recency', x)
    BY <1>4, <1>5, <1>10
  <2>2. \A x, t \in Shards : slots'[x] = slots'[t] /\ slots'[x] # NoSlot => x = t
    BY <1>1, <1>5, <1>10 DEF TrackInv
  <2> QED
    BY <1>4, <2>1, <2>2 DEF TrackInv, Distinct, Occurs
<1>16. HoldInv'
  <2>1. SUFFICES ASSUME NEW x \in Workers
                 PROVE  /\ held'[x] # NoSlot <=> pc'[x] \in Holding
                        /\ \A t \in Shards : held'[x] = slots'[t] /\ held'[x] # NoSlot => t = shard'[x]
    BY DEF HoldInv
  <2>2. CASE x = w
    BY <1>5, <1>10, <1>14, <2>2 DEF Holding, Loading
  <2>3. CASE x # w
    <3>1. held'[x] = held[x] /\ pc'[x] = pc[x] /\ shard'[x] = shard[x]
      BY <1>12, <2>3 DEF OthersKept
    <3>2. ASSUME NEW t \in Shards, held[x] = slots'[t], held[x] # NoSlot PROVE held[x] = slots[t]
      BY <1>6, <1>10, <3>2
    <3> QED
      BY <1>1, <3>1, <3>2 DEF HoldInv
  <2> QED
    BY <2>2, <2>3
<1>17. ASSUME NEW j \in Slots
       PROVE  /\ slot'[j] \in {new[j], NewSlot}
              /\ (\E x \in Workers : held'[x] = j) => slot'[j] = new[j]
  BY <1>2, WhatIsKept
<1>18. \A x \in Workers : pc'[x] \in Loading \/ pc[x] \in Loading =>
                             x # w /\ pc[x] \in Loading /\ pc'[x] \in Loading /\ held'[x] = held[x]
                             /\ fingerprint'[x] = fingerprint[x] /\ held[x] \in Slots
  <2>1. pc'[w] \notin Loading /\ pc[w] \notin Loading
    BY <1>2, <1>14 DEF Loading
  <2> QED
    BY <1>1, <1>12, <2>1 DEF OthersKept, HoldInv, Holding, Types
<1>19. SlotInv'
  <2>1. SUFFICES ASSUME NEW j \in Slots
                 PROVE  /\ slot'[j].index # NoIndex => /\ slot'[j].fingerprint # NoVersion
                                                       /\ slot'[j].index.holds = {slot'[j].fingerprint}
                        /\ slot'[j].loading => /\ slot'[j].index = NoIndex
                                               /\ \E x \in Workers : held'[x] = j /\ pc'[x] \in Loading
    BY DEF SlotInv
  <2>2. CASE slot'[j] = NewSlot
    BY <2>2, NoIndexType
  <2>3. CASE slot'[j] = new[j]
    <3>1. /\ slot'[j].index = slot[j].index /\ slot'[j].loading = slot[j].loading
          /\ slot'[j].fingerprint = slot[j].fingerprint
      BY <1>8, <2>3
    <3> QED
      BY <1>1, <1>18, <3>1 DEF SlotInv
  <2> QED
    BY <1>17, <2>2, <2>3
<1>20. LoaderInv'
  <2>1. SUFFICES ASSUME NEW x \in Workers, pc'[x] \in Loading
                 PROVE  /\ slot'[held'[x]].loading /\ slot'[held'[x]].fingerprint = fingerprint'[x]
                        /\ \A y \in Workers : held'[y] = held'[x] /\ pc'[y] \in Loading => y = x
    BY DEF LoaderInv
  <2>2. /\ pc[x] \in Loading /\ held'[x] = held[x] /\ held[x] \in Slots
        /\ fingerprint'[x] = fingerprint[x]
    BY <1>18, <2>1
  <2>3. slot'[held[x]] = new[held[x]]
    BY <1>17, <2>2
  <2>4. slot'[held[x]].loading /\ slot'[held[x]].fingerprint = fingerprint[x]
    BY <1>1, <1>8, <2>2, <2>3 DEF LoaderInv
  <2>5. \A y \in Workers : held'[y] = held[x] /\ pc'[y] \in Loading => y = x
    BY <1>1, <1>18, <2>2 DEF LoaderInv
  <2> QED
    BY <2>2, <2>4, <2>5
<1>21. WorkerInv(w)'
  <2>1. /\ \A t \in todo'[w] : t # s /\ t \in Shards /\ version[t] \in since[w][t]
        /\ version[s] \in since[w][s] /\ s \notin todo'[w]
    BY <1>1, <1>2, <1>14 DEF WorkerInv, Types
  <2> QED
    BY <1>2, <1>13, <1>14, <2>1 DEF WorkerInv, Holding, Loading
<1>22. PrivateInv' /\ BudgetKept'
  <2>1. \A j \in Slots : slot'[j].index \in {slot[j].index, NoIndex, index[w]}
    BY <1>8, <1>17, NoIndexType
  <2>2. index'[w] = index[w] /\ pc'[w] \notin {"read", "reread"}
    BY <1>2, <1>14
  <2> QED
    BY <1>11, <1>12, <2>1, <2>2, IndexesMove
<1> QED
  BY <1>2, <1>11, <1>12, <1>15, <1>16, <1>19, <1>20, <1>21, <1>22, OthersStay DEF IInv

-----------------------------------------------------------------------------
(* Every step *)

\* A file that is rewritten is newer, and the lookups that ask it have seen the new version.
LEMMA RewriteStep == ASSUME IInv, NEW s \in Shards, Rewrite(s) PROVE IInv'
<1>1. Types
  BY DEF IInv
<1>2. /\ version[s] < LastVersion /\ version' = [version EXCEPT ![s] = version[s] + 1]
      /\ since' = [w \in Workers |-> IF since[w][s] = {} THEN since[w]
                                     ELSE [since[w] EXCEPT ![s] = since[w][s] \cup {version'[s]}]]
      /\ UNCHANGED <<slots, recency, slot, pc, todo, shard, held, fingerprint, row_count, unchanged, index>>
  BY DEF Rewrite, cache, locals
<1>3. /\ version' \in [Shards -> 0..LastVersion] /\ version'[s] \in Nat
      /\ \A t \in Shards : version[t] <= version'[t] /\ (t # s => version'[t] = version[t])
      /\ \A t \in Shards : version[t] \in Int /\ version'[t] \in Int
  BY <1>1, <1>2, LookupAssumption DEF Types
<1>4. ASSUME NEW x \in Workers
      PROVE  /\ since'[x] \in [Shards -> SUBSET Nat]
             /\ \A t \in Shards : since[x][t] \subseteq since'[x][t]
             /\ since[x][s] # {} => version'[s] \in since'[x][s]
  BY <1>1, <1>2, <1>3 DEF Types
<1>5. Types'
  <2>1. since' \in [Workers -> [Shards -> SUBSET Nat]]
    <3>1. since' = [x \in Workers |-> since'[x]]
      BY <1>2
    <3> QED
      BY <1>4, <3>1
  <2> QED
    BY <1>1, <1>2, <1>3, <2>1 DEF Types
<1>6. TrackInv' /\ HoldInv' /\ SlotInv' /\ LoaderInv' /\ PrivateInv' /\ BudgetKept'
  <2>1. TrackInv'
    BY <1>2 DEF IInv, TrackInv
  <2>2. HoldInv'
    BY <1>2 DEF IInv, HoldInv
  <2>3. SlotInv'
    BY <1>2 DEF IInv, SlotInv
  <2>4. LoaderInv'
    BY <1>2 DEF IInv, LoaderInv
  <2>5. PrivateInv'
    BY <1>2 DEF IInv, PrivateInv
  <2>6. BudgetKept'
    BY <1>2 DEF IInv, BudgetKept, BytesOf, Live, LiveWithout
  <2> QED
    BY <2>1, <2>2, <2>3, <2>4, <2>5, <2>6
<1>7. ASSUME NEW x \in Workers PROVE WorkerInv(x)'
  <2>1. WorkerInv(x) /\ shard[x] \in Shards /\ todo[x] \subseteq Shards /\ fingerprint[x] \in Int
        /\ index[x].holds \subseteq Nat
    BY <1>1 DEF IInv, Types, Index
  <2>2. \A t \in Shards : version[t] \in since[x][t] => version'[t] \in since'[x][t]
    BY <1>3, <1>4
  <2>3. /\ fingerprint[x] <= version[shard[x]] => fingerprint[x] <= version'[shard[x]]
        /\ \A v \in Nat : v <= version[shard[x]] => v <= version'[shard[x]]
    BY <1>3, <2>1
  <2>4. since[x][shard[x]] \subseteq since'[x][shard[x]]
    BY <1>4, <2>1
  <2> QED
    BY <1>2, <2>1, <2>2, <2>3, <2>4 DEF WorkerInv
<1> QED
  BY <1>5, <1>6, <1>7 DEF IInv

LEMMA InitInv == Init => IInv
<1>1. SUFFICES ASSUME Init PROVE IInv
  OBVIOUS
<1>2. (CHOOSE s \in Shards : TRUE) \in Shards
  BY LookupAssumption
<1>3. Types
  BY <1>1, <1>2, NoIndexType, LookupAssumption DEF Init, Types, Steps, NoVersion
<1>4. TrackInv
  <2>1. Len(recency) = 0 /\ 1..Len(recency) = {}
    BY <1>1 DEF Init
  <2> QED
    BY <1>1, <2>1, LookupAssumption DEF Init, TrackInv
<1>5. HoldInv
  BY <1>1 DEF Init, HoldInv, Holding, Loading
<1>6. SlotInv
  BY <1>1, NoIndexType DEF Init, SlotInv
<1>7. LoaderInv /\ PrivateInv
  BY <1>1 DEF Init, LoaderInv, PrivateInv, Loading
<1>8. \A w \in Workers : WorkerInv(w)
  BY <1>1 DEF Init, WorkerInv, Holding, Loading
<1>9. BudgetKept
  <2>1. \A i \in Slots : slot[i].index = NoIndex
    BY <1>1, NoIndexType DEF Init
  <2>2. \A w \in Workers : index[w] = NoIndex
    BY <1>1 DEF Init
  <2>3. Live = {}
    BY <2>1, <2>2 DEF Live, LiveWithout
  <2>4. BytesOf(Live) = 0
    BY <2>3, FS_EmptySet DEF BytesOf
  <2> QED
    BY <2>4, LookupAssumption DEF BudgetKept
<1> QED
  BY <1>3, <1>4, <1>5, <1>6, <1>7, <1>8, <1>9 DEF IInv

LEMMA NextInv == ASSUME IInv, [Next]_vars PROVE IInv'
<1>1. CASE UNCHANGED vars
  <2>1. /\ UNCHANGED <<version, slots, recency, slot, pc, todo, shard, since>>
        /\ UNCHANGED <<held, fingerprint, row_count, unchanged, index>>
    BY <1>1 DEF vars, locals
  <2>2. Types' /\ TrackInv'
    BY <2>1 DEF IInv, Types, TrackInv
  <2>3. HoldInv' /\ SlotInv' /\ LoaderInv' /\ PrivateInv'
    BY <2>1 DEF IInv, HoldInv, SlotInv, LoaderInv, PrivateInv
  <2>4. BudgetKept'
    BY <2>1 DEF IInv, BudgetKept, BytesOf, Live, LiveWithout
  <2>5. \A w \in Workers : WorkerInv(w)'
    BY <2>1 DEF IInv, WorkerInv
  <2> QED
    BY <2>2, <2>3, <2>4, <2>5 DEF IInv
<1>2. CASE Terminated
  BY <1>1, <1>2 DEF Terminated
<1>3. ASSUME NEW s \in Shards, Rewrite(s) PROVE IInv'
  BY <1>3, RewriteStep
<1>4. ASSUME NEW w \in Workers, NEW s \in Shards, Visit(w, s) PROVE IInv'
  BY <1>4, VisitStep
<1>5. ASSUME NEW w \in Workers, Check(w) PROVE IInv'
  BY <1>5, CheckMissStep, CheckChangedStep, CheckHitStep, CheckLoadStep DEF Check
<1>6. ASSUME NEW w \in Workers, Load(w) PROVE IInv'
  BY <1>6, CountRowsStep, ReserveStep, ReadSomeStep, ReadRestStep, LoadFailsStep DEF Load
<1>7. ASSUME NEW w \in Workers,
             Begin(w) \/ Stat(w) \/ Recheck(w) \/ Publish(w) \/ DropIndex(w) \/ Finish(w) \/ Throw(w)
      PROVE  IInv'
  BY <1>7, BeginStep, StatStep, RecheckStep, PublishStep, DropIndexStep, FinishStep, ThrowStep
<1> QED
  BY <1>1, <1>2, <1>3, <1>4, <1>5, <1>6, <1>7 DEF Next

THEOREM Inductive == Spec => []IInv
<1>1. Init => IInv
  BY InitInv
<1>2. IInv /\ [Next]_vars => IInv'
  BY NextInv
<1> QED
  BY <1>1, <1>2, PTL DEF Spec

-----------------------------------------------------------------------------
(* What follows *)

\* The indexes in memory never exceed IndexBudget's limit: an index that was evicted while a
\* reader holds it counts until that reader lets go (Reserve counts the weak pointers).
THEOREM Budget == Spec => []BudgetKept
<1>1. IInv => BudgetKept
  BY DEF IInv
<1> QED
  BY <1>1, Inductive, PTL

\* What GetIndex publishes was read from one version of the file, and that is the version
\* whose fingerprint the slot has: the fingerprint is read before the rows and after them.
THEOREM PublishedExact == Spec => []PublishedIndexExact
<1>1. IInv => PublishedIndexExact
  <2>1. SUFFICES ASSUME IInv, NEW s \in Shards, slots[s] # NoSlot, slot[slots[s]].index # NoIndex
                 PROVE  slot[slots[s]].index.holds = {slot[slots[s]].fingerprint}
    BY DEF PublishedIndexExact
  <2>2. slots[s] \in Slots
    BY <2>1 DEF IInv, Types
  <2> QED
    BY <2>1, <2>2 DEF IInv, SlotInv
<1> QED
  BY <1>1, Inductive, PTL

\* An index answers a lookup with a version that the file had after the lookup began, although
\* another worker loaded it, maybe long before: GetIndex compares the fingerprints.
THEOREM AnswersWithCurrent == Spec => []AnswersCurrent
<1>1. IInv => AnswersCurrent
  BY DEF IInv, WorkerInv, AnswersCurrent
<1> QED
  BY <1>1, Inductive, PTL

\* Whatever happens to the loader and to its slot, a slot says that it is being loaded
\* exactly while one worker loads it (the guard of GetIndex resets `loading').
THEOREM LoadingHasOneLoader == Spec => []LoadingHasLoader
<1>1. IInv => LoadingHasLoader
  <2>1. SUFFICES ASSUME IInv, NEW i \in Slots
                 PROVE  Cardinality({w \in Workers : held[w] = i /\ pc[w] \in Loading}) =
                        IF slot[i].loading THEN 1 ELSE 0
    BY DEF LoadingHasLoader
  <2> DEFINE loaders == {w \in Workers : held[w] = i /\ pc[w] \in Loading}
  <2>2. CASE slot[i].loading
    <3>1. PICK w \in Workers : held[w] = i /\ pc[w] \in Loading
      BY <2>1, <2>2 DEF IInv, SlotInv
    <3>2. loaders = {w}
      BY <2>1, <3>1 DEF IInv, LoaderInv
    <3> QED
      BY <2>2, <3>2, FS_Singleton
  <2>3. CASE ~slot[i].loading
    <3>1. loaders = {}
      BY <2>1, <2>3 DEF IInv, LoaderInv
    <3> QED
      BY <2>3, <3>1, FS_EmptySet
  <2> QED
    BY <2>2, <2>3
<1> QED
  BY <1>1, Inductive, PTL

=============================================================================
