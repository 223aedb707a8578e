------------------------- MODULE VideoTargetsProofs -------------------------
(***************************************************************************)
(* What lerobot_video_targets and lerobot_temporal_targets answer, for any *)
(* chunks, deltas, limits and number of threads: every row once, with its  *)
(* own route and the frame nearest to its time, by a decoder of its video  *)
(* file.  Before that, what LerobotDecoderCache promises to any users, for *)
(* any number of slots, threads and video files; the threads are shown to  *)
(* be such users.                                                          *)
(***************************************************************************)
EXTENDS VideoTargets, FiniteSetTheorems, SequenceTheorems, WellFoundedInduction, TLAPS

-----------------------------------------------------------------------------
(* LerobotDecoderCache, for any users *)

UserSteps == {"idle", "acquire", "wait", "evicting", "opening", "using", "closing", "dropped"}

\* A user that is past "idle" works on a video file.
CacheTypes ==
    /\ open_count \in Nat /\ idle_lru \in Seq(Shards) /\ idle_decoders \in [Shards -> Nat]
    /\ user \in [Users -> [pc : UserSteps, shard : Shards \cup {CHOOSE s \in Shards : TRUE}]]
    /\ \A u \in Users : user[u].pc # "idle" => user[u].shard \in Shards

CacheInv == CacheTypes /\ SlotsAccounted /\ WaitsForOthers

-----------------------------------------------------------------------------
(* How often a shard is listed *)

Places(q, s) == {i \in DOMAIN q : q[i] = s}

LEMMA PlacesFinite ==
    ASSUME NEW S, NEW q \in Seq(S), NEW s
    PROVE  IsFiniteSet(Places(q, s)) /\ Cardinality(Places(q, s)) \in Nat
<1>1. IsFiniteSet(1..Len(q))
  BY FS_Interval
<1>2. Places(q, s) \subseteq 1..Len(q)
  BY DEF Places
<1> QED
  BY <1>1, <1>2, FS_Subset, FS_CardinalityType

\* A bijection between the places of an old and a new list.
LEMMA SamePlaces ==
    ASSUME NEW A, NEW B, IsFiniteSet(A), NEW f, f \in [A -> B],
           \A x, y \in A : f[x] = f[y] => x = y,
           \A z \in B : \E x \in A : f[x] = z
    PROVE  Cardinality(B) = Cardinality(A)
<1>1. f \in Injection(A, B)
  BY DEF Injection, IsInjective
<1>2. f \in Surjection(A, B)
  BY DEF Surjection
<1> QED
  BY <1>1, <1>2, FS_Surjection

LEMMA Pushed ==
    ASSUME NEW S, NEW q \in Seq(S), NEW x \in S
    PROVE  /\ <<x>> \o q \in Seq(S) /\ Len(<<x>> \o q) = Len(q) + 1
           /\ \A s : Cardinality(Places(<<x>> \o q, s)) =
                        Cardinality(Places(q, s)) + (IF s = x THEN 1 ELSE 0)
<1> DEFINE r == <<x>> \o q
<1>1. <<x>> \in Seq(S) /\ Len(<<x>>) = 1 /\ <<x>>[1] = x /\ Len(q) \in Nat
  OBVIOUS
<1>2. r \in Seq(S) /\ Len(r) = 1 + Len(q) /\ DOMAIN r = 1..(Len(q) + 1) /\ DOMAIN q = 1..Len(q)
  BY <1>1, ConcatProperties
<1>3. \A i \in 1..(1 + Len(q)) : r[i] = IF i <= 1 THEN x ELSE q[i - 1]
  BY <1>1, ConcatProperties
<1> HIDE DEF r
<1>4. ASSUME NEW s PROVE Cardinality(Places(r, s)) = Cardinality(Places(q, s)) + (IF s = x THEN 1 ELSE 0)
  <2> DEFINE A == Places(q, s)
             B == {i \in Places(r, s) : i # 1}
             f == [i \in A |-> i + 1]
  <2>1. IsFiniteSet(A) /\ Cardinality(A) \in Nat
    BY PlacesFinite
  <2>2. ASSUME NEW i \in A PROVE i + 1 \in B /\ i \in Int
    BY <1>1, <1>2, <1>3 DEF Places
  <2>3. ASSUME NEW j \in B PROVE j - 1 \in A /\ (j - 1) + 1 = j
    BY <1>1, <1>2, <1>3 DEF Places
  <2>4. f \in [A -> B] /\ \A i \in A : f[i] = i + 1
    BY <2>2
  <2>5. \A i, j \in A : f[i] = f[j] => i = j
    BY <2>2, <2>4
  <2>6. \A j \in B : \E i \in A : f[i] = j
    BY <2>3, <2>4
  <2>7. Cardinality(B) = Cardinality(A)
    <3> HIDE DEF f, A, B
    <3> QED
      BY <2>1, <2>4, <2>5, <2>6, SamePlaces
  <2>8. IsFiniteSet(Places(r, s))
    BY <1>2, PlacesFinite
  <2>9. IsFiniteSet(B)
    BY <2>8, FS_Subset
  <2>10. CASE s = x
    <3>1. 1 \in Places(r, s) /\ Places(r, s) = B \cup {1} /\ 1 \notin B
      BY <1>1, <1>2, <1>3, <2>10 DEF Places
    <3>2. Cardinality(B \cup {1}) = Cardinality(B) + 1
      BY <2>9, <3>1, FS_AddElement
    <3> QED
      BY <2>7, <2>10, <3>1, <3>2
  <2>11. CASE s # x
    <3>1. 1 \notin Places(r, s)
      BY <1>1, <1>2, <1>3, <2>11 DEF Places
    <3>2. Places(r, s) = B
      BY <3>1
    <3>3. Cardinality(Places(r, s)) = Cardinality(B) /\ Cardinality(B) \in Nat
      BY <2>1, <2>7, <3>2
    <3> QED
      BY <2>7, <2>11, <3>3
  <2> QED
    BY <2>10, <2>11
<1> QED
  BY <1>2, <1>4 DEF r

LEMMA RemovedFrom ==
    ASSUME NEW S, NEW q \in Seq(S), NEW p \in 1..Len(q)
    PROVE  /\ RemovedAt(q, p) \in Seq(S) /\ Len(RemovedAt(q, p)) = Len(q) - 1
           /\ \A n \in 1..(Len(q) - 1) : RemovedAt(q, p)[n] = IF n < p THEN q[n] ELSE q[n + 1]
<1> DEFINE a == SubSeq(q, 1, p - 1)
           b == SubSeq(q, p + 1, Len(q))
<1>1. Len(q) \in Nat /\ p \in Nat /\ 1 <= p /\ p <= Len(q)
  OBVIOUS
<1>2. a \in Seq(S) /\ Len(a) = p - 1 /\ \A n \in 1..(p - 1) : a[n] = q[n]
  BY <1>1
<1>3. b \in Seq(S) /\ Len(b) = Len(q) - p /\ \A n \in 1..(Len(q) - p) : b[n] = q[n + p]
  BY <1>1
<1> HIDE DEF a, b
<1>4. /\ a \o b \in Seq(S) /\ Len(a \o b) = Len(q) - 1
      /\ \A n \in 1..(Len(q) - 1) : (a \o b)[n] = IF n <= Len(a) THEN a[n] ELSE b[n - Len(a)]
  <2>1. a \o b \in Seq(S) /\ Len(a \o b) = Len(a) + Len(b)
    BY <1>2, <1>3, ConcatProperties
  <2>2. \A n \in 1..Len(a) + Len(b) : (a \o b)[n] = IF n <= Len(a) THEN a[n] ELSE b[n - Len(a)]
    BY <1>2, <1>3, ConcatProperties
  <2>3. Len(a) + Len(b) = Len(q) - 1
    BY <1>1, <1>2, <1>3
  <2> QED
    BY <2>1, <2>2, <2>3
<1>5. ASSUME NEW n \in 1..(Len(q) - 1) PROVE (a \o b)[n] = IF n < p THEN q[n] ELSE q[n + 1]
  <2>1. CASE n < p
    BY <1>1, <1>2, <1>4, <2>1
  <2>2. CASE ~(n < p)
    <3>1. n - Len(a) \in 1..(Len(q) - p) /\ (n - Len(a)) + p = n + 1
      BY <1>1, <1>2, <2>2
    <3>2. b[n - Len(a)] = q[(n - Len(a)) + p]
      BY <1>3, <3>1
    <3>3. (a \o b)[n] = b[n - Len(a)]
      BY <1>1, <1>2, <1>4, <2>2
    <3> QED
      BY <2>2, <3>1, <3>2, <3>3
  <2> QED
    BY <2>1, <2>2
<1> QED
  BY <1>4, <1>5 DEF RemovedAt, a, b

LEMMA Removed ==
    ASSUME NEW S, NEW q \in Seq(S), NEW p \in 1..Len(q)
    PROVE  \A s : Cardinality(Places(RemovedAt(q, p), s)) =
                     Cardinality(Places(q, s)) - (IF s = q[p] THEN 1 ELSE 0)
<1> DEFINE r == RemovedAt(q, p)
<1>1. Len(q) \in Nat /\ p \in Nat /\ 1 <= p /\ p <= Len(q) /\ DOMAIN q = 1..Len(q)
  OBVIOUS
<1>2. /\ r \in Seq(S) /\ Len(r) = Len(q) - 1 /\ DOMAIN r = 1..(Len(q) - 1)
      /\ \A n \in 1..(Len(q) - 1) : r[n] = IF n < p THEN q[n] ELSE q[n + 1]
  BY RemovedFrom
<1> HIDE DEF r
<1>3. ASSUME NEW s PROVE Cardinality(Places(r, s)) = Cardinality(Places(q, s)) - (IF s = q[p] THEN 1 ELSE 0)
  <2> DEFINE A == Places(r, s)
             B == Places(q, s) \ {p}
             Old(n) == IF n < p THEN n ELSE n + 1
             f == [n \in A |-> Old(n)]
  <2>1. IsFiniteSet(A)
    BY <1>2, PlacesFinite
  <2>2. ASSUME NEW n \in A PROVE Old(n) \in B /\ n \in Int
    BY <1>1, <1>2 DEF Places
  <2>3. ASSUME NEW m \in B PROVE \E n \in A : Old(n) = m
    <3>1. m \in 1..Len(q) /\ m # p /\ q[m] = s
      BY <1>1 DEF Places
    <3>2. CASE m < p
      <4>1. m \in A /\ Old(m) = m
        BY <1>1, <1>2, <3>1, <3>2 DEF Places
      <4> QED
        BY <4>1
    <3>3. CASE m > p
      <4>1. m - 1 \in 1..(Len(q) - 1) /\ ~(m - 1 < p) /\ (m - 1) + 1 = m
        BY <1>1, <3>1, <3>3
      <4>2. m - 1 \in A
        BY <1>2, <3>1, <4>1 DEF Places
      <4> QED
        BY <4>1, <4>2
    <3> QED
      BY <1>1, <3>1, <3>2, <3>3
  <2>4. f \in [A -> B] /\ \A n \in A : f[n] = Old(n)
    BY <2>2
  <2>5. \A m, n \in A : f[m] = f[n] => m = n
    BY <1>1, <2>2, <2>4
  <2>6. \A m \in B : \E n \in A : f[n] = m
    BY <2>3, <2>4
  <2>7. Cardinality(B) = Cardinality(A)
    <3> HIDE DEF f, A, B
    <3> QED
      BY <2>1, <2>4, <2>5, <2>6, SamePlaces
  <2>8. IsFiniteSet(Places(q, s)) /\ Cardinality(Places(q, s)) \in Nat
    BY PlacesFinite
  <2>9. Cardinality(B) = IF p \in Places(q, s) THEN Cardinality(Places(q, s)) - 1 ELSE Cardinality(Places(q, s))
    BY <2>8, FS_RemoveElement
  <2>10. p \in Places(q, s) <=> s = q[p]
    BY <1>1 DEF Places
  <2> QED
    BY <2>7, <2>8, <2>9, <2>10
<1> QED
  BY <1>3 DEF r

-----------------------------------------------------------------------------
(* Who uses a slot *)

UsesSlot == {"evicting", "opening", "using", "dropped"}

LEMMA InUseFinite ==
    ASSUME CacheTypes
    PROVE  /\ InUse = {u \in Users : user[u].pc \in UsesSlot}
           /\ IsFiniteSet(InUse) /\ Cardinality(InUse) \in Nat
<1>1. InUse = {u \in Users : user[u].pc \in UsesSlot}
  BY DEF InUse, At, UsesSlot
<1>2. IsFiniteSet(InUse)
  BY <1>1, UsersAssumption, FS_Subset
<1> QED
  BY <1>1, <1>2, FS_CardinalityType

LEMMA SlotsMove ==
    ASSUME CacheTypes, CacheTypes', NEW u \in Users, NEW pc, user'[u].pc = pc,
           \A v \in Users \ {u} : user'[v].pc = user[v].pc \/ (user[v].pc = "wait" /\ user'[v].pc = "acquire")
    PROVE  Cardinality(InUse)' = Cardinality(InUse)
              + (IF pc \in UsesSlot THEN 1 ELSE 0) - (IF user[u].pc \in UsesSlot THEN 1 ELSE 0)
<1>1. /\ InUse = {v \in Users : user[v].pc \in UsesSlot}
      /\ IsFiniteSet(InUse) /\ Cardinality(InUse) \in Nat
  BY InUseFinite
<1>2. InUse' = {v \in Users : user'[v].pc \in UsesSlot}
  BY DEF InUse, At, UsesSlot
<1>3. \A v \in Users \ {u} : v \in InUse' <=> v \in InUse
  BY <1>1, <1>2 DEF UsesSlot
<1>4. u \in InUse' <=> pc \in UsesSlot
  BY <1>2
<1>5. u \in InUse <=> user[u].pc \in UsesSlot
  BY <1>1
<1>6. Cardinality(InUse)' = Cardinality(InUse')
  OBVIOUS
<1>7. CASE pc \in UsesSlot
  <2>1. InUse' = InUse \cup {u}
    BY <1>1, <1>2, <1>3, <1>4, <1>7
  <2>2. Cardinality(InUse \cup {u}) = IF u \in InUse THEN Cardinality(InUse) ELSE Cardinality(InUse) + 1
    BY <1>1, FS_AddElement
  <2> QED
    BY <1>1, <1>5, <1>6, <1>7, <2>1, <2>2
<1>8. CASE pc \notin UsesSlot
  <2>1. InUse' = InUse \ {u}
    BY <1>1, <1>2, <1>3, <1>4, <1>8
  <2>2. Cardinality(InUse \ {u}) = IF u \in InUse THEN Cardinality(InUse) - 1 ELSE Cardinality(InUse)
    BY <1>1, FS_RemoveElement
  <2> QED
    BY <1>1, <1>5, <1>6, <1>8, <2>1, <2>2
<1> QED
  BY <1>7, <1>8

-----------------------------------------------------------------------------
(* The steps of a user *)

UserType == [pc : UserSteps, shard : Shards \cup {CHOOSE s \in Shards : TRUE}]

LEMMA Gone ==
    ASSUME CacheTypes, NEW u \in Users, NEW pc \in UserSteps, pc = "idle" \/ user[u].pc # "idle"
    PROVE  /\ Goto(u, pc) \in [Users -> UserType] /\ Goto(u, pc)[u].pc = pc
           /\ \A v \in Users : Goto(u, pc)[v].shard = user[v].shard
           /\ \A v \in Users \ {u} : Goto(u, pc)[v] = user[v]
           /\ \A v \in Users : Goto(u, pc)[v].pc # "idle" => Goto(u, pc)[v].shard \in Shards
BY DEF CacheTypes, Goto, UserType

LEMMA Woken ==
    ASSUME CacheTypes, NEW u \in Users, NEW pc \in UserSteps \ {"wait"}, pc = "idle" \/ user[u].pc # "idle"
    PROVE  /\ Notified(Goto(u, pc)) \in [Users -> UserType] /\ Notified(Goto(u, pc))[u].pc = pc
           /\ \A v \in Users : /\ Notified(Goto(u, pc))[v].shard = user[v].shard
                               /\ Notified(Goto(u, pc))[v].pc # "wait"
                               /\ Notified(Goto(u, pc))[v].pc # "idle" =>
                                     Notified(Goto(u, pc))[v].shard \in Shards
           /\ \A v \in Users \ {u} : \/ Notified(Goto(u, pc))[v].pc = user[v].pc
                                     \/ user[v].pc = "wait" /\ Notified(Goto(u, pc))[v].pc = "acquire"
<1> DEFINE g == Goto(u, pc)
<1>1. /\ g \in [Users -> UserType] /\ g[u].pc = pc
      /\ \A v \in Users : g[v].shard = user[v].shard /\ (g[v].pc # "idle" => g[v].shard \in Shards)
      /\ \A v \in Users \ {u} : g[v] = user[v]
  BY Gone
<1> HIDE DEF g
<1>2. ASSUME NEW v \in Users
      PROVE  /\ Notified(g)[v] = IF g[v].pc = "wait" THEN [g[v] EXCEPT !.pc = "acquire"] ELSE g[v]
             /\ Notified(g)[v] \in UserType /\ Notified(g)[v].shard = g[v].shard
             /\ Notified(g)[v].pc = IF g[v].pc = "wait" THEN "acquire" ELSE g[v].pc
  <2>1. g[v] \in UserType
    BY <1>1
  <2>2. Notified(g)[v] = IF g[v].pc = "wait" THEN [g[v] EXCEPT !.pc = "acquire"] ELSE g[v]
    BY DEF Notified
  <2> QED
    BY <2>1, <2>2 DEF UserType, UserSteps
<1>3. Notified(g) \in [Users -> UserType]
  BY <1>2 DEF Notified
<1> QED
  BY <1>1, <1>2, <1>3 DEF g

\* A step that neither lists a decoder nor frees a slot.
LEMMA QuietStep ==
    ASSUME CacheInv, CacheTypes', NEW u \in Users, NEW pc, user'[u].pc = pc,
           UNCHANGED <<open_count, idle_lru, idle_decoders>>,
           \A v \in Users \ {u} : user'[v].pc = user[v].pc,
           pc \in UsesSlot <=> user[u].pc \in UsesSlot,
           pc = "wait" => open_count >= MaxCachedDecoders /\ idle_lru = <<>>
    PROVE  CacheInv'
<1>1. CacheTypes /\ SlotsAccounted /\ WaitsForOthers
  BY DEF CacheInv
<1>2. Cardinality(InUse)' = Cardinality(InUse) /\ Cardinality(InUse) \in Nat
  BY <1>1, SlotsMove, InUseFinite
<1>3. SlotsAccounted'
  BY <1>1, <1>2 DEF SlotsAccounted
<1>4. WaitsForOthers'
  <2>1. CASE pc = "wait"
    <3>1. Len(idle_lru) = 0 /\ open_count = Cardinality(InUse) /\ open_count = MaxCachedDecoders
      BY <1>1, <1>2, <2>1, CacheAssumption DEF SlotsAccounted, CacheTypes
    <3> QED
      BY <1>2, <2>1, <3>1 DEF WaitsForOthers
  <2>2. CASE pc # "wait"
    <3>1. At("wait")' \subseteq At("wait")
      BY <2>2 DEF At
    <3> QED
      BY <1>1, <1>2, <3>1 DEF WaitsForOthers
  <2> QED
    BY <2>1, <2>2
<1> QED
  BY <1>3, <1>4 DEF CacheInv

LEMMA StartAcquireStep ==
    ASSUME CacheInv, NEW u \in Users, NEW s \in Shards, StartAcquire(u, s) PROVE CacheInv'
<1>1. CacheTypes
  BY DEF CacheInv
<1>2. /\ user[u].pc = "idle" /\ user' = [user EXCEPT ![u] = [pc |-> "acquire", shard |-> s]]
      /\ UNCHANGED <<open_count, idle_lru, idle_decoders>>
  BY DEF StartAcquire
<1>3. CacheTypes' /\ user'[u].pc = "acquire" /\ \A v \in Users \ {u} : user'[v] = user[v]
  BY <1>1, <1>2 DEF CacheTypes, UserSteps
<1> QED
  BY <1>2, <1>3, QuietStep DEF UsesSlot

LEMMA WaitStep == ASSUME CacheInv, NEW u \in Users, Wait(u) PROVE CacheInv'
<1>1. CacheTypes
  BY DEF CacheInv
<1>2. /\ user[u].pc = "acquire" /\ open_count >= MaxCachedDecoders /\ idle_lru = <<>>
      /\ user' = Goto(u, "wait") /\ UNCHANGED <<open_count, idle_lru, idle_decoders>>
  BY DEF Wait
<1>3. "wait" \in UserSteps
  BY DEF UserSteps
<1>4. CacheTypes' /\ user'[u].pc = "wait" /\ \A v \in Users \ {u} : user'[v] = user[v]
  BY <1>1, <1>2, <1>3, Gone DEF CacheTypes, UserType
<1> QED
  BY <1>2, <1>4, QuietStep DEF UsesSlot

\* Files are opened and closed while nothing of the cache changes.
LEMMA FileStep ==
    ASSUME CacheInv, NEW u \in Users,
           CloseEvicted(u) \/ OpenSucceeds(u) \/ CloseDiscarded(u) \/ Drop(u)
    PROVE  CacheInv'
<1>1. CacheTypes
  BY DEF CacheInv
<1>2. PICK pc \in UserSteps :
           /\ user' = Goto(u, pc) /\ UNCHANGED <<open_count, idle_lru, idle_decoders>>
           /\ user[u].pc # "idle" /\ pc # "wait" /\ (pc \in UsesSlot <=> user[u].pc \in UsesSlot)
  <2>1. {"opening", "using", "idle", "dropped"} \subseteq UserSteps
    BY DEF UserSteps
  <2> QED
    BY <2>1 DEF CloseEvicted, OpenSucceeds, CloseDiscarded, Drop, UsesSlot
<1>3. CacheTypes' /\ user'[u].pc = pc /\ \A v \in Users \ {u} : user'[v] = user[v]
  BY <1>1, <1>2, Gone DEF CacheTypes, UserType
<1> QED
  BY <1>2, <1>3, QuietStep

\* A decoder that is reused leaves the list, and its slot stays in use.
LEMMA ReuseStep == ASSUME CacheInv, NEW u \in Users, Reuse(u) PROVE CacheInv'
<1>1. CacheTypes /\ SlotsAccounted /\ WaitsForOthers
  BY DEF CacheInv
<1> DEFINE s == user[u].shard
<1>2. /\ user[u].pc = "acquire" /\ idle_decoders[s] > 0 /\ open_count' = open_count
      /\ idle_decoders' = [idle_decoders EXCEPT ![s] = @ - 1] /\ user' = Goto(u, "using")
  BY DEF Reuse
<1>3. PICK i \in 1..Len(idle_lru) : idle_lru[i] = s /\ idle_lru' = RemovedAt(idle_lru, i)
  BY <1>1 DEF Reuse, CacheTypes
<1>4. s \in Shards /\ "using" \in UserSteps /\ Len(idle_lru) \in Nat /\ Len(idle_lru) # 0
  BY <1>1, <1>2, <1>3 DEF CacheTypes, UserSteps
<1>5. /\ idle_lru' \in Seq(Shards) /\ Len(idle_lru') = Len(idle_lru) - 1
      /\ \A t : Cardinality(Places(idle_lru', t)) = Cardinality(Places(idle_lru, t)) - (IF t = s THEN 1 ELSE 0)
  BY <1>1, <1>3, RemovedFrom, Removed DEF CacheTypes
<1>6. /\ user' \in [Users -> UserType] /\ user'[u].pc = "using"
      /\ \A v \in Users \ {u} : user'[v] = user[v]
      /\ \A v \in Users : user'[v].pc # "idle" => user'[v].shard \in Shards
  BY <1>1, <1>2, <1>4, Gone
<1>7. CacheTypes'
  <2>1. idle_decoders[s] - 1 \in Nat
    BY <1>1, <1>2, <1>4 DEF CacheTypes
  <2> QED
    BY <1>1, <1>2, <1>4, <1>5, <1>6, <2>1 DEF CacheTypes, UserType
<1>8. Cardinality(InUse)' = Cardinality(InUse) + 1 /\ Cardinality(InUse) \in Nat
  BY <1>1, <1>2, <1>6, <1>7, SlotsMove, InUseFinite DEF UsesSlot
<1>9. SlotsAccounted'
  <2>1. \A t \in Shards : idle_decoders'[t] = Cardinality(Places(idle_lru, t)) - (IF t = s THEN 1 ELSE 0)
    BY <1>1, <1>2, <1>4, PlacesFinite DEF CacheTypes, SlotsAccounted, Places
  <2>2. \A t \in Shards : idle_decoders'[t] = Cardinality(Places(idle_lru', t))
    BY <1>5, <2>1
  <2> QED
    BY <1>1, <1>2, <1>4, <1>5, <1>8, <2>2 DEF SlotsAccounted, Places, CacheTypes
<1>10. WaitsForOthers'
  <2>1. At("wait") = {}
    BY <1>1, <1>4 DEF WaitsForOthers
  <2>2. At("wait")' = {}
    BY <1>6, <2>1 DEF At
  <2> QED
    BY <2>2 DEF WaitsForOthers
<1> QED
  BY <1>7, <1>9, <1>10 DEF CacheInv

LEMMA TakeSlotStep == ASSUME CacheInv, NEW u \in Users, TakeSlot(u) PROVE CacheInv'
<1>1. CacheTypes /\ SlotsAccounted /\ WaitsForOthers
  BY DEF CacheInv
<1>2. /\ user[u].pc = "acquire" /\ open_count < MaxCachedDecoders /\ open_count' = open_count + 1
      /\ user' = Goto(u, "opening") /\ UNCHANGED <<idle_lru, idle_decoders>>
  BY DEF TakeSlot
<1>3. "opening" \in UserSteps
  BY DEF UserSteps
<1>4. /\ user' \in [Users -> UserType] /\ user'[u].pc = "opening"
      /\ \A v \in Users \ {u} : user'[v] = user[v]
      /\ \A v \in Users : user'[v].pc # "idle" => user'[v].shard \in Shards
  BY <1>1, <1>2, <1>3, Gone
<1>5. CacheTypes'
  BY <1>1, <1>2, <1>4 DEF CacheTypes, UserType
<1>6. Cardinality(InUse)' = Cardinality(InUse) + 1 /\ Cardinality(InUse) \in Nat
  BY <1>1, <1>2, <1>4, <1>5, SlotsMove, InUseFinite DEF UsesSlot
<1>7. SlotsAccounted'
  <2>1. open_count' = Len(idle_lru') + Cardinality(InUse)' /\ open_count' <= MaxCachedDecoders
    BY <1>1, <1>2, <1>6, CacheAssumption DEF SlotsAccounted, CacheTypes
  <2> QED
    BY <1>1, <1>2, <2>1 DEF SlotsAccounted
<1>8. WaitsForOthers'
  <2>1. At("wait") = {}
    <3>1. SUFFICES ASSUME At("wait") # {} PROVE FALSE
      OBVIOUS
    <3>2. idle_lru = <<>> /\ Cardinality(InUse) = MaxCachedDecoders
      BY <1>1, <3>1 DEF WaitsForOthers
    <3>3. open_count = Cardinality(InUse)
      BY <1>1, <1>6, <3>2 DEF SlotsAccounted
    <3> QED
      BY <1>2, <3>2, <3>3, CacheAssumption
  <2>2. At("wait")' = {}
    BY <1>4, <2>1 DEF At
  <2> QED
    BY <2>2 DEF WaitsForOthers
<1> QED
  BY <1>5, <1>7, <1>8 DEF CacheInv

\* The slot of the evicted decoder passes to the new one.
LEMMA EvictStep == ASSUME CacheInv, NEW u \in Users, Evict(u) PROVE CacheInv'
<1>1. CacheTypes /\ SlotsAccounted /\ WaitsForOthers
  BY DEF CacheInv
<1> DEFINE p == Len(idle_lru)
           s == idle_lru[p]
<1>2. /\ user[u].pc = "acquire" /\ idle_lru # <<>> /\ open_count' = open_count
      /\ idle_lru' = RemovedAt(idle_lru, p) /\ user' = Goto(u, "evicting")
      /\ idle_decoders' = [idle_decoders EXCEPT ![s] = @ - 1]
  BY DEF Evict
<1>3. p \in 1..Len(idle_lru) /\ s \in Shards /\ "evicting" \in UserSteps /\ p \in Nat
  BY <1>1, <1>2 DEF CacheTypes, UserSteps
<1>4. /\ idle_lru' \in Seq(Shards) /\ Len(idle_lru') = p - 1
      /\ \A t : Cardinality(Places(idle_lru', t)) = Cardinality(Places(idle_lru, t)) - (IF t = s THEN 1 ELSE 0)
  <2>1. idle_lru \in Seq(Shards)
    BY <1>1 DEF CacheTypes
  <2>2. /\ RemovedAt(idle_lru, p) \in Seq(Shards) /\ Len(RemovedAt(idle_lru, p)) = p - 1
        /\ \A t : Cardinality(Places(RemovedAt(idle_lru, p), t)) =
                   Cardinality(Places(idle_lru, t)) - (IF t = s THEN 1 ELSE 0)
    BY <1>3, <2>1, RemovedFrom, Removed
  <2> QED
    BY <1>2, <2>2
<1>5. /\ user' \in [Users -> UserType] /\ user'[u].pc = "evicting"
      /\ \A v \in Users \ {u} : user'[v] = user[v]
      /\ \A v \in Users : user'[v].pc # "idle" => user'[v].shard \in Shards
  BY <1>1, <1>2, <1>3, Gone
<1>6. \A t \in Shards : Cardinality(Places(idle_lru', t)) \in Nat
  BY <1>4, PlacesFinite
<1>7. \A t \in Shards : idle_decoders'[t] = Cardinality(Places(idle_lru', t))
  <2>1. \A t \in Shards : idle_decoders'[t] = Cardinality(Places(idle_lru, t)) - (IF t = s THEN 1 ELSE 0)
    <3>1. \A t \in Shards : idle_decoders[t] = Cardinality(Places(idle_lru, t)) /\ idle_decoders[t] \in Nat
      BY <1>1 DEF CacheTypes, SlotsAccounted, Places
    <3> HIDE DEF s
    <3>2. \A t \in Shards : idle_decoders'[t] = IF t = s THEN idle_decoders[t] - 1 ELSE idle_decoders[t]
      BY <1>1, <1>2, <1>3 DEF CacheTypes
    <3> QED
      BY <3>1, <3>2
  <2> QED
    BY <1>4, <2>1
<1>8. CacheTypes'
  <2>1. idle_decoders' = [t \in Shards |-> idle_decoders'[t]]
    BY <1>1, <1>2 DEF CacheTypes
  <2>2. idle_decoders' \in [Shards -> Nat]
    BY <1>6, <1>7, <2>1
  <2> QED
    BY <1>1, <1>2, <1>4, <1>5, <2>2 DEF CacheTypes, UserType
<1>9. Cardinality(InUse)' = Cardinality(InUse) + 1 /\ Cardinality(InUse) \in Nat
  BY <1>1, <1>2, <1>5, <1>8, SlotsMove, InUseFinite DEF UsesSlot
<1>10. SlotsAccounted'
  <2>1. open_count' = Len(idle_lru') + Cardinality(InUse)' /\ open_count' <= MaxCachedDecoders
    BY <1>1, <1>2, <1>3, <1>4, <1>9, CacheAssumption DEF SlotsAccounted, CacheTypes
  <2> QED
    BY <1>7, <2>1 DEF SlotsAccounted, Places
<1>11. WaitsForOthers'
  <2>1. At("wait") = {}
    BY <1>1, <1>2 DEF WaitsForOthers
  <2>2. At("wait")' = {}
    BY <1>5, <2>1 DEF At
  <2> QED
    BY <2>2 DEF WaitsForOthers
<1> QED
  BY <1>8, <1>10, <1>11 DEF CacheInv

\* A slot that is freed is free for those that wait: they all look again.
LEMMA FreedStep == ASSUME CacheInv, NEW u \in Users, OpenFails(u) \/ Discard(u) PROVE CacheInv'
<1>1. CacheTypes /\ SlotsAccounted /\ WaitsForOthers
  BY DEF CacheInv
<1>2. PICK pc \in {"idle", "closing"} :
           /\ user[u].pc \in {"opening", "using"} /\ open_count' = open_count - 1
           /\ user' = Notified(Goto(u, pc)) /\ UNCHANGED <<idle_lru, idle_decoders>>
  BY DEF OpenFails, Discard
<1>3. pc \in UserSteps \ {"wait"}
  BY DEF UserSteps
<1>4. /\ user' \in [Users -> UserType] /\ user'[u].pc = pc
      /\ \A v \in Users : user'[v].pc # "wait" /\ (user'[v].pc # "idle" => user'[v].shard \in Shards)
      /\ \A v \in Users \ {u} : user'[v].pc = user[v].pc \/ (user[v].pc = "wait" /\ user'[v].pc = "acquire")
  BY <1>1, <1>2, <1>3, Woken
<1>5. open_count' \in Nat
  <2>1. Cardinality(InUse) \in Nat /\ Cardinality(InUse) # 0
    BY <1>1, <1>2, InUseFinite, FS_EmptySet DEF UsesSlot
  <2> QED
    BY <1>1, <1>2, <2>1 DEF CacheTypes, SlotsAccounted
<1>6. CacheTypes'
  BY <1>1, <1>2, <1>4, <1>5 DEF CacheTypes, UserType
<1>7. Cardinality(InUse)' = Cardinality(InUse) - 1 /\ Cardinality(InUse) \in Nat
  BY <1>1, <1>2, <1>4, <1>6, SlotsMove, InUseFinite DEF UsesSlot
<1>8. SlotsAccounted'
  <2>1. open_count' = Len(idle_lru') + Cardinality(InUse)' /\ open_count' <= MaxCachedDecoders
    <3>1. /\ open_count = Len(idle_lru) + Cardinality(InUse) /\ open_count <= MaxCachedDecoders
          /\ Len(idle_lru) \in Nat /\ open_count \in Nat /\ MaxCachedDecoders \in Nat
      BY <1>1, CacheAssumption DEF SlotsAccounted, CacheTypes
    <3>2. Len(idle_lru') = Len(idle_lru) /\ open_count' = open_count - 1
      BY <1>2
    <3> QED
      BY <1>7, <3>1, <3>2
  <2> QED
    BY <1>1, <1>2, <2>1 DEF SlotsAccounted
<1>9. WaitsForOthers'
  BY <1>4 DEF WaitsForOthers, At
<1> QED
  BY <1>6, <1>8, <1>9 DEF CacheInv

\* A decoder that is given back is idle for those that wait: they all look again.
LEMMA ReleaseStep == ASSUME CacheInv, NEW u \in Users, Release(u) PROVE CacheInv'
<1>1. CacheTypes /\ SlotsAccounted /\ WaitsForOthers
  BY DEF CacheInv
<1> DEFINE s == user[u].shard
<1>2. /\ user[u].pc = "using" /\ open_count' = open_count /\ idle_lru' = <<s>> \o idle_lru
      /\ idle_decoders' = [idle_decoders EXCEPT ![s] = @ + 1] /\ user' = Notified(Goto(u, "idle"))
  BY DEF Release
<1>3. s \in Shards /\ "idle" \in UserSteps \ {"wait"} /\ Len(idle_lru) \in Nat
  BY <1>1, <1>2 DEF CacheTypes, UserSteps
<1>4. /\ idle_lru' \in Seq(Shards) /\ Len(idle_lru') = Len(idle_lru) + 1
      /\ \A t : Cardinality(Places(idle_lru', t)) = Cardinality(Places(idle_lru, t)) + (IF t = s THEN 1 ELSE 0)
  BY <1>1, <1>2, <1>3, Pushed DEF CacheTypes
<1>5. /\ user' \in [Users -> UserType] /\ user'[u].pc = "idle"
      /\ \A v \in Users : user'[v].pc # "wait" /\ (user'[v].pc # "idle" => user'[v].shard \in Shards)
      /\ \A v \in Users \ {u} : user'[v].pc = user[v].pc \/ (user[v].pc = "wait" /\ user'[v].pc = "acquire")
  BY <1>1, <1>2, <1>3, Woken
<1>6. CacheTypes'
  <2>1. idle_decoders' \in [Shards -> Nat]
    BY <1>1, <1>2, <1>3 DEF CacheTypes
  <2> QED
    BY <1>1, <1>2, <1>4, <1>5, <2>1 DEF CacheTypes, UserType
<1>7. Cardinality(InUse)' = Cardinality(InUse) - 1 /\ Cardinality(InUse) \in Nat
  <2>1. "idle" \notin UsesSlot /\ "using" \in UsesSlot
    BY DEF UsesSlot
  <2>2. /\ Cardinality(InUse) \in Nat
        /\ Cardinality(InUse)' = Cardinality(InUse) + (IF "idle" \in UsesSlot THEN 1 ELSE 0)
                                    - (IF user[u].pc \in UsesSlot THEN 1 ELSE 0)
    BY <1>1, <1>5, <1>6, SlotsMove, InUseFinite
  <2> QED
    BY <1>2, <2>1, <2>2
<1>8. SlotsAccounted'
  <2>0. \A t \in Shards : idle_decoders[t] = Cardinality(Places(idle_lru, t)) /\ idle_decoders[t] \in Nat
    BY <1>1 DEF CacheTypes, SlotsAccounted, Places
  <2>1. \A t \in Shards : idle_decoders'[t] = Cardinality(Places(idle_lru, t)) + (IF t = s THEN 1 ELSE 0)
    <3>1. idle_decoders \in [Shards -> Nat]
      BY <1>1 DEF CacheTypes
    <3> HIDE DEF s
    <3> QED
      BY <1>2, <2>0, <3>1
  <2>2. \A t \in Shards : idle_decoders'[t] = Cardinality(Places(idle_lru', t))
    BY <1>4, <2>1
  <2> QED
    <3>1. open_count' = Len(idle_lru') + Cardinality(InUse)' /\ open_count' <= MaxCachedDecoders
      BY <1>1, <1>2, <1>3, <1>4, <1>7, CacheAssumption DEF SlotsAccounted, CacheTypes
    <3> QED
      BY <2>2, <3>1 DEF SlotsAccounted, Places
<1>9. WaitsForOthers'
  BY <1>5 DEF WaitsForOthers, At
<1> QED
  BY <1>6, <1>8, <1>9 DEF CacheInv

-----------------------------------------------------------------------------
(* Every step *)

LEMMA CacheInitInv == CacheInit => CacheInv
<1>1. SUFFICES ASSUME CacheInit PROVE CacheInv
  OBVIOUS
<1>2. CacheTypes
  BY <1>1 DEF CacheInit, CacheTypes, UserSteps
<1>3. InUse = {} /\ At("wait") = {}
  BY <1>1 DEF CacheInit, InUse, At
<1>4. SlotsAccounted
  <2>1. Cardinality({}) = 0 /\ \A s \in Shards : {i \in DOMAIN idle_lru : idle_lru[i] = s} = {}
    BY <1>1, FS_EmptySet DEF CacheInit
  <2> QED
    BY <1>1, <1>3, <2>1, CacheAssumption DEF CacheInit, SlotsAccounted
<1> QED
  BY <1>2, <1>3, <1>4 DEF CacheInv, WaitsForOthers

LEMMA CacheNextInv == ASSUME CacheInv, [CacheNext]_cacheVars PROVE CacheInv'
<1>1. CASE UNCHANGED cacheVars
  BY <1>1 DEF cacheVars, CacheInv, CacheTypes, SlotsAccounted, WaitsForOthers, InUse, At
<1>2. ASSUME NEW u \in Users, Acquire(u) PROVE CacheInv'
  BY <1>2, ReuseStep, TakeSlotStep, EvictStep, WaitStep, FileStep DEF Acquire
<1>3. ASSUME NEW u \in Users,
             OpenFails(u) \/ Release(u) \/ Discard(u) \/ CloseDiscarded(u) \/ Drop(u)
      PROVE  CacheInv'
  BY <1>3, FreedStep, ReleaseStep, FileStep
<1>4. ASSUME NEW u \in Users, NEW s \in Shards, StartAcquire(u, s) PROVE CacheInv'
  BY <1>4, StartAcquireStep
<1> QED
  BY <1>1, <1>2, <1>3, <1>4 DEF CacheNext

THEOREM CacheInductive == CacheSpec => []CacheInv
<1>1. CacheInit => CacheInv
  BY CacheInitInv
<1>2. CacheInv /\ [CacheNext]_cacheVars => CacheInv'
  BY CacheNextInv
<1> QED
  BY <1>1, <1>2, PTL DEF CacheSpec

\* The limit on open decoders holds, no slot is lost but by a dropped user, and the two
\* structures of the idle decoders agree: Acquire never reuses or evicts what is not there.
THEOREM Accounted == CacheSpec => []SlotsAccounted
<1>1. CacheInv => SlotsAccounted
  BY DEF CacheInv
<1> QED
  BY <1>1, CacheInductive, PTL

\* Who waits on the condition variable has every slot against it: no wakeup is lost.
THEOREM WaitsRightly == CacheSpec => []WaitsForOthers
<1>1. CacheInv => WaitsForOthers
  BY DEF CacheInv
<1> QED
  BY <1>1, CacheInductive, PTL

\* With no more threads than slots nobody waits (MaxThreads of the operators).
NobodyWaits == At("wait") = {}

THEOREM EnoughSlots ==
    ASSUME Cardinality(Users) <= MaxCachedDecoders
    PROVE  CacheSpec => []NobodyWaits
<1>1. CacheInv => NobodyWaits
  <2>1. SUFFICES ASSUME CacheInv, NEW u \in At("wait") PROVE FALSE
    BY DEF NobodyWaits
  <2>2. Cardinality(InUse) = MaxCachedDecoders
    BY <2>1 DEF CacheInv, WaitsForOthers
  <2>3. u \in Users /\ InUse \subseteq Users \ {u}
    BY <2>1 DEF InUse, At
  <2>4. IsFiniteSet(Users \ {u}) /\ Cardinality(Users \ {u}) = Cardinality(Users) - 1
    BY <2>3, UsersAssumption, FS_RemoveElement
  <2>5. Cardinality(InUse) <= Cardinality(Users) - 1
    BY <2>3, <2>4, FS_Subset
  <2>6. Cardinality(Users) \in Nat
    BY UsersAssumption, FS_CardinalityType
  <2> QED
    BY <2>2, <2>5, <2>6, CacheAssumption
<1> QED
  BY <1>1, CacheInductive, PTL

-----------------------------------------------------------------------------
(* Numbers *)

\* A power of two is the number of subsets.
LEMMA Doubling == ASSUME NEW n \in Nat PROVE 2 ^ n \in Nat /\ 2 ^ n >= 1 /\ 2 ^ (n + 1) = 2 * 2 ^ n
<1> DEFINE A == SUBSET (1..n)
           B == {s \cup {n + 1} : s \in A}
<1>1. /\ IsFiniteSet(1..n) /\ Cardinality(1..n) = n
      /\ IsFiniteSet(1..(n + 1)) /\ Cardinality(1..(n + 1)) = n + 1
  BY FS_Interval
<1>2. IsFiniteSet(A) /\ Cardinality(A) = 2 ^ n /\ Cardinality(SUBSET (1..(n + 1))) = 2 ^ (n + 1)
  BY <1>1, FS_SUBSET
<1>3. SUBSET (1..(n + 1)) = A \cup B
  <2>1. ASSUME NEW s \in SUBSET (1..(n + 1)) PROVE s \in A \cup B
    <3>1. CASE n + 1 \in s
      <4>1. s \ {n + 1} \in A /\ s = (s \ {n + 1}) \cup {n + 1}
        BY <3>1
      <4> QED
        BY <4>1
    <3>2. CASE n + 1 \notin s
      BY <3>2
    <3> QED
      BY <3>1, <3>2
  <2>2. ASSUME NEW s \in A \cup B PROVE s \in SUBSET (1..(n + 1))
    <3>1. 1..n \subseteq 1..(n + 1) /\ n + 1 \in 1..(n + 1)
      OBVIOUS
    <3> QED
      BY <3>1
  <2> QED
    BY <2>1, <2>2
<1>4. A \cap B = {}
  BY n + 1 \notin 1..n
<1>5. IsFiniteSet(B) /\ Cardinality(B) = Cardinality(A)
  <2> DEFINE f == [s \in A |-> s \cup {n + 1}]
  <2>1. f \in [A -> B] /\ \A s \in A : f[s] = s \cup {n + 1}
    OBVIOUS
  <2>2. \A t \in B : \E s \in A : f[s] = t
    OBVIOUS
  <2>3. \A s, t \in A : f[s] = f[t] => s = t
    <3>1. SUFFICES ASSUME NEW s \in A, NEW t \in A, s \cup {n + 1} = t \cup {n + 1} PROVE s = t
      OBVIOUS
    <3>2. n + 1 \notin s /\ n + 1 \notin t
      OBVIOUS
    <3> QED
      BY <3>1, <3>2
  <2> HIDE DEF f, A, B
  <2>4. f \in Surjection(A, B)
    BY <2>1, <2>2 DEF Surjection
  <2> QED
    BY <1>2, <2>1, <2>2, <2>3, <2>4, SamePlaces, FS_Surjection
<1>6. Cardinality(A \cup B) = Cardinality(A) + Cardinality(B)
  <2>1. Cardinality(A \cap B) = 0
    BY <1>4, FS_EmptySet
  <2>2. Cardinality(A \cup B) = Cardinality(A) + Cardinality(B) - Cardinality(A \cap B)
    BY <1>2, <1>5, FS_Union
  <2>3. Cardinality(A) \in Nat
    BY <1>2, FS_CardinalityType
  <2> QED
    BY <1>5, <2>1, <2>2, <2>3
<1>7. Cardinality(A) \in Nat /\ Cardinality(A) # 0
  <2>1. {} \in A
    OBVIOUS
  <2> QED
    BY <1>2, <2>1, FS_CardinalityType, FS_EmptySet
<1>8. Cardinality(A) >= 1 /\ 2 ^ (n + 1) = Cardinality(A) + Cardinality(A)
  <2> HIDE DEF A, B
  <2>1. 2 ^ (n + 1) = Cardinality(A \cup B)
    BY <1>2, <1>3, Zenon
  <2> QED
    BY <1>5, <1>6, <1>7, <2>1
<1> HIDE DEF A, B
<1>9. \A c : Cardinality(A) = c => c \in Nat /\ c >= 1 /\ 2 ^ (n + 1) = 2 * c
  BY <1>7, <1>8
<1> QED
  BY <1>2, <1>9, Zenon

High == 2 ^ (Width - 1)

LEMMA Widths == High \in Nat /\ High >= 1 /\ 2 ^ Width = 2 * High
<1>1. Width - 1 \in Nat /\ (Width - 1) + 1 = Width
  BY WidthAssumption
<1> QED
  BY <1>1, Doubling DEF High

\* Numbers that fit are what they are.
LEMMA Fitting == ASSUME NEW x \in Int, -High <= x, x < High PROVE Wrap(x) = x
<1>1. High \in Nat /\ 2 ^ Width = 2 * High /\ High >= 1
  BY Widths
<1>2. Wrap(x) = ((x + High) % (2 * High)) - High
  BY <1>1 DEF Wrap, High
<1>3. (x + High) % (2 * High) = x + High
  <2>1. x + High \in 0..(2 * High - 1)
    BY <1>1
  <2> QED
    BY <1>1, <2>1
<1> QED
  BY <1>1, <1>2, <1>3

LEMMA Division ==
    ASSUME NEW d \in Int, NEW b \in Nat \ {0}
    PROVE  /\ d \div b \in Int /\ d % b \in 0..(b - 1)
           /\ d = (d \div b) * b + (d % b)
OBVIOUS

LEMMA Products == ASSUME NEW x \in Int, NEW y \in Int, NEW b \in Nat, x <= y PROVE x * b <= y * b
OBVIOUS

\* A delta that is accepted names a frame that no other is nearer to.
Nearest(delta, tolerance, offset) ==
    LET distance == IF offset * Scale < delta THEN delta - offset * Scale ELSE offset * Scale - delta
    IN /\ 2 * distance < Scale \/ (2 * distance = Scale /\ offset % 2 = 0)
       /\ distance <= tolerance

LEMMA Rounded ==
    ASSUME NEW delta \in Int, NEW tolerance \in Nat, DeltaAccepted(delta, tolerance),
           RoundHalfToEven(delta) < High
    PROVE  /\ RoundHalfToEven(delta) \in Int /\ -High <= RoundHalfToEven(delta)
           /\ Nearest(delta, tolerance, RoundHalfToEven(delta))
<1> DEFINE lower == delta \div Scale
           fraction == delta % Scale
           o == RoundHalfToEven(delta)
<1>1. Scale \in Nat /\ Scale > 0 /\ High \in Nat
  BY WidthAssumption, Widths
<1>2. lower \in Int /\ fraction \in 0..(Scale - 1) /\ delta = lower * Scale + fraction
  BY <1>1, Division
<1>3. o = IF 2 * fraction < Scale \/ (2 * fraction = Scale /\ lower % 2 = 0) THEN lower ELSE lower + 1
  BY DEF RoundHalfToEven
<1>4. /\ delta >= -(High * Scale)
      /\ (IF delta < o * Scale THEN o * Scale - delta ELSE delta - o * Scale) <= tolerance
  BY DEF DeltaAccepted, Error, High
<1> HIDE DEF lower, fraction, o
<1>5. o \in Int /\ lower <= o
  BY <1>2, <1>3
<1>6. -High <= lower
  <2>1. SUFFICES ASSUME lower <= -High - 1 PROVE FALSE
    BY <1>1, <1>2
  <2>2. lower * Scale <= (-High - 1) * Scale
    BY <1>1, <1>2, <2>1, Products
  <2>3. (-High - 1) * Scale = -(High * Scale) - Scale
    BY <1>1
  <2>4. lower * Scale \in Int /\ High * Scale \in Int
    BY <1>1, <1>2
  <2> QED
    BY <1>1, <1>2, <1>4, <2>2, <2>3, <2>4
<1>7. (lower + 1) * Scale = lower * Scale + Scale /\ lower * Scale \in Int
  BY <1>1, <1>2
<1>8. Nearest(delta, tolerance, o)
  <2>1. CASE o = lower
    <3>1. 2 * fraction < Scale \/ (2 * fraction = Scale /\ lower % 2 = 0)
      BY <1>2, <1>3, <2>1
    <3>2. delta - o * Scale = fraction /\ ~(delta < o * Scale) /\ (o * Scale < delta \/ fraction = 0)
      BY <1>1, <1>2, <1>7, <2>1
    <3> QED
      BY <1>1, <1>2, <1>4, <1>7, <2>1, <3>1, <3>2 DEF Nearest
  <2>2. CASE o = lower + 1 /\ o # lower
    <3>1. 2 * fraction > Scale \/ (2 * fraction = Scale /\ lower % 2 # 0)
      BY <1>1, <1>2, <1>3, <2>2
    <3>2. o * Scale - delta = Scale - fraction /\ ~(o * Scale < delta) /\ delta < o * Scale
      BY <1>1, <1>2, <1>7, <2>2
    <3>3. lower % 2 # 0 => (lower + 1) % 2 = 0
      BY <1>2
    <3> QED
      BY <1>1, <1>2, <1>4, <1>7, <2>2, <3>1, <3>2, <3>3 DEF Nearest
  <2> QED
    BY <1>3, <2>1, <2>2
<1> QED
  BY <1>1, <1>2, <1>5, <1>6, <1>8 DEF o

\* What FramesInEpisode says of one row.
FrameRight(b, row, frame, padding) ==
    \E offset \in -High..(High - 1) :
       LET sum == row.frame + offset
           inside == sum \in 0..(row.length - 1)
       IN /\ Nearest(b.deltas[row.delta_index], b.tolerance, offset)
          /\ padding = ~inside
          /\ frame = IF inside THEN sum ELSE IF sum < 0 THEN 0 ELSE row.length - 1

LEMMA FrameTyped ==
    ASSUME NEW b, NEW row \in InputRow, NEW frame, NEW padding, FrameRight(b, row, frame, padding)
    PROVE  frame \in Int /\ padding \in BOOLEAN
<1>1. High \in Nat /\ row.frame \in Int /\ row.length \in Int
  BY Widths DEF InputRow
<1>2. PICK offset \in -High..(High - 1) :
          /\ padding = ~(row.frame + offset \in 0..(row.length - 1))
          /\ frame = IF row.frame + offset \in 0..(row.length - 1) THEN row.frame + offset
                     ELSE IF row.frame + offset < 0 THEN 0 ELSE row.length - 1
  BY DEF FrameRight
<1>3. frame \in Int
  BY <1>1, <1>2
<1>4. padding \in BOOLEAN
  BY <1>2
<1> QED
  BY <1>3, <1>4

Accepted(b) == \A i \in DOMAIN b.deltas : DeltaAccepted(b.deltas[i], b.tolerance)

\* lerobot_video_targets and lerobot_temporal_targets have the clamp twice: it is the same.
LEMMA SameClamp ==
    ASSUME NEW row PROVE Clamp(row) = TemporalTarget(row.frame, Offset(row), row.length)
BY DEF Clamp, TemporalTarget

\* No sum of the clamp overflows.
LEMMA Clamped ==
    ASSUME bind \in Binds, Accepted(bind), NEW row \in InputRow, RowValid(row)
    PROVE  FrameRight(bind, row, Clamp(row).frame, Clamp(row).padding)
<1> DEFINE delta == bind.deltas[row.delta_index]
           o == Offset(row)
           last == row.length - 1
<1>1. /\ row.delta_index \in DOMAIN bind.deltas /\ row.frame < row.length
      /\ row.frame \in 0..(High - 1) /\ row.length \in 0..(High - 1)
  BY DEF RowValid, InputRow, High
<1>2. delta \in Int /\ bind.tolerance \in Nat /\ DeltaAccepted(delta, bind.tolerance)
  BY <1>1, InputAssumption DEF Accepted
<1>3. RoundHalfToEven(delta) < High
  <2>1. delta < High * Scale
    BY <1>2 DEF DeltaAccepted, High
  <2> QED
    BY <1>1, <2>1, InputAssumption DEF Accepted, High
<1>4. o \in Int /\ -High <= o /\ o < High /\ Nearest(delta, bind.tolerance, o)
  BY <1>2, <1>3, Rounded DEF Offset
<1>5. High \in Nat /\ High >= 1
  BY Widths
<1> HIDE DEF o, delta
<1>6. Wrap(-row.frame) = -row.frame /\ Wrap(last - row.frame) = last - row.frame
  BY <1>1, <1>5, Fitting
<1>7. ~(o < -row.frame) /\ ~(o > last - row.frame) => Wrap(row.frame + o) = row.frame + o
  BY <1>1, <1>4, <1>5, Fitting
<1>8. Clamp(row) = IF o < -row.frame THEN [frame |-> 0, padding |-> TRUE]
                   ELSE IF o > last - row.frame THEN [frame |-> last, padding |-> TRUE]
                   ELSE [frame |-> Wrap(row.frame + o), padding |-> FALSE]
  BY <1>6 DEF Clamp, o
<1>9. o \in -High..(High - 1)
  BY <1>4, <1>5
<1>10. CASE o < -row.frame
  <2>1. Clamp(row).frame = 0 /\ Clamp(row).padding = TRUE
    BY <1>8, <1>10
  <2>2. row.frame + o < 0 /\ row.frame + o \notin 0..last
    BY <1>1, <1>4, <1>10
  <2> QED
    BY <1>4, <1>9, <2>1, <2>2 DEF FrameRight, delta
<1>11. CASE ~(o < -row.frame) /\ o > last - row.frame
  <2>1. Clamp(row).frame = last /\ Clamp(row).padding = TRUE
    BY <1>8, <1>11
  <2>2. ~(row.frame + o < 0) /\ row.frame + o \notin 0..last
    BY <1>1, <1>4, <1>11
  <2> QED
    BY <1>4, <1>9, <2>1, <2>2 DEF FrameRight, delta
<1>12. CASE ~(o < -row.frame) /\ ~(o > last - row.frame)
  <2>1. Clamp(row).frame = row.frame + o /\ Clamp(row).padding = FALSE
    BY <1>7, <1>8, <1>12
  <2>2. row.frame + o \in 0..last
    BY <1>1, <1>4, <1>12
  <2> QED
    BY <1>4, <1>9, <2>1, <2>2 DEF FrameRight, delta
<1> QED
  BY <1>10, <1>11, <1>12

-----------------------------------------------------------------------------
(* Sequences *)

LEMMA NatLeast == ASSUME NEW T, T \subseteq Nat, T # {} PROVE \E x \in T : \A y \in T : x <= y
<1> DEFINE R == OpToRel(<, Nat)
<1>1. IsWellFoundedOn(R, Nat)
  BY NatLessThanWellFounded
<1>2. \A x, y \in Nat : x < y => <<x, y>> \in R
  <2> SUFFICES ASSUME NEW x \in Nat, NEW y \in Nat, x < y PROVE <<x, y>> \in R
    OBVIOUS
  <2>1. <<x, y>> \in Nat \X Nat /\ <<x, y>>[1] < <<x, y>>[2]
    OBVIOUS
  <2> QED
    BY <2>1 DEF OpToRel
<1> HIDE DEF R
<1>3. PICK x \in T : \A y \in T : ~(<<y, x>> \in R)
  BY <1>1, WFMin
<1>4. \A y \in T : x <= y
  <2>1. SUFFICES ASSUME NEW y \in T, ~(x <= y) PROVE FALSE
    OBVIOUS
  <2>2. x \in Nat /\ y \in Nat /\ y < x
    BY <2>1
  <2> QED
    BY <1>2, <1>3, <2>2
<1> QED
  BY <1>4

\* Induction, for the set of the numbers that have a property.
LEMMA NatInd ==
    ASSUME NEW T, 0 \in T, \A n \in Nat : n \in T => n + 1 \in T PROVE Nat \subseteq T
<1>1. SUFFICES ASSUME Nat \ T # {} PROVE FALSE
  OBVIOUS
<1>2. PICK x \in Nat \ T : \A y \in Nat \ T : x <= y
  BY <1>1, NatLeast
<1>3. x # 0 /\ x - 1 \in Nat
  BY <1>2
<1>4. x - 1 \in T /\ x = (x - 1) + 1
  BY <1>2, <1>3
<1> QED
  BY <1>2, <1>3, <1>4

Distinct(q) == \A m, n \in 1..Len(q) : q[m] = q[n] => m = n
Occurs(q, x) == \E n \in 1..Len(q) : q[n] = x

LEMMA Joined ==
    ASSUME NEW X, NEW a \in Seq(X), NEW b \in Seq(X), Distinct(a), Distinct(b),
           \A x : ~(Occurs(a, x) /\ Occurs(b, x))
    PROVE  /\ a \o b \in Seq(X) /\ Distinct(a \o b)
           /\ \A x : Occurs(a \o b, x) <=> Occurs(a, x) \/ Occurs(b, x)
<1> DEFINE q == a \o b
<1>1. /\ q \in Seq(X) /\ Len(q) = Len(a) + Len(b) /\ Len(a) \in Nat /\ Len(b) \in Nat
      /\ \A i \in 1..Len(a) + Len(b) : q[i] = IF i <= Len(a) THEN a[i] ELSE b[i - Len(a)]
  BY ConcatProperties
<1> HIDE DEF q
<1>2. ASSUME NEW i \in 1..Len(q)
      PROVE  \/ i \in 1..Len(a) /\ q[i] = a[i]
             \/ i - Len(a) \in 1..Len(b) /\ q[i] = b[i - Len(a)]
  <2>1. CASE i <= Len(a)
    BY <1>1, <2>1
  <2>2. CASE i > Len(a)
    <3>1. i - Len(a) \in 1..Len(b)
      BY <1>1, <2>2
    <3> QED
      BY <1>1, <2>2, <3>1
  <2> QED
    BY <1>1, <2>1, <2>2
<1>3. \A i \in 1..Len(a) : i \in 1..Len(q) /\ q[i] = a[i]
  BY <1>1
<1>4. ASSUME NEW i \in 1..Len(b) PROVE i + Len(a) \in 1..Len(q) /\ q[i + Len(a)] = b[i]
  <2>1. i + Len(a) \in 1..Len(a) + Len(b) /\ ~(i + Len(a) <= Len(a)) /\ (i + Len(a)) - Len(a) = i
    BY <1>1
  <2> QED
    BY <1>1, <2>1
<1>5. \A x : Occurs(q, x) <=> Occurs(a, x) \/ Occurs(b, x)
  BY <1>2, <1>3, <1>4 DEF Occurs
<1>6. Distinct(q)
  <2>1. SUFFICES ASSUME NEW i \in 1..Len(q), NEW j \in 1..Len(q), q[i] = q[j] PROVE i = j
    BY DEF Distinct
  <2>2. CASE i \in 1..Len(a) /\ q[i] = a[i] /\ j \in 1..Len(a) /\ q[j] = a[j]
    BY <2>1, <2>2 DEF Distinct
  <2>3. CASE /\ i - Len(a) \in 1..Len(b) /\ q[i] = b[i - Len(a)]
             /\ j - Len(a) \in 1..Len(b) /\ q[j] = b[j - Len(a)]
    <3>1. i - Len(a) = j - Len(a)
      BY <2>1, <2>3 DEF Distinct
    <3> QED
      BY <1>1, <3>1
  <2>4. ~(Occurs(a, q[i]) /\ Occurs(b, q[i]))
    OBVIOUS
  <2> QED
    BY <1>2, <2>1, <2>2, <2>3, <2>4 DEF Occurs
<1> QED
  BY <1>1, <1>5, <1>6 DEF q

\* FlattenSeq is a recursive function: it exists, for sequences of any length.
LEMMA FlattenDef ==
    ASSUME NEW X, NEW seqs \in Seq(Seq(X)), Len(seqs) # 0
    PROVE  \E f : /\ FlattenSeq(seqs) = f[Len(seqs)]
                  /\ \A i \in 1..Len(seqs) : f[i] = IF i = 1 THEN seqs[i] ELSE f[i - 1] \o seqs[i]
<1> DEFINE N == Len(seqs)
           Step1(f, i) == IF i = 1 THEN seqs[i] ELSE f[i - 1] \o seqs[i]
           T == {m \in Nat : \E f : f = [i \in 1..m |-> Step1(f, i)]}
           flatten == CHOOSE f : f = [i \in 1..N |-> Step1(f, i)]
<1>1. FlattenSeq(seqs) = flatten[N]
  BY DEF FlattenSeq
<1>2. 0 \in T
  <2> DEFINE f == [i \in {} |-> 0]
  <2>1. f = [i \in 1..0 |-> Step1(f, i)]
    OBVIOUS
  <2> HIDE DEF f
  <2> QED
    BY <2>1
<1>3. ASSUME NEW m \in Nat, m \in T PROVE m + 1 \in T
  <2>1. PICK f : f = [i \in 1..m |-> Step1(f, i)]
    BY <1>3
  <2> DEFINE g == [i \in 1..(m + 1) |-> IF i = m + 1 THEN Step1(f, i) ELSE f[i]]
  <2>2. ASSUME NEW i \in 1..(m + 1) PROVE g[i] = Step1(g, i)
    <3>1. CASE i = 1
      BY <2>1, <3>1
    <3>2. CASE i # 1
      <4>1. i - 1 \in 1..m /\ i - 1 \in 1..(m + 1) /\ i - 1 # m + 1
        BY <3>2
      <4>2. g[i - 1] = f[i - 1]
        BY <4>1
      <4>3. g[i] = Step1(f, i)
        <5>1. CASE i = m + 1
          BY <5>1
        <5>2. CASE i # m + 1
          <6>1. i \in 1..m /\ g[i] = f[i]
            BY <5>2
          <6> QED
            BY <2>1, <6>1
        <5> QED
          BY <5>1, <5>2
      <4> QED
        BY <3>2, <4>2, <4>3
    <3> QED
      BY <3>1, <3>2
  <2>3. g = [i \in 1..(m + 1) |-> Step1(g, i)]
    <3>1. g = [i \in 1..(m + 1) |-> g[i]]
      OBVIOUS
    <3> HIDE DEF g, Step1
    <3> QED
      BY <2>2, <3>1
  <2> HIDE DEF g, Step1
  <2> QED
    BY <2>3
<1>4. N \in T
  <2>1. N \in Nat
    OBVIOUS
  <2> HIDE DEF T
  <2> QED
    BY <1>2, <1>3, <2>1, NatInd
<1>5. flatten = [i \in 1..N |-> Step1(flatten, i)]
  <2>1. \E f : f = [i \in 1..N |-> Step1(f, i)]
    BY <1>4
  <2> HIDE DEF Step1, N
  <2> QED
    BY <2>1
<1>6. \A i \in 1..N : flatten[i] = Step1(flatten, i)
  <2> HIDE DEF Step1, flatten
  <2> QED
    BY <1>5
<1> HIDE DEF flatten
<1> QED
  BY <1>1, <1>6

LEMMA Flattened ==
    ASSUME NEW X, NEW seqs \in Seq(Seq(X)), \A k \in 1..Len(seqs) : Distinct(seqs[k]),
           \A k, m \in 1..Len(seqs) : \A x : Occurs(seqs[k], x) /\ Occurs(seqs[m], x) => k = m
    PROVE  /\ FlattenSeq(seqs) \in Seq(X) /\ Distinct(FlattenSeq(seqs))
           /\ \A x : Occurs(FlattenSeq(seqs), x) <=> \E k \in 1..Len(seqs) : Occurs(seqs[k], x)
<1> DEFINE N == Len(seqs)
           Good(q, m) == /\ q \in Seq(X) /\ Distinct(q)
                         /\ \A x : Occurs(q, x) <=> \E k \in 1..m : Occurs(seqs[k], x)
<1>1. N \in Nat /\ \A k \in 1..N : seqs[k] \in Seq(X)
  OBVIOUS
<1>2. CASE N = 0
  <2>1. FlattenSeq(seqs) = << >> /\ << >> \in Seq(X) /\ Len(<< >>) = 0
    BY <1>2 DEF FlattenSeq
  <2> QED
    BY <1>2, <2>1 DEF Distinct, Occurs
<1>3. CASE N # 0
  <2>1. PICK f : /\ FlattenSeq(seqs) = f[N]
                 /\ \A i \in 1..N : f[i] = IF i = 1 THEN seqs[i] ELSE f[i - 1] \o seqs[i]
    BY <1>3, FlattenDef
  <2> DEFINE T == {m \in Nat : m \in 1..N => Good(f[m], m)}
  <2>2. 0 \in T
    OBVIOUS
  <2>3. ASSUME NEW m \in Nat, m \in T, m + 1 \in 1..N PROVE Good(f[m + 1], m + 1)
    <3>1. CASE m = 0
      <4>1. f[1] = seqs[1] /\ 1 \in 1..N
        BY <1>1, <1>3, <2>1
      <4>2. \A k \in 1..1 : k = 1
        OBVIOUS
      <4>3. Good(f[1], 1)
        BY <1>1, <4>1, <4>2
      <4> QED
        BY <3>1, <4>3
    <3>2. CASE m # 0
      <4>1. m \in 1..N /\ (m + 1) - 1 = m /\ m + 1 # 1 /\ m + 1 \in 1..N
        BY <1>1, <2>3, <3>2
      <4>2. Good(f[m], m) /\ f[m + 1] = f[m] \o seqs[m + 1]
        BY <2>1, <2>3, <4>1
      <4>3. \A x : ~(Occurs(f[m], x) /\ Occurs(seqs[m + 1], x))
        <5>1. SUFFICES ASSUME NEW x, Occurs(f[m], x), Occurs(seqs[m + 1], x) PROVE FALSE
          OBVIOUS
        <5>2. PICK k \in 1..m : Occurs(seqs[k], x)
          BY <4>2, <5>1
        <5>3. k \in 1..N /\ k # m + 1
          BY <4>1, <1>1
        <5> QED
          BY <4>1, <5>1, <5>2, <5>3
      <4>4. seqs[m + 1] \in Seq(X) /\ Distinct(seqs[m + 1])
        BY <1>1, <4>1
      <4>5. /\ f[m + 1] \in Seq(X) /\ Distinct(f[m + 1])
            /\ \A x : Occurs(f[m + 1], x) <=> Occurs(f[m], x) \/ Occurs(seqs[m + 1], x)
        BY <4>2, <4>3, <4>4, Joined
      <4>6. \A k : k \in 1..(m + 1) <=> k \in 1..m \/ k = m + 1
        OBVIOUS
      <4> QED
        BY <4>2, <4>5, <4>6
    <3> QED
      BY <3>1, <3>2
  <2>4. N \in T
    <3>1. \A m \in Nat : m \in T => m + 1 \in T
      <4>1. SUFFICES ASSUME NEW m \in Nat, m \in T PROVE m + 1 \in T
        OBVIOUS
      <4>2. m + 1 \in 1..N => Good(f[m + 1], m + 1)
        BY <2>3, <4>1
      <4> HIDE DEF Good
      <4> QED
        BY <4>2
    <3> HIDE DEF T
    <3> QED
      BY <1>1, <2>2, <3>1, NatInd
  <2>5. N \in 1..N
    BY <1>1, <1>3
  <2> QED
    BY <2>1, <2>4, <2>5
<1> QED
  BY <1>2, <1>3

-----------------------------------------------------------------------------
(* Buffers *)

\* In a finite set with a total order, the places of the elements are all numbers from 0.
Order(T, R) ==
    /\ \A a \in T : <<a, a>> \notin R
    /\ \A a, b, c \in T : <<a, b>> \in R /\ <<b, c>> \in R => <<a, c>> \in R
    /\ \A a, b \in T : a # b => <<a, b>> \in R \/ <<b, a>> \in R
Rank(T, R, t) == Cardinality({a \in T : <<a, t>> \in R})

LEMMA Ranked ==
    ASSUME NEW T, NEW R, IsFiniteSet(T), Order(T, R)
    PROVE  /\ Cardinality(T) \in Nat
           /\ \A t \in T : Rank(T, R, t) \in 0..(Cardinality(T) - 1)
           /\ \A s, t \in T : Rank(T, R, s) = Rank(T, R, t) => s = t
           /\ \A n \in 0..(Cardinality(T) - 1) : \E t \in T : Rank(T, R, t) = n
<1> DEFINE Before(t) == {a \in T : <<a, t>> \in R}
           N == Cardinality(T)
           f == [t \in T |-> Rank(T, R, t)]
<1>1. N \in Nat
  BY FS_CardinalityType
<1>2. \A t \in T : /\ IsFiniteSet(Before(t)) /\ Before(t) \subseteq T
                   /\ Cardinality(Before(t)) \in Nat /\ Rank(T, R, t) = Cardinality(Before(t))
  <2>1. SUFFICES ASSUME NEW t \in T PROVE IsFiniteSet(Before(t)) /\ Cardinality(Before(t)) \in Nat
    BY DEF Rank
  <2> QED
    BY FS_Subset, FS_CardinalityType
<1>3. \A t \in T : Cardinality(Before(t)) < N
  <2>1. SUFFICES ASSUME NEW t \in T PROVE Cardinality(Before(t)) < N
    OBVIOUS
  <2>2. t \notin Before(t)
    BY DEF Order
  <2>3. Before(t) \in SUBSET T /\ Before(t) # T
    BY <2>2
  <2>4. Cardinality(Before(t)) <= N /\ Cardinality(Before(t)) # N
    BY <2>3, FS_Subset
  <2> QED
    BY <1>1, <1>2, <2>4
<1>4. ASSUME NEW s \in T, NEW t \in T, <<s, t>> \in R PROVE Cardinality(Before(s)) < Cardinality(Before(t))
  <2>1. Before(s) \in SUBSET Before(t)
    BY <1>4 DEF Order
  <2>2. s \in Before(t) /\ s \notin Before(s)
    BY <1>4 DEF Order
  <2>3. IsFiniteSet(Before(t)) /\ Before(s) # Before(t)
    BY <1>2, <2>2
  <2> HIDE DEF Before
  <2>4. Cardinality(Before(s)) <= Cardinality(Before(t)) /\ Cardinality(Before(s)) # Cardinality(Before(t))
    BY <2>1, <2>3, FS_Subset
  <2> QED
    BY <1>2, <2>4
<1>5. \A s, t \in T : Rank(T, R, s) = Rank(T, R, t) => s = t
  <2>1. SUFFICES ASSUME NEW s \in T, NEW t \in T, Rank(T, R, s) = Rank(T, R, t), s # t PROVE FALSE
    OBVIOUS
  <2>2. <<s, t>> \in R \/ <<t, s>> \in R
    BY <2>1 DEF Order
  <2> HIDE DEF Before
  <2> QED
    BY <1>2, <1>4, <2>1, <2>2
<1>6. \A t \in T : Rank(T, R, t) \in 0..(N - 1)
  <2> HIDE DEF Before, N
  <2> QED
    BY <1>1, <1>2, <1>3
<1>7. f \in Injection(T, 0..(N - 1))
  <2>1. f \in [T -> 0..(N - 1)]
    BY <1>6
  <2>2. \A s, t \in T : f[s] = f[t] => s = t
    BY <1>5
  <2> HIDE DEF f, N
  <2> QED
    BY <2>1, <2>2 DEF Injection, IsInjective
<1>8. IsFiniteSet(0..(N - 1)) /\ Cardinality(0..(N - 1)) = N
  <2>1. 0 \in Int /\ N - 1 \in Int /\ (0 > N - 1 <=> N = 0)
    BY <1>1
  <2> HIDE DEF N
  <2>2. IsFiniteSet(0..(N - 1)) /\ Cardinality(0..(N - 1)) = IF 0 > N - 1 THEN 0 ELSE (N - 1) - 0 + 1
    BY <2>1, FS_Interval
  <2> QED
    BY <1>1, <2>1, <2>2
<1>9. f \in Surjection(T, 0..(N - 1))
  <2> HIDE DEF f
  <2> QED
    BY <1>7, <1>8, FS_Injection
<1>10. \A n \in 0..(N - 1) : \E t \in T : f[t] = n
  <2> HIDE DEF f, N
  <2> QED
    BY <1>9 DEF Surjection
<1> QED
  BY <1>1, <1>5, <1>6, <1>10

\* The ordinals tell targets apart.
OrdinalsDiffer(targets) ==
    /\ \A t \in targets : t.ordinal \in Int /\ t.frame \in Int
    /\ \A s, t \in targets : s.ordinal = t.ordinal => s = t

LEMMA SortedIs ==
    ASSUME NEW targets, IsFiniteSet(targets), OrdinalsDiffer(targets)
    PROVE  /\ Sorted(targets) \in Seq(targets) /\ Len(Sorted(targets)) = Cardinality(targets)
           /\ Distinct(Sorted(targets))
           /\ \A x : Occurs(Sorted(targets), x) <=> x \in targets
<1> DEFINE R == {p \in targets \X targets : Precedes(p[1], p[2])}
           N == Cardinality(targets)
           q == Sorted(targets)
           Rk(t) == Cardinality({a \in targets : Precedes(a, t)})
<1>1. \A a, b \in targets : <<a, b>> \in R <=> Precedes(a, b)
  OBVIOUS
<1>2. Order(targets, R)
  <2> HIDE DEF R
  <2>1. \A a \in targets : ~Precedes(a, a)
    BY DEF Precedes, OrdinalsDiffer
  <2>2. \A a, b, c \in targets : Precedes(a, b) /\ Precedes(b, c) => Precedes(a, c)
    BY DEF Precedes, OrdinalsDiffer
  <2>3. \A a, b \in targets : a # b => Precedes(a, b) \/ Precedes(b, a)
    BY DEF Precedes, OrdinalsDiffer
  <2> QED
    BY <1>1, <2>1, <2>2, <2>3 DEF Order
<1>3. \A t \in targets : Rank(targets, R, t) = Rk(t)
  <2>1. SUFFICES ASSUME NEW t \in targets PROVE Rank(targets, R, t) = Rk(t)
    OBVIOUS
  <2>2. {a \in targets : <<a, t>> \in R} = {a \in targets : Precedes(a, t)}
    BY <1>1
  <2> QED
    BY <2>2 DEF Rank
<1> HIDE DEF R, Rk
<1>4. /\ N \in Nat
      /\ \A t \in targets : Rk(t) \in 0..(N - 1)
      /\ \A s, t \in targets : Rk(s) = Rk(t) => s = t
      /\ \A n \in 0..(N - 1) : \E t \in targets : Rk(t) = n
  BY <1>2, <1>3, Ranked
<1>5. q = [n \in 1..N |-> CHOOSE t \in targets : Rk(t) = n - 1]
  BY DEF Sorted, Rk
<1> HIDE DEF N, q
<1>6. \A n \in 1..N : q[n] \in targets /\ Rk(q[n]) = n - 1
  <2>1. SUFFICES ASSUME NEW n \in 1..N PROVE q[n] \in targets /\ Rk(q[n]) = n - 1
    OBVIOUS
  <2>2. n - 1 \in 0..(N - 1)
    BY <1>4
  <2>3. \E t \in targets : Rk(t) = n - 1
    BY <1>4, <2>2
  <2>4. q[n] = CHOOSE t \in targets : Rk(t) = n - 1
    BY <1>5
  <2> QED
    BY <2>3, <2>4
<1>7. q \in Seq(targets) /\ Len(q) = N
  <2>1. q \in [1..N -> targets]
    BY <1>5, <1>6
  <2> QED
    BY <1>4, <2>1
<1>8. Distinct(q)
  <2>1. SUFFICES ASSUME NEW m \in 1..Len(q), NEW n \in 1..Len(q), q[m] = q[n] PROVE m = n
    BY DEF Distinct
  <2>2. m - 1 = n - 1 /\ m \in Int /\ n \in Int
    BY <1>4, <1>6, <1>7, <2>1
  <2> QED
    BY <2>2
<1>9. ASSUME NEW t \in targets PROVE Occurs(q, t)
  <2>1. Rk(t) \in 0..(N - 1)
    BY <1>4
  <2>2. Rk(t) + 1 \in 1..N /\ (Rk(t) + 1) - 1 = Rk(t)
    BY <1>4, <2>1
  <2>3. q[Rk(t) + 1] \in targets /\ Rk(q[Rk(t) + 1]) = Rk(t)
    BY <1>6, <2>2
  <2>4. q[Rk(t) + 1] = t
    BY <1>4, <2>3
  <2> QED
    BY <1>7, <2>2, <2>4 DEF Occurs
<1>10. \A x : Occurs(q, x) <=> x \in targets
  BY <1>6, <1>7, <1>9 DEF Occurs
<1> QED
  BY <1>7, <1>8, <1>10 DEF q, N

LEMMA Cuts ==
    ASSUME NEW N \in Nat, NEW b \in Nat \ {0}
    PROVE  /\ (N + b - 1) \div b \in Nat
           /\ \A p \in 0..(N - 1) : (p \div b) + 1 \in 1..((N + b - 1) \div b)
           /\ \A n \in 1..((N + b - 1) \div b) :
                 (n - 1) * b \in 0..(N - 1) /\ ((n - 1) * b) \div b = n - 1
<1> DEFINE Q == (N + b - 1) \div b
<1>1. /\ Q \in Int /\ N + b - 1 \in Nat
      /\ Q * b <= N + b - 1 /\ N + b - 1 < Q * b + b
  <2>1. N + b - 1 \in Nat
    OBVIOUS
  <2> QED
    BY <2>1, Division
<1>2. Q \in Nat
  <2>1. SUFFICES ASSUME Q <= -1 PROVE FALSE
    BY <1>1
  <2>2. Q * b <= (-1) * b
    <3> HIDE DEF Q
    <3> QED
      BY <1>1, <2>1, Products
  <2> HIDE DEF Q
  <2>3. Q * b \in Int /\ (-1) * b = -b
    BY <1>1
  <2> QED
    BY <1>1, <2>2, <2>3
<1>3. ASSUME NEW p \in 0..(N - 1) PROVE (p \div b) + 1 \in 1..Q
  <2> DEFINE d == p \div b
  <2>1. d \in Int /\ d * b <= p /\ p < d * b + b
    BY Division
  <2>2. d >= 0
    <3>1. SUFFICES ASSUME d <= -1 PROVE FALSE
      BY <2>1
    <3> HIDE DEF d
    <3>2. d * b <= (-1) * b
      BY <2>1, <3>1, Products
    <3>3. d * b \in Int /\ (-1) * b = -b
      BY <2>1
    <3> QED
      BY <2>1, <3>2, <3>3
  <2>3. d + 1 <= Q
    <3>1. SUFFICES ASSUME Q <= d PROVE FALSE
      BY <1>1, <2>1
    <3> HIDE DEF d, Q
    <3>2. Q * b <= d * b /\ Q * b \in Int /\ d * b \in Int
      BY <1>1, <2>1, <3>1, Products
    <3> QED
      BY <1>1, <2>1, <3>2
  <2> HIDE DEF d, Q
  <2> QED
    BY <1>2, <2>1, <2>2, <2>3
<1>4. ASSUME NEW n \in 1..Q PROVE (n - 1) * b \in 0..(N - 1) /\ ((n - 1) * b) \div b = n - 1
  <2>1. n \in Nat /\ n - 1 \in Nat /\ n >= 1 /\ n <= Q
    BY <1>2
  <2>2. (n - 1) * b \in Nat /\ n * b = (n - 1) * b + b
    BY <2>1
  <2>3. n * b <= Q * b /\ n * b \in Int /\ Q * b \in Int
    <3> HIDE DEF Q
    <3> QED
      BY <1>2, <2>1, Products
  <2>4. (n - 1) * b <= N - 1
    <3> HIDE DEF Q
    <3> QED
      BY <1>1, <2>2, <2>3
  <2>5. ((n - 1) * b) \div b = n - 1
    BY <2>1
  <2> QED
    BY <2>2, <2>4, <2>5
<1> QED
  BY <1>2, <1>3, <1>4

Buffers(targets) == (Cardinality(targets) + TargetBufferSize - 1) \div TargetBufferSize

LEMMA Cut ==
    ASSUME NEW targets, IsFiniteSet(targets), OrdinalsDiffer(targets)
    PROVE  /\ BuffersOf(targets) \in Seq(Seq(targets)) /\ Len(BuffersOf(targets)) = Buffers(targets)
           /\ \A n \in 1..Buffers(targets) :
                 /\ BuffersOf(targets)[n] # <<>> /\ Distinct(BuffersOf(targets)[n])
                 /\ \A x : Occurs(BuffersOf(targets)[n], x) <=> x \in BufferAt(targets, n)
           /\ \A t \in targets : \E n \in 1..Buffers(targets) : t \in BufferAt(targets, n)
           /\ \A m, n \in 1..Buffers(targets) : \A t : t \in BufferAt(targets, m) /\ t \in BufferAt(targets, n) => m = n
<1> DEFINE R == {p \in targets \X targets : p[1].ordinal < p[2].ordinal}
           N == Cardinality(targets)
           K == Buffers(targets)
           B(n) == BufferAt(targets, n)
<1>1. \A a, b \in targets : <<a, b>> \in R <=> a.ordinal < b.ordinal
  OBVIOUS
<1>2. Order(targets, R)
  <2> HIDE DEF R
  <2> QED
    BY <1>1 DEF Order, OrdinalsDiffer
<1>3. \A t \in targets : Rank(targets, R, t) = Place(t, targets)
  <2>1. SUFFICES ASSUME NEW t \in targets PROVE Rank(targets, R, t) = Place(t, targets)
    OBVIOUS
  <2>2. {a \in targets : <<a, t>> \in R} = {a \in targets : a.ordinal < t.ordinal}
    BY <1>1
  <2> QED
    BY <2>2 DEF Rank, Place
<1> HIDE DEF R
<1>4. /\ N \in Nat
      /\ \A t \in targets : Place(t, targets) \in 0..(N - 1)
      /\ \A n \in 0..(N - 1) : \E t \in targets : Place(t, targets) = n
  BY <1>2, <1>3, Ranked
<1>5. /\ K \in Nat
      /\ \A p \in 0..(N - 1) : (p \div TargetBufferSize) + 1 \in 1..K
      /\ \A n \in 1..K : (n - 1) * TargetBufferSize \in 0..(N - 1)
                         /\ ((n - 1) * TargetBufferSize) \div TargetBufferSize = n - 1
  <2>1. TargetBufferSize \in Nat \ {0}
    BY BatchAssumption
  <2> HIDE DEF N
  <2> QED
    BY <1>4, <2>1, Cuts DEF Buffers, N
<1> HIDE DEF N
<1>6. ASSUME NEW n \in 1..K
      PROVE  /\ IsFiniteSet(B(n)) /\ OrdinalsDiffer(B(n)) /\ B(n) # {} /\ B(n) \subseteq targets
  <2>1. B(n) \in SUBSET targets
    BY DEF BufferAt
  <2>2. IsFiniteSet(B(n)) /\ OrdinalsDiffer(B(n))
    BY <2>1, FS_Subset DEF OrdinalsDiffer
  <2>3. PICK t \in targets : Place(t, targets) = (n - 1) * TargetBufferSize
    BY <1>4, <1>5
  <2>4. t \in B(n)
    BY <1>5, <2>3 DEF BufferAt
  <2> QED
    BY <2>1, <2>2, <2>4
<1>7. BuffersOf(targets) = [n \in 1..K |-> Sorted(B(n))]
  BY DEF BuffersOf, Buffers
<1> HIDE DEF K
<1>8. ASSUME NEW n \in 1..K
      PROVE  /\ Sorted(B(n)) \in Seq(targets) /\ Sorted(B(n)) # <<>> /\ Distinct(Sorted(B(n)))
             /\ \A x : Occurs(Sorted(B(n)), x) <=> x \in B(n)
  <2>1. IsFiniteSet(B(n)) /\ OrdinalsDiffer(B(n)) /\ B(n) # {} /\ B(n) \subseteq targets
    BY <1>6
  <2> HIDE DEF B
  <2>2. /\ Sorted(B(n)) \in Seq(B(n)) /\ Distinct(Sorted(B(n)))
        /\ \A x : Occurs(Sorted(B(n)), x) <=> x \in B(n)
    BY <2>1, SortedIs
  <2>3. Sorted(B(n)) # <<>>
    <3>1. PICK x : x \in B(n)
      BY <2>1
    <3>2. Occurs(Sorted(B(n)), x)
      BY <2>2, <3>1
    <3> QED
      BY <3>2 DEF Occurs
  <2>4. Sorted(B(n)) \in Seq(targets)
    BY <2>1, <2>2
  <2> QED
    BY <2>2, <2>3, <2>4
<1>9. \A t \in targets : \E n \in 1..K : t \in B(n)
  <2>1. SUFFICES ASSUME NEW t \in targets PROVE \E n \in 1..K : t \in B(n)
    OBVIOUS
  <2> DEFINE d == Place(t, targets) \div TargetBufferSize
  <2>2. d + 1 \in 1..K /\ Place(t, targets) \in Int
    BY <1>4, <1>5
  <2>3. d \in Int
    BY <2>2, BatchAssumption, Division
  <2>4. (d + 1) - 1 = d
    <3> HIDE DEF d
    <3> QED
      BY <2>3
  <2>5. t \in B(d + 1)
    BY <2>4 DEF BufferAt
  <2> QED
    BY <2>2, <2>5
<1>10. \A m, n \in 1..K : \A t : t \in B(m) /\ t \in B(n) => m = n
  <2>1. SUFFICES ASSUME NEW m \in 1..K, NEW n \in 1..K, NEW t, t \in B(m), t \in B(n) PROVE m = n
    OBVIOUS
  <2>2. m - 1 = n - 1
    BY <2>1 DEF BufferAt
  <2> QED
    BY <1>5, <2>2
<1> HIDE DEF B
<1>11. BuffersOf(targets) \in [1..K -> Seq(targets)]
  BY <1>7, <1>8
<1>12. BuffersOf(targets) \in Seq(Seq(targets)) /\ Len(BuffersOf(targets)) = K
  BY <1>5, <1>11
<1>13. \A n \in 1..K : /\ BuffersOf(targets)[n] # <<>> /\ Distinct(BuffersOf(targets)[n])
                       /\ \A x : Occurs(BuffersOf(targets)[n], x) <=> x \in B(n)
  <2>1. \A n \in 1..K : BuffersOf(targets)[n] = Sorted(B(n))
    BY <1>7
  <2> QED
    BY <1>8, <2>1
<1>14. \A n : B(n) = BufferAt(targets, n)
  BY DEF B
<1> QED
  BY <1>9, <1>10, <1>12, <1>13, <1>14 DEF K

\* What the code may build from a batch.
BuffersRight(targets, buffers) ==
    /\ buffers \in Seq(Seq(targets))
    /\ \A k \in 1..Len(buffers) : /\ buffers[k] # <<>> /\ Distinct(buffers[k])
                                  /\ \E s : \A x : Occurs(buffers[k], x) => x.shard = s
    /\ \A k, m \in 1..Len(buffers) : \A x : Occurs(buffers[k], x) /\ Occurs(buffers[m], x) => k = m
    /\ \A t \in targets : \E k \in 1..Len(buffers) : Occurs(buffers[k], t)

LEMMA Grouped ==
    ASSUME NEW targets, IsFiniteSet(targets), OrdinalsDiffer(targets), NEW buffers \in TargetBuffers(targets)
    PROVE  BuffersRight(targets, buffers)
<1> DEFINE shards == {t.shard : t \in targets}
           Of(s) == {t \in targets : t.shard = s}
<1>1. PICK order \in SetToSeqs(shards) :
           buffers = FlattenSeq([k \in DOMAIN order |-> BuffersOf(Of(order[k]))])
  BY DEF TargetBuffers
<1> DEFINE N == Cardinality(shards)
           parts == [k \in DOMAIN order |-> BuffersOf(Of(order[k]))]
<1>2. IsFiniteSet(shards)
  <2> DEFINE f == [t \in targets |-> t.shard]
  <2>1. f \in [targets -> shards] /\ \A s \in shards : \E t \in targets : f[t] = s
    OBVIOUS
  <2> HIDE DEF f, shards
  <2>2. f \in Surjection(targets, shards)
    BY <2>1 DEF Surjection
  <2> QED
    BY <2>2, FS_Surjection
<1>3. N \in Nat /\ order \in [1..N -> shards] /\ \A i, j \in 1..N : order[i] = order[j] => i = j
  <2>1. N \in Nat
    BY <1>2, FS_CardinalityType
  <2> HIDE DEF shards
  <2> QED
    BY <1>1, <2>1 DEF SetToSeqs
<1>4. \A s \in shards : \E k \in 1..N : order[k] = s
  <2> HIDE DEF shards, N
  <2>1. order \in Injection(1..N, shards)
    BY <1>3 DEF Injection, IsInjective
  <2>2. Cardinality(1..N) = Cardinality(shards)
    <3>1. 1 \in Int /\ N \in Int /\ (1 > N <=> N = 0)
      BY <1>3
    <3>2. Cardinality(1..N) = IF 1 > N THEN 0 ELSE N - 1 + 1
      BY <3>1, FS_Interval
    <3> QED
      BY <1>3, <3>1, <3>2 DEF N
  <2>3. order \in Surjection(1..N, shards)
    BY <1>2, <2>1, <2>2, FS_Injection
  <2> QED
    BY <2>3 DEF Surjection
<1>5. \A s : Of(s) \subseteq targets /\ IsFiniteSet(Of(s)) /\ OrdinalsDiffer(Of(s))
  <2>1. SUFFICES ASSUME NEW s PROVE IsFiniteSet(Of(s)) /\ OrdinalsDiffer(Of(s))
    OBVIOUS
  <2>2. Of(s) \in SUBSET targets
    OBVIOUS
  <2> QED
    BY <2>2, FS_Subset DEF OrdinalsDiffer
<1> HIDE DEF shards, N
<1>6. DOMAIN order = 1..N
  BY <1>3
<1> DEFINE K(k) == Buffers(Of(order[k]))
           At_(k, n) == BufferAt(Of(order[k]), n)
<1>7. parts = [k \in 1..N |-> BuffersOf(Of(order[k]))]
  BY <1>6
<1>8. \A k, n : At_(k, n) \subseteq Of(order[k])
  BY DEF BufferAt
<1>9. ASSUME NEW k \in 1..N
      PROVE  /\ parts[k] \in Seq(Seq(targets)) /\ Len(parts[k]) = K(k)
             /\ \A n \in 1..K(k) :
                   /\ parts[k][n] # <<>> /\ Distinct(parts[k][n])
                   /\ \A x : Occurs(parts[k][n], x) <=> x \in At_(k, n)
             /\ \A t \in Of(order[k]) : \E n \in 1..K(k) : t \in At_(k, n)
             /\ \A m, n \in 1..K(k) : \A t : t \in At_(k, m) /\ t \in At_(k, n) => m = n
  <2>1. parts[k] = BuffersOf(Of(order[k]))
    BY <1>7
  <2> DEFINE T == Of(order[k])
  <2>2. T \subseteq targets /\ IsFiniteSet(T) /\ OrdinalsDiffer(T)
    BY <1>5
  <2> HIDE DEF T
  <2>3. /\ BuffersOf(T) \in Seq(Seq(T)) /\ Len(BuffersOf(T)) = Buffers(T)
        /\ \A n \in 1..Buffers(T) :
              /\ BuffersOf(T)[n] # <<>> /\ Distinct(BuffersOf(T)[n])
              /\ \A x : Occurs(BuffersOf(T)[n], x) <=> x \in BufferAt(T, n)
        /\ \A t \in T : \E n \in 1..Buffers(T) : t \in BufferAt(T, n)
        /\ \A m, n \in 1..Buffers(T) : \A t : t \in BufferAt(T, m) /\ t \in BufferAt(T, n) => m = n
    BY <2>2, Cut
  <2>4. BuffersOf(T) \in Seq(Seq(targets))
    <3>1. Seq(T) \subseteq Seq(targets)
      BY <2>2
    <3> QED
      BY <2>3, <3>1
  <2> QED
    BY <2>1, <2>3, <2>4 DEF T
<1> HIDE DEF Of, K, At_, parts
<1>10. parts \in Seq(Seq(Seq(targets))) /\ Len(parts) = N
  <2>1. parts \in [1..N -> Seq(Seq(targets))]
    <3>1. parts = [k \in 1..N |-> parts[k]]
      BY <1>7
    <3> QED
      BY <1>9, <3>1
  <2> QED
    BY <1>3, <2>1
<1>11. ASSUME NEW k \in 1..N, NEW m \in 1..N, NEW t, t \in Of(order[k]), t \in Of(order[m]) PROVE k = m
  <2>1. order[k] = order[m]
    BY <1>11 DEF Of
  <2> QED
    BY <1>3, <2>1
<1>12. \A k \in 1..N : Distinct(parts[k])
  <2>1. SUFFICES ASSUME NEW k \in 1..N, NEW m \in 1..Len(parts[k]), NEW n \in 1..Len(parts[k]),
                        parts[k][m] = parts[k][n]
                 PROVE  m = n
    BY DEF Distinct
  <2>2. m \in 1..K(k) /\ n \in 1..K(k)
    BY <1>9
  <2>3. parts[k][m] \in Seq(targets) /\ parts[k][m] # <<>>
    BY <1>9, <2>1, <2>2
  <2>4. Occurs(parts[k][m], parts[k][m][1])
    <3>1. 1 \in 1..Len(parts[k][m])
      BY <2>3
    <3> QED
      BY <3>1 DEF Occurs
  <2>5. Occurs(parts[k][n], parts[k][m][1])
    BY <2>1, <2>4
  <2>6. parts[k][m][1] \in At_(k, m) /\ parts[k][m][1] \in At_(k, n)
    BY <1>9, <2>2, <2>4, <2>5
  <2> QED
    BY <1>9, <2>2, <2>6
<1>13. ASSUME NEW k \in 1..N, NEW q, Occurs(parts[k], q)
       PROVE  \E n \in 1..K(k) : q = parts[k][n]
  BY <1>9, <1>13 DEF Occurs
<1>14. ASSUME NEW k \in 1..N, NEW m \in 1..N, NEW q, NEW r, NEW x, Occurs(parts[k], q), Occurs(parts[m], r),
              Occurs(q, x), Occurs(r, x)
       PROVE  k = m /\ q = r
  <2>1. PICK i \in 1..K(k) : q = parts[k][i]
    BY <1>13, <1>14
  <2>2. PICK j \in 1..K(m) : r = parts[m][j]
    BY <1>13, <1>14
  <2>3. x \in At_(k, i) /\ x \in At_(m, j)
    BY <1>9, <1>14, <2>1, <2>2
  <2>4. x \in Of(order[k]) /\ x \in Of(order[m])
    BY <1>8, <2>3 DEF At_
  <2>5. k = m
    BY <1>11, <2>4
  <2>6. i = j
    BY <1>9, <2>1, <2>2, <2>3, <2>5
  <2> QED
    BY <2>1, <2>2, <2>5, <2>6
<1>15. \A k, m \in 1..N : \A q : Occurs(parts[k], q) /\ Occurs(parts[m], q) => k = m
  <2>1. SUFFICES ASSUME NEW k \in 1..N, NEW m \in 1..N, NEW q, Occurs(parts[k], q), Occurs(parts[m], q)
                 PROVE  k = m
    OBVIOUS
  <2>2. PICK n \in 1..K(k) : q = parts[k][n]
    BY <1>13, <2>1
  <2>3. q \in Seq(targets) /\ q # <<>>
    BY <1>9, <2>2
  <2>4. Occurs(q, q[1])
    <3>1. 1 \in 1..Len(q)
      BY <2>3
    <3> QED
      BY <3>1 DEF Occurs
  <2> QED
    BY <1>14, <2>1, <2>4
<1>16. /\ buffers \in Seq(Seq(targets)) /\ Distinct(buffers)
       /\ \A q : Occurs(buffers, q) <=> \E k \in 1..N : Occurs(parts[k], q)
  <2>1. buffers = FlattenSeq(parts)
    BY <1>1 DEF parts
  <2>2. parts \in Seq(Seq(Seq(targets))) /\ Len(parts) = N
    BY <1>10
  <2> HIDE DEF parts
  <2> QED
    BY <1>12, <1>15, <2>1, <2>2, Flattened
<1>17. \A n \in 1..Len(buffers) : \E k \in 1..N : Occurs(parts[k], buffers[n])
  BY <1>16 DEF Occurs
<1>18. ASSUME NEW n \in 1..Len(buffers)
       PROVE  /\ buffers[n] # <<>> /\ Distinct(buffers[n])
              /\ \E s : \A x : Occurs(buffers[n], x) => x.shard = s
  <2>1. PICK k \in 1..N : Occurs(parts[k], buffers[n])
    BY <1>17
  <2>2. PICK i \in 1..K(k) : buffers[n] = parts[k][i]
    BY <1>13, <2>1
  <2>3. \A x : Occurs(buffers[n], x) => x \in Of(order[k])
    BY <1>8, <1>9, <2>2 DEF At_
  <2> QED
    BY <1>9, <2>2, <2>3 DEF Of
<1>19. ASSUME NEW m \in 1..Len(buffers), NEW n \in 1..Len(buffers), NEW x,
              Occurs(buffers[m], x), Occurs(buffers[n], x)
       PROVE  m = n
  <2>1. PICK k \in 1..N : Occurs(parts[k], buffers[m])
    BY <1>17
  <2>2. PICK l \in 1..N : Occurs(parts[l], buffers[n])
    BY <1>17
  <2>3. buffers[m] = buffers[n]
    BY <1>14, <1>19, <2>1, <2>2
  <2> QED
    BY <1>16, <2>3 DEF Distinct
<1>20. ASSUME NEW t \in targets PROVE \E n \in 1..Len(buffers) : Occurs(buffers[n], t)
  <2>1. t.shard \in shards
    BY DEF shards
  <2>2. PICK k \in 1..N : order[k] = t.shard
    BY <1>4, <2>1
  <2>3. t \in Of(order[k])
    BY <2>2 DEF Of
  <2>4. PICK i \in 1..K(k) : t \in At_(k, i)
    BY <1>9, <2>3
  <2>5. Occurs(parts[k][i], t) /\ Occurs(parts[k], parts[k][i])
    BY <1>9, <2>4 DEF Occurs
  <2>6. PICK n \in 1..Len(buffers) : buffers[n] = parts[k][i]
    BY <1>16, <2>5 DEF Occurs
  <2> QED
    BY <2>5, <2>6
<1> QED
  BY <1>16, <1>18, <1>19, <1>20 DEF BuffersRight
-----------------------------------------------------------------------------
(* The invariant *)

\* The places of a buffer that have not been answered, and all targets that have not.
Ahead(buffer) ==
    {n \in 1..Len(buffer.targets) : n > buffer.position \/ (buffer.have_decoded /\ n = buffer.position)}
LeftOf(buffer, queue) ==
    {buffer.targets[n] : n \in Ahead(buffer)} \cup UNION {{queue[k][n] : n \in 1..Len(queue[k])} : k \in 1..Len(queue)}

OneFile(q) == \A m, n \in 1..Len(q) : q[m].shard = q[n].shard
Apart(q, r) == \A m \in 1..Len(q), n \in 1..Len(r) : q[m] # r[n]

\* No target is in two places.
InLine(buffer, queue) ==
    /\ buffer.position <= Len(buffer.targets) /\ (buffer.have_decoded => buffer.position >= 1)
    /\ buffer.targets = <<>> => buffer = NoBuffer
    /\ Distinct(buffer.targets) /\ OneFile(buffer.targets)
    /\ \A k \in 1..Len(queue) : /\ queue[k] # <<>> /\ Distinct(queue[k]) /\ OneFile(queue[k])
                                /\ Apart(buffer.targets, queue[k])
    /\ \A k, m \in 1..Len(queue) : k # m => Apart(queue[k], queue[m])

\* The rows of a chunk up to the position have an answer or a target that is left, once, by
\* their own route and frame; chunk is the input, ok says that the thread has not failed.
Answered(b, ok, chunk, batch_routes, left, answers) ==
    /\ chunk.position <= Len(chunk.rows)
    /\ \A t \in left : /\ t.row \in 1..chunk.position
                       /\ t.route \in 1..Len(batch_routes) /\ batch_routes[t.route] = t.row
                       /\ FrameRight(b, chunk.rows[t.row], t.frame, t.padding)
    /\ \A i \in 1..Len(answers) :
          /\ answers[i].row \in 1..Len(chunk.rows) /\ answers[i].route = answers[i].row
          /\ chunk.initialized => answers[i].row <= chunk.position
          /\ FrameRight(b, chunk.rows[answers[i].row], answers[i].frame, answers[i].padding)
    /\ \A s, t \in left : s.row = t.row => s = t
    /\ \A i, k \in 1..Len(answers) : answers[i].row = answers[k].row => i = k
    /\ \A t \in left, i \in 1..Len(answers) : answers[i].row # t.row
    /\ ok /\ chunk.initialized =>
          \A r \in 1..chunk.position : (\E t \in left : t.row = r) \/ (\E i \in 1..Len(answers) : answers[i].row = r)
    /\ ok /\ ~chunk.initialized =>
          \A r \in 1..Len(chunk.rows) : \E i \in 1..Len(answers) : answers[i].row = r

\* What a thread is doing, and the decoder it has for it.
Doing(b, decode, pc, chunk, queue, buffer, decoder) ==
    /\ ~Accepted(b) => pc = "failed"
    /\ b.operator = "lerobot_temporal_targets" => ~chunk.initialized
    /\ ~chunk.initialized => pc \in {"outside", "failed"} /\ queue = <<>> /\ buffer = NoBuffer
    /\ ~decode => decoder.pc = "idle" /\ ~buffer.have_decoded
                  /\ (buffer.targets # <<>> => buffer.position < Len(buffer.targets))
    /\ decode /\ buffer.targets # <<>> => decoder.shard = buffer.targets[1].shard
    /\ pc = "acquire" => /\ decode /\ buffer.targets # <<>>
                         /\ decoder.pc \in {"acquire", "wait", "evicting", "opening", "using"}
    /\ pc \in {"loop", "outside"} =>
          decoder.pc = IF decode /\ buffer.targets # <<>> THEN "using" ELSE "idle"
    /\ pc = "failed" => buffer.targets = <<>> /\ decoder.pc \in {"idle", "closing"}
    /\ pc = "dropped" => decode /\ buffer.targets # <<>> /\ decoder.pc = "dropped"

\* The ordinals of a thread's rows.
Items(left, answers) ==
    {<<t.row, t.ordinal>> : t \in left} \cup {<<answers[i].row, answers[i].ordinal>> : i \in 1..Len(answers)}
ItemsOf(u) == Items(LeftOf(current[u], queued[u]), delivered[u])

OrdinalsUnique ==
    /\ \A u \in Users : \A p \in ItemsOf(u) : p[2] \in 0..(next_target_ordinal - 1)
    /\ \A u, v \in Users : \A p \in ItemsOf(u), q \in ItemsOf(v) : p[2] = q[2] => u = v /\ p = q

ThreadInv(u) ==
    /\ InLine(current[u], queued[u])
    /\ Answered(bind, thread[u].pc # "failed", input[u], routes[u], LeftOf(current[u], queued[u]), delivered[u])
    /\ Doing(bind, needs_decode, thread[u].pc, input[u], queued[u], current[u], user[u])

Target == [row : Nat, ordinal : Nat, route : Nat, shard : Shards, pixels : Nat, frame : Int, padding : BOOLEAN]
Answer == [row : Nat, ordinal : Nat, route : Nat, frame : Int, padding : BOOLEAN]
BufferType == [targets : Seq(Target), position : Nat, have_decoded : BOOLEAN]
ThreadType == [pc : {"outside", "loop", "acquire", "failed", "dropped"}, count : Nat, bytes : Nat]
ChunkType == [rows : Seq(InputRow), number : Nat, position : Nat, initialized : BOOLEAN]

TargetTypes ==
    /\ bind \in Binds /\ needs_decode \in BOOLEAN /\ next_target_ordinal \in Nat
    /\ thread \in [Users -> ThreadType] /\ input \in [Users -> ChunkType]
    /\ routes \in [Users -> Seq(Nat)] /\ queued \in [Users -> Seq(Seq(Target))]
    /\ current \in [Users -> BufferType] /\ delivered \in [Users -> Seq(Answer)]

IInv == CacheInv /\ TargetTypes /\ OrdinalsUnique /\ \A u \in Users : ThreadInv(u)

-----------------------------------------------------------------------------
(* The line of buffers *)

LEMMA LeftIs ==
    ASSUME NEW buffer, NEW queue, NEW t
    PROVE  t \in LeftOf(buffer, queue) <=> \/ \E n \in Ahead(buffer) : buffer.targets[n] = t
                                           \/ \E k \in 1..Len(queue) : Occurs(queue[k], t)
BY DEF LeftOf, Occurs

LEMMA NoneAhead ==
    /\ NoBuffer \in BufferType /\ NoBuffer.targets = <<>> /\ ~NoBuffer.have_decoded
    /\ NoBuffer.position = 0 /\ Len(NoBuffer.targets) = 0 /\ Ahead(NoBuffer) = {}
BY DEF NoBuffer, BufferType, Ahead

\* A new batch.
LEMMA Built ==
    ASSUME NEW targets \in SUBSET Target, NEW buffers, BuffersRight(targets, buffers)
    PROVE  /\ buffers \in Seq(Seq(Target)) /\ InLine(NoBuffer, buffers)
           /\ LeftOf(NoBuffer, buffers) = targets
<1>1. buffers \in Seq(Seq(targets)) /\ Seq(Seq(targets)) \subseteq Seq(Seq(Target))
  <2>1. Seq(targets) \subseteq Seq(Target)
    OBVIOUS
  <2> QED
    BY <2>1 DEF BuffersRight
<1>2. \A k \in 1..Len(buffers) : buffers[k] \in Seq(targets) /\ buffers[k] # <<>> /\ Distinct(buffers[k])
  BY <1>1 DEF BuffersRight
<1>3. ASSUME NEW k \in 1..Len(buffers) PROVE OneFile(buffers[k])
  <2>1. PICK s : \A x : Occurs(buffers[k], x) => x.shard = s
    BY DEF BuffersRight
  <2>2. \A n \in 1..Len(buffers[k]) : Occurs(buffers[k], buffers[k][n])
    BY DEF Occurs
  <2>3. \A n \in 1..Len(buffers[k]) : buffers[k][n].shard = s
    BY <2>1, <2>2
  <2> QED
    BY <2>3 DEF OneFile
<1>4. ASSUME NEW k \in 1..Len(buffers), NEW m \in 1..Len(buffers), k # m PROVE Apart(buffers[k], buffers[m])
  <2>1. SUFFICES ASSUME NEW i \in 1..Len(buffers[k]), NEW j \in 1..Len(buffers[m]), buffers[k][i] = buffers[m][j]
                 PROVE  FALSE
    BY DEF Apart
  <2>2. Occurs(buffers[k], buffers[k][i]) /\ Occurs(buffers[m], buffers[k][i])
    BY <2>1 DEF Occurs
  <2> QED
    BY <1>4, <2>2 DEF BuffersRight
<1>5. InLine(NoBuffer, buffers)
  <2>1. Distinct(<<>>) /\ OneFile(<<>>) /\ \A q : Apart(<<>>, q)
    BY DEF Distinct, OneFile, Apart
  <2> QED
    BY <1>2, <1>3, <1>4, <2>1, NoneAhead DEF InLine
<1>6. \A t : t \in LeftOf(NoBuffer, buffers) <=> t \in targets
  <2>1. \A t \in targets : \E k \in 1..Len(buffers) : Occurs(buffers[k], t)
    BY DEF BuffersRight
  <2>2. ASSUME NEW t, NEW k \in 1..Len(buffers), Occurs(buffers[k], t) PROVE t \in targets
    BY <1>2, <2>2 DEF Occurs
  <2> QED
    BY <2>1, <2>2, LeftIs, NoneAhead
<1> QED
  BY <1>1, <1>5, <1>6

\* The head of the line.
LEMMA Taken ==
    ASSUME NEW buffer \in BufferType, NEW queue \in Seq(Seq(Target)), InLine(buffer, queue),
           buffer.targets = <<>>, queue # <<>>,
           NEW next \in BufferType, next.targets = Head(queue), next.position = 0, ~next.have_decoded
    PROVE  /\ next.targets = queue[1] /\ next.targets # <<>> /\ next.targets[1] \in Target
           /\ Tail(queue) \in Seq(Seq(Target)) /\ InLine(next, Tail(queue))
           /\ LeftOf(next, Tail(queue)) = LeftOf(buffer, queue)
<1>1. /\ Tail(queue) \in Seq(Seq(Target)) /\ Len(queue) \in Nat \ {0} /\ Len(Tail(queue)) = Len(queue) - 1
      /\ \A k \in 1..(Len(queue) - 1) : Tail(queue)[k] = queue[k + 1] /\ k + 1 \in 1..Len(queue)
      /\ Head(queue) = queue[1] /\ 1 \in 1..Len(queue) /\ queue[1] \in Seq(Target)
  OBVIOUS
<1>2. buffer = NoBuffer
  BY DEF InLine
<1>3. /\ next \in BufferType /\ next.targets = queue[1] /\ next.position = 0 /\ ~next.have_decoded
  BY <1>1
<1>4. queue[1] # <<>> /\ Distinct(queue[1]) /\ OneFile(queue[1])
  BY <1>1 DEF InLine
<1>5. queue[1][1] \in Target
  BY <1>1, <1>4
<1>6. \A k \in 1..Len(Tail(queue)) : /\ Tail(queue)[k] # <<>> /\ Distinct(Tail(queue)[k]) /\ OneFile(Tail(queue)[k])
                                     /\ Apart(queue[1], Tail(queue)[k])
  <2>1. SUFFICES ASSUME NEW k \in 1..(Len(queue) - 1)
                 PROVE  /\ Tail(queue)[k] # <<>> /\ Distinct(Tail(queue)[k]) /\ OneFile(Tail(queue)[k])
                        /\ Apart(queue[1], Tail(queue)[k])
    BY <1>1
  <2>2. Tail(queue)[k] = queue[k + 1] /\ k + 1 \in 1..Len(queue) /\ 1 # k + 1
    BY <1>1
  <2> QED
    BY <1>1, <2>2 DEF InLine
<1>7. \A k, m \in 1..Len(Tail(queue)) : k # m => Apart(Tail(queue)[k], Tail(queue)[m])
  <2>1. SUFFICES ASSUME NEW k \in 1..(Len(queue) - 1), NEW m \in 1..(Len(queue) - 1), k # m
                 PROVE  Apart(Tail(queue)[k], Tail(queue)[m])
    BY <1>1
  <2>2. /\ Tail(queue)[k] = queue[k + 1] /\ Tail(queue)[m] = queue[m + 1]
        /\ k + 1 \in 1..Len(queue) /\ m + 1 \in 1..Len(queue) /\ k + 1 # m + 1
    BY <1>1, <2>1
  <2> QED
    BY <2>2 DEF InLine
<1>8. 0 <= Len(queue[1])
  BY <1>1
<1>9. InLine(next, Tail(queue))
  BY <1>3, <1>4, <1>6, <1>7, <1>8 DEF InLine
<1>10. Ahead(next) = 1..Len(queue[1])
  BY <1>1, <1>3 DEF Ahead
<1>11. ASSUME NEW t PROVE t \in LeftOf(next, Tail(queue)) <=> t \in LeftOf(buffer, queue)
  <2>1. t \in LeftOf(next, Tail(queue)) <=>
           Occurs(queue[1], t) \/ \E k \in 1..Len(Tail(queue)) : Occurs(Tail(queue)[k], t)
    <3>1. (\E n \in Ahead(next) : next.targets[n] = t) <=> Occurs(queue[1], t)
      BY <1>3, <1>10 DEF Occurs
    <3> QED
      BY <3>1, LeftIs
  <2>2. t \in LeftOf(buffer, queue) <=> \E k \in 1..Len(queue) : Occurs(queue[k], t)
    BY <1>2, LeftIs, NoneAhead
  <2>3. ASSUME NEW k \in 1..Len(queue), Occurs(queue[k], t), k # 1
        PROVE  \E m \in 1..Len(Tail(queue)) : Occurs(Tail(queue)[m], t)
    <3>1. k - 1 \in 1..(Len(queue) - 1) /\ (k - 1) + 1 = k
      BY <1>1, <2>3
    <3>2. Tail(queue)[k - 1] = queue[k]
      BY <1>1, <3>1
    <3> QED
      BY <1>1, <2>3, <3>1, <3>2
  <2>4. ASSUME NEW m \in 1..Len(Tail(queue)), Occurs(Tail(queue)[m], t)
        PROVE  \E k \in 1..Len(queue) : Occurs(queue[k], t)
    BY <1>1, <2>4
  <2> QED
    BY <1>1, <2>1, <2>2, <2>3, <2>4
<1> QED
  BY <1>1, <1>3, <1>4, <1>5, <1>9, <1>11

\* What is in hand changes, the queue does not: a smaller part of the same buffer is ahead.
LEMMA Advanced ==
    ASSUME NEW buffer \in BufferType, NEW queue \in Seq(Seq(Target)), InLine(buffer, queue),
           NEW next \in BufferType,
           \/ next = NoBuffer
           \/ next.targets = buffer.targets /\ next.targets # <<>>
              /\ next.position <= Len(next.targets) /\ (next.have_decoded => next.position >= 1)
    PROVE  InLine(next, queue)
<1>1. CASE next = NoBuffer
  <2>1. Distinct(<<>>) /\ OneFile(<<>>) /\ \A q : Apart(<<>>, q)
    BY DEF Distinct, OneFile, Apart
  <2> QED
    BY <1>1, <2>1, NoneAhead DEF InLine
<1>2. CASE next.targets = buffer.targets /\ next.targets # <<>>
              /\ next.position <= Len(next.targets) /\ (next.have_decoded => next.position >= 1)
  BY <1>2 DEF InLine
<1> QED
  BY <1>1, <1>2

LEMMA SameLeft ==
    ASSUME NEW buffer, NEW queue, NEW next,
           {next.targets[n] : n \in Ahead(next)} = {buffer.targets[n] : n \in Ahead(buffer)}
    PROVE  LeftOf(next, queue) = LeftOf(buffer, queue)
BY DEF LeftOf

\* One target is done.
LEMMA OneLess ==
    ASSUME NEW buffer \in BufferType, NEW queue \in Seq(Seq(Target)), InLine(buffer, queue),
           NEW n \in Ahead(buffer), NEW next \in BufferType, Ahead(next) = Ahead(buffer) \ {n},
           \A m \in Ahead(next) : next.targets[m] = buffer.targets[m]
    PROVE  /\ buffer.targets[n] \in LeftOf(buffer, queue) /\ buffer.targets[n] \in Target
           /\ LeftOf(next, queue) = LeftOf(buffer, queue) \ {buffer.targets[n]}
<1> DEFINE t == buffer.targets[n]
           Q == UNION {{queue[k][i] : i \in 1..Len(queue[k])} : k \in 1..Len(queue)}
<1>1. \A m \in Ahead(buffer) : m \in 1..Len(buffer.targets)
  BY DEF Ahead
<1>2. t \notin Q
  BY <1>1 DEF InLine, Apart
<1>3. \A m \in Ahead(buffer) : buffer.targets[m] = t => m = n
  BY <1>1 DEF InLine, Distinct
<1>4. LeftOf(next, queue) = {next.targets[m] : m \in Ahead(next)} \cup Q
  BY DEF LeftOf
<1>5. LeftOf(buffer, queue) = {buffer.targets[m] : m \in Ahead(buffer)} \cup Q
  BY DEF LeftOf
<1>6. t \in Target
  BY <1>1 DEF BufferType
<1> HIDE DEF Q
<1> QED
  BY <1>2, <1>3, <1>4, <1>5, <1>6

-----------------------------------------------------------------------------
(* Answers *)

\* A target becomes an answer, with the route of its batch.
Giving(b, ok, chunk, rt, left, answers, t, a) ==
    /\ chunk \in ChunkType /\ rt \in Seq(Nat) /\ answers \in Seq(Answer) /\ Answered(b, ok, chunk, rt, left, answers)
    /\ t \in Target /\ t \in left
    /\ a \in Answer /\ a.row = t.row /\ a.ordinal = t.ordinal /\ a.route = rt[t.route]
    /\ a.frame = t.frame /\ a.padding = t.padding

LEMMA Given ==
    ASSUME NEW b, NEW ok, NEW chunk, NEW rt, NEW left, NEW answers, NEW t, NEW a,
           Giving(b, ok, chunk, rt, left, answers, t, a)
    PROVE  /\ Append(answers, a) \in Seq(Answer)
           /\ Answered(b, ok, chunk, rt, left \ {t}, Append(answers, a))
           /\ Items(left \ {t}, Append(answers, a)) \subseteq Items(left, answers)
<1> DEFINE next == Append(answers, a)
           N == Len(answers)
<1>0. /\ chunk \in ChunkType /\ rt \in Seq(Nat) /\ answers \in Seq(Answer) /\ Answered(b, ok, chunk, rt, left, answers)
      /\ t \in Target /\ t \in left
      /\ a \in Answer /\ a.row = t.row /\ a.ordinal = t.ordinal /\ a.route = rt[t.route]
      /\ a.frame = t.frame /\ a.padding = t.padding
  BY DEF Giving
<1>1. t.row \in 1..chunk.position /\ t.route \in 1..Len(rt) /\ rt[t.route] = t.row
      /\ FrameRight(b, chunk.rows[t.row], t.frame, t.padding)
  BY <1>0 DEF Answered
<1>2. t \in Target /\ t.row \in Nat
  BY <1>0 DEF Target
<1>3. /\ a \in Answer /\ a.row = t.row /\ a.ordinal = t.ordinal /\ a.route = t.row
      /\ a.frame = t.frame /\ a.padding = t.padding
  BY <1>0, <1>1
<1>4. /\ next \in Seq(Answer) /\ Len(next) = N + 1 /\ next[N + 1] = a /\ N \in Nat
      /\ \A i \in 1..N : next[i] = answers[i]
  BY <1>0, <1>3
<1> HIDE DEF next, N
<1>5. \A i \in 1..Len(next) : (i \in 1..N /\ next[i] = answers[i]) \/ (i = N + 1 /\ next[i] = a)
  BY <1>0, <1>4
<1>6. chunk.position \in Nat /\ Len(chunk.rows) \in Nat /\ chunk.position <= Len(chunk.rows)
  BY <1>0 DEF ChunkType, Answered
<1>7. \A s \in left \ {t} : /\ s.row \in 1..chunk.position
                            /\ s.route \in 1..Len(rt) /\ rt[s.route] = s.row
                            /\ FrameRight(b, chunk.rows[s.row], s.frame, s.padding)
  BY <1>0 DEF Answered
<1>8. ASSUME NEW i \in 1..Len(next)
      PROVE  /\ next[i].row \in 1..Len(chunk.rows) /\ next[i].route = next[i].row
             /\ chunk.initialized => next[i].row <= chunk.position
             /\ FrameRight(b, chunk.rows[next[i].row], next[i].frame, next[i].padding)
  <2>1. CASE i \in 1..N /\ next[i] = answers[i]
    BY <1>0, <2>1 DEF Answered, N
  <2>2. CASE next[i] = a
    BY <1>0, <1>1, <1>3, <1>6, <2>2
  <2> QED
    BY <1>0, <1>5, <2>1, <2>2
<1>9. \A r, s \in left \ {t} : r.row = s.row => r = s
  BY <1>0 DEF Answered
<1>10. \A i \in 1..N : answers[i].row # t.row
  BY <1>0 DEF Answered, N
<1>11. \A i, k \in 1..Len(next) : next[i].row = next[k].row => i = k
  <2>1. \A i, k \in 1..N : answers[i].row = answers[k].row => i = k
    BY <1>0 DEF Answered, N
  <2>2. SUFFICES ASSUME NEW i \in 1..Len(next), NEW k \in 1..Len(next), next[i].row = next[k].row PROVE i = k
    OBVIOUS
  <2>3. CASE i \in 1..N /\ next[i] = answers[i] /\ k \in 1..N /\ next[k] = answers[k]
    BY <1>0, <2>1, <2>2, <2>3
  <2>4. CASE i = N + 1 /\ next[i] = a /\ k = N + 1 /\ next[k] = a
    BY <1>0, <2>4
  <2>5. CASE i \in 1..N /\ next[i] = answers[i] /\ k = N + 1 /\ next[k] = a
    BY <1>0, <1>3, <1>10, <2>2, <2>5
  <2>6. CASE i = N + 1 /\ next[i] = a /\ k \in 1..N /\ next[k] = answers[k]
    BY <1>0, <1>3, <1>10, <2>2, <2>6
  <2> QED
    BY <1>0, <1>5, <2>3, <2>4, <2>5, <2>6
<1>12. \A s \in left \ {t}, i \in 1..Len(next) : next[i].row # s.row
  <2>1. SUFFICES ASSUME NEW s \in left \ {t}, NEW i \in 1..Len(next) PROVE next[i].row # s.row
    OBVIOUS
  <2>2. CASE i \in 1..N /\ next[i] = answers[i]
    BY <1>0, <2>2 DEF Answered, N
  <2>3. CASE next[i] = a
    BY <1>0, <1>3, <2>3 DEF Answered
  <2> QED
    BY <1>0, <1>5, <2>2, <2>3
<1>13. \A r : /\ (\E s \in left : s.row = r) =>
                    (\E s \in left \ {t} : s.row = r) \/ (\E i \in 1..Len(next) : next[i].row = r)
              /\ (\E i \in 1..N : answers[i].row = r) => \E i \in 1..Len(next) : next[i].row = r
  <2>1. N + 1 \in 1..Len(next) /\ \A i \in 1..N : i \in 1..Len(next)
    BY <1>0, <1>4
  <2> QED
    BY <1>0, <1>3, <1>4, <2>1
<1>14. ok /\ chunk.initialized =>
          \A r \in 1..chunk.position : (\E s \in left \ {t} : s.row = r) \/ (\E i \in 1..Len(next) : next[i].row = r)
  BY <1>0, <1>13 DEF Answered, N
<1>15. ok /\ ~chunk.initialized => \A r \in 1..Len(chunk.rows) : \E i \in 1..Len(next) : next[i].row = r
  BY <1>0, <1>13 DEF Answered, N
<1>16. Answered(b, ok, chunk, rt, left \ {t}, next)
  BY <1>0, <1>6, <1>7, <1>8, <1>9, <1>11, <1>12, <1>14, <1>15 DEF Answered
<1>17. Items(left \ {t}, next) \subseteq Items(left, answers)
  <2>1. SUFFICES ASSUME NEW p \in Items(left \ {t}, next) PROVE p \in Items(left, answers)
    OBVIOUS
  <2>2. CASE \E s \in left \ {t} : p = <<s.row, s.ordinal>>
    BY <1>0, <2>2 DEF Items
  <2>3. CASE \E i \in 1..Len(next) : p = <<next[i].row, next[i].ordinal>>
    <3>1. PICK i \in 1..Len(next) : p = <<next[i].row, next[i].ordinal>>
      BY <1>0, <2>3
    <3>2. CASE i \in 1..N /\ next[i] = answers[i]
      BY <1>0, <3>1, <3>2 DEF Items, N
    <3>3. CASE next[i] = a
      BY <1>0, <1>3, <3>1, <3>3 DEF Items
    <3> QED
      BY <1>0, <1>5, <3>2, <3>3
  <2> QED
    BY <1>0, <2>1, <2>2, <2>3 DEF Items
<1> QED
  BY <1>0, <1>4, <1>16, <1>17 DEF next

\* A thread that fails leaves targets without an answer.
LEMMA GivenUp ==
    ASSUME NEW b, NEW ok, NEW chunk, NEW rt, NEW left, NEW answers, Answered(b, ok, chunk, rt, left, answers),
           NEW rest \in SUBSET left
    PROVE  Answered(b, FALSE, chunk, rt, rest, answers) /\ Items(rest, answers) \subseteq Items(left, answers)
<1>1. Answered(b, FALSE, chunk, rt, rest, answers)
  BY DEF Answered
<1>2. Items(rest, answers) \subseteq Items(left, answers)
  BY DEF Items
<1> QED
  BY <1>1, <1>2

-----------------------------------------------------------------------------
(* Ordinals *)

LEMMA OrdinalsKept ==
    ASSUME OrdinalsUnique, next_target_ordinal \in Nat, next_target_ordinal' \in Nat,
           next_target_ordinal <= next_target_ordinal',
           \A u \in Users : ItemsOf(u)' \subseteq ItemsOf(u)
    PROVE  OrdinalsUnique'
<1>1. \A u \in Users : \A p \in ItemsOf(u)' : p \in ItemsOf(u)
  OBVIOUS
<1> DEFINE I(u) == ItemsOf(u)'
<1>2. \A u \in Users : \A p \in I(u) : p[2] \in 0..(next_target_ordinal' - 1)
  <2>1. SUFFICES ASSUME NEW u \in Users, NEW p \in I(u) PROVE p[2] \in 0..(next_target_ordinal' - 1)
    OBVIOUS
  <2>2. p[2] \in 0..(next_target_ordinal - 1)
    BY <1>1 DEF OrdinalsUnique
  <2> QED
    BY <2>2
<1>3. \A u, v \in Users : \A p \in I(u), q \in I(v) : p[2] = q[2] => u = v /\ p = q
  BY <1>1 DEF OrdinalsUnique
<1> QED
  BY <1>2, <1>3 DEF OrdinalsUnique

\* A batch gets ordinals that nobody has.
LEMMA OrdinalsClaimed ==
    ASSUME OrdinalsUnique, next_target_ordinal \in Nat, NEW count \in Nat,
           next_target_ordinal' = next_target_ordinal + count, NEW u \in Users, NEW new,
           \A v \in Users \ {u} : ItemsOf(v)' \subseteq ItemsOf(v),
           ItemsOf(u)' \subseteq ItemsOf(u) \cup new,
           \A p \in new : p[2] \in next_target_ordinal..(next_target_ordinal + count - 1),
           \A p, q \in new : p[2] = q[2] => p = q
    PROVE  OrdinalsUnique'
<1> DEFINE I(v) == ItemsOf(v)'
<1>1. \A v \in Users : \A p \in I(v) : p \in ItemsOf(v) \/ (v = u /\ p \in new)
  OBVIOUS
<1> HIDE DEF I
<1>2. \A v \in Users : \A p \in I(v) : p[2] \in 0..(next_target_ordinal' - 1)
  <2>1. SUFFICES ASSUME NEW v \in Users, NEW p \in I(v) PROVE p[2] \in 0..(next_target_ordinal' - 1)
    OBVIOUS
  <2>2. p[2] \in 0..(next_target_ordinal - 1) \/ p[2] \in next_target_ordinal..(next_target_ordinal + count - 1)
    BY <1>1 DEF OrdinalsUnique
  <2> QED
    BY <2>2
<1>3. ASSUME NEW v \in Users, NEW w \in Users, NEW p \in I(v), NEW q \in I(w), p[2] = q[2] PROVE v = w /\ p = q
  <2>1. CASE p \in ItemsOf(v) /\ q \in ItemsOf(w)
    BY <1>3, <2>1 DEF OrdinalsUnique
  <2>2. CASE p \in new /\ v = u /\ q \in new /\ w = u
    BY <1>3, <2>2
  <2>3. CASE p \in ItemsOf(v) /\ q \in new
    <3>1. p[2] \in 0..(next_target_ordinal - 1) /\ q[2] \in next_target_ordinal..(next_target_ordinal + count - 1)
      BY <2>3 DEF OrdinalsUnique
    <3> QED
      BY <1>3, <3>1
  <2>4. CASE p \in new /\ q \in ItemsOf(w)
    <3>1. q[2] \in 0..(next_target_ordinal - 1) /\ p[2] \in next_target_ordinal..(next_target_ordinal + count - 1)
      BY <2>4 DEF OrdinalsUnique
    <3> QED
      BY <1>3, <3>1
  <2> QED
    BY <1>1, <2>1, <2>2, <2>3, <2>4
<1> QED
  BY <1>2, <1>3 DEF OrdinalsUnique, I

-----------------------------------------------------------------------------
(* Batches *)

Batching(rows, first_row, first_ordinal, targets) ==
    /\ bind \in Binds /\ Accepted(bind) /\ rows \in Seq(InputRow) /\ first_row \in Nat /\ first_ordinal \in Nat
    /\ \A i \in 1..Len(rows) : RowValid(rows[i])
    /\ targets = BatchTargets(rows, first_row, first_ordinal)

LEMMA Batched ==
    ASSUME NEW rows, NEW first_row, NEW first_ordinal, NEW T, Batching(rows, first_row, first_ordinal, T)
    PROVE  /\ T \in SUBSET Target /\ IsFiniteSet(T) /\ OrdinalsDiffer(T)
           /\ \A t \in T : \E i \in 1..Len(rows) :
                 /\ t.row = first_row + i /\ t.ordinal = first_ordinal + i - 1 /\ t.route = i
                 /\ FrameRight(bind, rows[i], t.frame, t.padding)
           /\ \A i \in 1..Len(rows) : \E t \in T : t.row = first_row + i
<1> DEFINE N == Len(rows)
           Of(i) == [row |-> first_row + i, ordinal |-> first_ordinal + i - 1, route |-> i,
                     shard |-> rows[i].shard, pixels |-> rows[i].pixels,
                     frame |-> Clamp(rows[i]).frame, padding |-> Clamp(rows[i]).padding]
<1>0. /\ bind \in Binds /\ Accepted(bind) /\ rows \in Seq(InputRow) /\ first_row \in Nat /\ first_ordinal \in Nat
      /\ \A i \in 1..Len(rows) : RowValid(rows[i])
      /\ T = BatchTargets(rows, first_row, first_ordinal)
  BY DEF Batching
<1>1. T = {Of(i) : i \in 1..N} /\ N \in Nat
  <2>1. DOMAIN rows = 1..N /\ N \in Nat
    BY <1>0
  <2> QED
    BY <1>0, <2>1 DEF BatchTargets
<1>2. ASSUME NEW i \in 1..N PROVE Of(i) \in Target /\ FrameRight(bind, rows[i], Of(i).frame, Of(i).padding)
  <2>1. rows[i] \in InputRow /\ RowValid(rows[i])
    BY <1>0
  <2>2. FrameRight(bind, rows[i], Clamp(rows[i]).frame, Clamp(rows[i]).padding)
    BY <1>0, <2>1, Clamped
  <2>3. rows[i].shard \in Shards /\ rows[i].pixels \in Nat /\ rows[i].frame \in Int /\ rows[i].length \in Int
    BY <2>1 DEF InputRow
  <2>4. Clamp(rows[i]).frame \in Int /\ Clamp(rows[i]).padding \in BOOLEAN
    <3>1. High \in Nat
      BY Widths
    <3> DEFINE frame == Clamp(rows[i]).frame
               padding == Clamp(rows[i]).padding
    <3> HIDE DEF frame, padding
    <3>2. PICK offset \in -High..(High - 1) :
              /\ padding = ~(rows[i].frame + offset \in 0..(rows[i].length - 1))
              /\ frame = IF rows[i].frame + offset \in 0..(rows[i].length - 1) THEN rows[i].frame + offset
                         ELSE IF rows[i].frame + offset < 0 THEN 0 ELSE rows[i].length - 1
      BY <2>2 DEF FrameRight, frame, padding
    <3>3. frame \in Int
      BY <2>3, <3>1, <3>2
    <3>4. padding \in BOOLEAN
      BY <3>2
    <3> QED
      BY <3>3, <3>4 DEF frame, padding
  <2>5. first_row + i \in Nat /\ first_ordinal + i - 1 \in Nat /\ i \in Nat
    BY <1>0, <1>1
  <2> QED
    BY <2>2, <2>3, <2>4, <2>5 DEF Target
<1>3. \A i \in 1..N : Of(i).row = first_row + i /\ Of(i).ordinal = first_ordinal + i - 1 /\ Of(i).route = i
  OBVIOUS
<1> HIDE DEF Of
<1>4. IsFiniteSet(T)
  <2> DEFINE f == [i \in 1..N |-> Of(i)]
  <2>1. f \in Surjection(1..N, T)
    <3>1. f \in [1..N -> T] /\ \A t \in T : \E i \in 1..N : f[i] = t
      BY <1>1
    <3> HIDE DEF f
    <3> QED
      BY <3>1 DEF Surjection
  <2>2. IsFiniteSet(1..N)
    BY <1>1, FS_Interval
  <2> HIDE DEF f
  <2> QED
    BY <2>1, <2>2, FS_Surjection
<1>5. OrdinalsDiffer(T)
  <2>1. ASSUME NEW s \in T, NEW t \in T, s.ordinal = t.ordinal PROVE s = t
    <3>1. PICK i \in 1..N : s = Of(i)
      BY <1>1
    <3>2. PICK k \in 1..N : t = Of(k)
      BY <1>1
    <3>3. Of(i).ordinal = Of(k).ordinal
      BY <2>1, <3>1, <3>2, Zenon
    <3>4. i = k
      <4>1. first_ordinal + i - 1 = first_ordinal + k - 1
        BY <1>3, <3>3
      <4>2. i \in Nat /\ k \in Nat
        BY <1>1
      <4> QED
        BY <1>0, <4>1, <4>2
    <3> QED
      BY <3>1, <3>2, <3>4
  <2>2. \A t \in T : t.ordinal \in Int /\ t.frame \in Int
    <3>1. \A t \in T : t \in Target
      BY <1>1, <1>2
    <3> QED
      BY <3>1 DEF Target
  <2> QED
    BY <2>1, <2>2 DEF OrdinalsDiffer
<1>6. T \in SUBSET Target
  BY <1>1, <1>2
<1>7. ASSUME NEW t \in T
      PROVE  \E i \in 1..N : /\ t.row = first_row + i /\ t.ordinal = first_ordinal + i - 1 /\ t.route = i
                             /\ FrameRight(bind, rows[i], t.frame, t.padding)
  <2>1. PICK i \in 1..N : t = Of(i)
    BY <1>1
  <2>2. /\ t.row = first_row + i /\ t.ordinal = first_ordinal + i - 1 /\ t.route = i
        /\ FrameRight(bind, rows[i], t.frame, t.padding)
    BY <1>2, <1>3, <2>1
  <2> QED
    BY <2>2
<1>8. ASSUME NEW i \in 1..N PROVE \E t \in T : t.row = first_row + i
  <2>1. Of(i) \in T /\ Of(i).row = first_row + i
    BY <1>1, <1>3
  <2> QED
    BY <2>1
<1> QED
  BY <1>4, <1>5, <1>6, <1>7, <1>8

LEMMA BatchAnswered ==
    ASSUME NEW b, NEW ok, NEW chunk \in ChunkType, NEW rt, NEW answers, Answered(b, ok, chunk, rt, {}, answers),
           chunk.initialized, NEW count \in Nat, chunk.position + count <= Len(chunk.rows),
           NEW next, next = [chunk EXCEPT !.position = @ + count],
           NEW routed, Len(routed) = count, \A i \in 1..count : routed[i] = chunk.position + i,
           NEW T,
           \A t \in T : \E i \in 1..count :
              /\ t.row = chunk.position + i /\ t.route = i
              /\ FrameRight(b, chunk.rows[chunk.position + i], t.frame, t.padding),
           \A s, t \in T : s.row = t.row => s = t,
           ok => \A i \in 1..count : \E t \in T : t.row = chunk.position + i
    PROVE  Answered(b, ok, next, routed, T, answers)
<1>1. /\ next.rows = chunk.rows /\ next.position = chunk.position + count /\ next.initialized
      /\ chunk.position \in Nat /\ Len(chunk.rows) \in Nat
  BY DEF ChunkType
<1>2. \A t \in T : /\ t.row \in 1..next.position
                   /\ t.route \in 1..Len(routed) /\ routed[t.route] = t.row
                   /\ FrameRight(b, next.rows[t.row], t.frame, t.padding)
  <2>1. SUFFICES ASSUME NEW t \in T
                 PROVE  /\ t.row \in 1..next.position /\ t.route \in 1..Len(routed) /\ routed[t.route] = t.row
                        /\ FrameRight(b, next.rows[t.row], t.frame, t.padding)
    OBVIOUS
  <2>2. PICK i \in 1..count : /\ t.row = chunk.position + i /\ t.route = i
                              /\ FrameRight(b, chunk.rows[chunk.position + i], t.frame, t.padding)
    OBVIOUS
  <2>3. chunk.position + i \in 1..(chunk.position + count)
    BY <1>1
  <2> QED
    BY <1>1, <2>2, <2>3
<1>3. \A i \in 1..Len(answers) :
          /\ answers[i].row \in 1..Len(chunk.rows) /\ answers[i].route = answers[i].row
          /\ answers[i].row <= chunk.position
          /\ FrameRight(b, chunk.rows[answers[i].row], answers[i].frame, answers[i].padding)
  BY DEF Answered
<1>4. \A i \in 1..Len(answers) : next.initialized => answers[i].row <= next.position
  BY <1>1, <1>3
<1>5. \A t \in T, i \in 1..Len(answers) : answers[i].row # t.row
  <2>1. SUFFICES ASSUME NEW t \in T, NEW i \in 1..Len(answers), answers[i].row = t.row PROVE FALSE
    OBVIOUS
  <2>2. PICK k \in 1..count : t.row = chunk.position + k
    OBVIOUS
  <2> QED
    BY <1>1, <1>3, <2>1, <2>2
<1>6. ok => \A r \in 1..next.position :
               (\E t \in T : t.row = r) \/ (\E i \in 1..Len(answers) : answers[i].row = r)
  <2>1. SUFFICES ASSUME ok, NEW r \in 1..next.position
                 PROVE  (\E t \in T : t.row = r) \/ (\E i \in 1..Len(answers) : answers[i].row = r)
    OBVIOUS
  <2>2. CASE r <= chunk.position
    <3>1. r \in 1..chunk.position
      BY <1>1, <2>2
    <3> QED
      BY <2>1, <3>1 DEF Answered
  <2>3. CASE r > chunk.position
    <3>1. r - chunk.position \in 1..count /\ chunk.position + (r - chunk.position) = r
      BY <1>1, <2>3
    <3> QED
      BY <2>1, <3>1
  <2> QED
    BY <1>1, <2>2, <2>3
<1>7. next.position <= Len(next.rows)
  BY <1>1
<1>8. \A i, k \in 1..Len(answers) : answers[i].row = answers[k].row => i = k
  BY DEF Answered
<1> QED
  BY <1>1, <1>2, <1>3, <1>4, <1>5, <1>6, <1>7, <1>8 DEF Answered

-----------------------------------------------------------------------------
(* The steps of the cache *)

Woke(u) ==
    \A v \in Users \ {u} : /\ user'[v].shard = user[v].shard
                           /\ user'[v].pc = user[v].pc \/ (user[v].pc = "wait" /\ user'[v].pc = "acquire")

LEMMA CacheStays == ASSUME CacheInv, UNCHANGED cacheVars, NEW u \in Users PROVE CacheInv' /\ Woke(u) /\ user' = user
<1>1. CacheInv'
  BY CacheNextInv
<1> QED
  BY <1>1 DEF Woke, cacheVars

LEMMA AcquireOp ==
    ASSUME CacheInv, NEW u \in Users, Acquire(u)
    PROVE  /\ CacheInv' /\ Woke(u) /\ user'[u].shard = user[u].shard
           /\ user[u].pc \in {"acquire", "evicting", "opening"}
           /\ user'[u].pc \in {"wait", "evicting", "opening", "using"}
<1>1. CacheInv'
  BY CacheNextInv DEF CacheNext
<1>2. PICK pc \in {"wait", "evicting", "opening", "using"} :
           user' = Goto(u, pc) /\ user[u].pc \in {"acquire", "evicting", "opening"}
  BY DEF Acquire, Reuse, TakeSlot, Evict, Wait, CloseEvicted, OpenSucceeds
<1>3. pc \in UserSteps /\ user[u].pc # "idle" /\ CacheTypes
  BY <1>2 DEF UserSteps, CacheInv
<1>4. /\ Goto(u, pc)[u].pc = pc /\ \A v \in Users : Goto(u, pc)[v].shard = user[v].shard
      /\ \A v \in Users \ {u} : Goto(u, pc)[v] = user[v]
  BY <1>3, Gone
<1> QED
  BY <1>1, <1>2, <1>4 DEF Woke

LEMMA CloseOp ==
    ASSUME CacheInv, NEW u \in Users, CloseDiscarded(u)
    PROVE  /\ CacheInv' /\ Woke(u) /\ user'[u].shard = user[u].shard
           /\ user[u].pc = "closing" /\ user'[u].pc = "idle"
<1>1. CacheInv'
  BY CacheNextInv DEF CacheNext
<1>2. user' = Goto(u, "idle") /\ user[u].pc = "closing"
  BY DEF CloseDiscarded
<1>3. "idle" \in UserSteps /\ CacheTypes
  BY DEF UserSteps, CacheInv
<1>4. /\ Goto(u, "idle")[u].pc = "idle" /\ \A v \in Users : Goto(u, "idle")[v].shard = user[v].shard
      /\ \A v \in Users \ {u} : Goto(u, "idle")[v] = user[v]
  BY <1>3, Gone
<1> QED
  BY <1>1, <1>2, <1>4 DEF Woke

LEMMA DropOp ==
    ASSUME CacheInv, NEW u \in Users, Drop(u)
    PROVE  /\ CacheInv' /\ Woke(u) /\ user'[u].shard = user[u].shard
           /\ user[u].pc = "using" /\ user'[u].pc = "dropped"
<1>1. CacheInv'
  BY CacheNextInv DEF CacheNext
<1>2. user' = Goto(u, "dropped") /\ user[u].pc = "using"
  BY DEF Drop
<1>3. "dropped" \in UserSteps /\ user[u].pc # "idle" /\ CacheTypes
  BY <1>2 DEF UserSteps, CacheInv
<1>4. /\ Goto(u, "dropped")[u].pc = "dropped" /\ \A v \in Users : Goto(u, "dropped")[v].shard = user[v].shard
      /\ \A v \in Users \ {u} : Goto(u, "dropped")[v] = user[v]
  BY <1>3, Gone
<1> QED
  BY <1>1, <1>2, <1>4 DEF Woke

LEMMA FreeOp ==
    ASSUME CacheInv, NEW u \in Users, OpenFails(u) \/ Release(u) \/ Discard(u)
    PROVE  /\ CacheInv' /\ Woke(u)
           /\ OpenFails(u) \/ Release(u) => user'[u].pc = "idle"
           /\ user[u].pc \in {"opening", "using"} /\ user'[u].pc \in {"idle", "closing"}
<1>1. CacheInv'
  BY CacheNextInv DEF CacheNext
<1>2. PICK pc \in {"idle", "closing"} : /\ user' = Notified(Goto(u, pc)) /\ user[u].pc \in {"opening", "using"}
                                        /\ OpenFails(u) \/ Release(u) => pc = "idle"
  <2>1. CASE OpenFails(u) \/ Release(u)
    BY <2>1 DEF OpenFails, Release
  <2>2. CASE Discard(u) /\ ~OpenFails(u) /\ ~Release(u)
    BY <2>2 DEF Discard
  <2> QED
    BY <2>1, <2>2
<1>3. pc \in UserSteps \ {"wait"} /\ user[u].pc # "idle" /\ CacheTypes
  BY <1>2 DEF UserSteps, CacheInv
<1>4. /\ Notified(Goto(u, pc))[u].pc = pc
      /\ \A v \in Users : Notified(Goto(u, pc))[v].shard = user[v].shard
      /\ \A v \in Users \ {u} : \/ Notified(Goto(u, pc))[v].pc = user[v].pc
                                \/ user[v].pc = "wait" /\ Notified(Goto(u, pc))[v].pc = "acquire"
  BY <1>3, Woken
<1> QED
  BY <1>1, <1>2, <1>4 DEF Woke

LEMMA StartOp ==
    ASSUME CacheInv, NEW u \in Users, NEW s \in Shards, StartAcquire(u, s)
    PROVE  CacheInv' /\ Woke(u) /\ user'[u].pc = "acquire" /\ user'[u].shard = s
<1>1. CacheInv'
  BY CacheNextInv DEF CacheNext
<1>2. user \in [Users -> [pc : UserSteps, shard : Shards \cup {CHOOSE t \in Shards : TRUE}]]
  BY DEF CacheInv, CacheTypes
<1>3. user' = [user EXCEPT ![u] = [pc |-> "acquire", shard |-> s]]
  BY DEF StartAcquire
<1> QED
  BY <1>1, <1>2, <1>3 DEF Woke

-----------------------------------------------------------------------------
(* A step of a thread *)

OthersStay(u) ==
    /\ bind' = bind /\ needs_decode' = needs_decode
    /\ \A v \in Users \ {u} : /\ thread'[v] = thread[v] /\ input'[v] = input[v] /\ routes'[v] = routes[v]
                              /\ queued'[v] = queued[v] /\ current'[v] = current[v]
                              /\ delivered'[v] = delivered[v]

LEMMA OthersKeep ==
    ASSUME IInv, NEW u \in Users, OthersStay(u), Woke(u), NEW v \in Users \ {u}
    PROVE  ThreadInv(v)' /\ ItemsOf(v)' = ItemsOf(v)
<1>1. /\ thread'[v] = thread[v] /\ input'[v] = input[v] /\ routes'[v] = routes[v]
      /\ queued'[v] = queued[v] /\ current'[v] = current[v] /\ delivered'[v] = delivered[v]
      /\ bind' = bind /\ needs_decode' = needs_decode
  BY DEF OthersStay
<1>2. ThreadInv(v)
  BY DEF IInv
<1>3. /\ user'[v].shard = user[v].shard
      /\ user'[v].pc = user[v].pc \/ (user[v].pc = "wait" /\ user'[v].pc = "acquire")
  BY DEF Woke
<1>4. Doing(bind, needs_decode, thread[v].pc, input[v], queued[v], current[v], user'[v])
  BY <1>2, <1>3 DEF ThreadInv, Doing
<1>5. ThreadInv(v)'
  BY <1>1, <1>2, <1>4 DEF ThreadInv
<1>6. ItemsOf(v)' = ItemsOf(v)
  BY <1>1 DEF ItemsOf
<1> QED
  BY <1>5, <1>6

LEMMA Quiet ==
    ASSUME IInv, NEW u \in Users, OthersStay(u), Woke(u), CacheInv', TargetTypes',
           next_target_ordinal' = next_target_ordinal, ThreadInv(u)', ItemsOf(u)' \subseteq ItemsOf(u)
    PROVE  IInv'
<1>1. \A v \in Users \ {u} : ThreadInv(v)' /\ ItemsOf(v)' = ItemsOf(v)
  BY OthersKeep
<1>2. next_target_ordinal \in Nat /\ OrdinalsUnique
  BY DEF IInv, TargetTypes
<1>3. \A v \in Users : ItemsOf(v)' \subseteq ItemsOf(v)
  BY <1>1
<1>4. OrdinalsUnique'
  <2>1. next_target_ordinal <= next_target_ordinal' /\ next_target_ordinal' \in Nat
    BY <1>2
  <2> QED
    BY <1>2, <1>3, <2>1, OrdinalsKept
<1>5. (\A v \in Users : ThreadInv(v))'
  BY <1>1
<1> QED
  BY <1>4, <1>5 DEF IInv

-----------------------------------------------------------------------------
(* The actions *)

\* What the invariant says of one thread, by name.
LEMMA Unpacked ==
    ASSUME IInv, NEW u \in Users
    PROVE  /\ CacheInv /\ TargetTypes /\ OrdinalsUnique
           /\ thread[u] \in ThreadType /\ input[u] \in ChunkType /\ routes[u] \in Seq(Nat)
           /\ queued[u] \in Seq(Seq(Target)) /\ current[u] \in BufferType /\ delivered[u] \in Seq(Answer)
           /\ InLine(current[u], queued[u])
           /\ Answered(bind, thread[u].pc # "failed", input[u], routes[u], LeftOf(current[u], queued[u]),
                       delivered[u])
           /\ Doing(bind, needs_decode, thread[u].pc, input[u], queued[u], current[u], user[u])
BY DEF IInv, TargetTypes, ThreadInv

\* The other way round.
LEMMA Packed ==
    ASSUME NEW u \in Users, NEW b, b = bind', NEW ok, ok = (thread'[u].pc # "failed"),
           InLine(current'[u], queued'[u]),
           Answered(b, ok, input'[u], routes'[u], LeftOf(current'[u], queued'[u]), delivered'[u]),
           Doing(b, needs_decode', thread'[u].pc, input'[u], queued'[u], current'[u], user'[u])
    PROVE  ThreadInv(u)'
BY DEF ThreadInv

Becomes(u, th, in, rt, queue, buffer, answers) ==
    /\ th \in ThreadType /\ thread' = [thread EXCEPT ![u] = th]
    /\ in \in ChunkType /\ input' = [input EXCEPT ![u] = in]
    /\ rt \in Seq(Nat) /\ routes' = [routes EXCEPT ![u] = rt]
    /\ queue \in Seq(Seq(Target)) /\ queued' = [queued EXCEPT ![u] = queue]
    /\ buffer \in BufferType /\ current' = [current EXCEPT ![u] = buffer]
    /\ answers \in Seq(Answer) /\ delivered' = [delivered EXCEPT ![u] = answers]
    /\ bind' = bind /\ needs_decode' = needs_decode /\ next_target_ordinal' \in Nat

LEMMA Stays ==
    ASSUME TargetTypes, NEW u \in Users, NEW th, NEW in, NEW rt, NEW queue, NEW buffer, NEW answers,
           Becomes(u, th, in, rt, queue, buffer, answers)
    PROVE  /\ TargetTypes' /\ OthersStay(u)
           /\ thread'[u] = th /\ input'[u] = in /\ routes'[u] = rt /\ queued'[u] = queue
           /\ current'[u] = buffer /\ delivered'[u] = answers
           /\ ItemsOf(u)' = Items(LeftOf(buffer, queue), answers)
<1>1. /\ thread'[u] = th /\ input'[u] = in /\ routes'[u] = rt /\ queued'[u] = queue
      /\ current'[u] = buffer /\ delivered'[u] = answers
  BY DEF TargetTypes, Becomes
<1>2. TargetTypes'
  <2>1. thread' \in [Users -> ThreadType] /\ input' \in [Users -> ChunkType]
    BY DEF TargetTypes, Becomes
  <2>2. routes' \in [Users -> Seq(Nat)] /\ queued' \in [Users -> Seq(Seq(Target))]
    BY DEF TargetTypes, Becomes
  <2>3. current' \in [Users -> BufferType] /\ delivered' \in [Users -> Seq(Answer)]
    BY DEF TargetTypes, Becomes
  <2> QED
    BY <2>1, <2>2, <2>3 DEF TargetTypes, Becomes
<1>3. OthersStay(u)
  BY DEF TargetTypes, Becomes, OthersStay
<1>4. ItemsOf(u)' = Items(LeftOf(buffer, queue), answers)
  BY <1>1 DEF ItemsOf
<1> QED
  BY <1>1, <1>2, <1>3, <1>4

\* Nothing of a thread changes.
LEMMA Same ==
    ASSUME TargetTypes, NEW u \in Users
    PROVE  /\ thread = [thread EXCEPT ![u] = thread[u]] /\ input = [input EXCEPT ![u] = input[u]]
           /\ routes = [routes EXCEPT ![u] = routes[u]] /\ queued = [queued EXCEPT ![u] = queued[u]]
           /\ current = [current EXCEPT ![u] = current[u]] /\ delivered = [delivered EXCEPT ![u] = delivered[u]]
BY DEF TargetTypes

LEMMA CallStep == ASSUME IInv, NEW u \in Users, Call(u) PROVE IInv'
<1>1. /\ CacheInv /\ TargetTypes /\ OrdinalsUnique
      /\ thread[u] \in ThreadType /\ input[u] \in ChunkType /\ routes[u] \in Seq(Nat)
      /\ queued[u] \in Seq(Seq(Target)) /\ current[u] \in BufferType /\ delivered[u] \in Seq(Answer)
      /\ InLine(current[u], queued[u])
      /\ Answered(bind, thread[u].pc # "failed", input[u], routes[u], LeftOf(current[u], queued[u]), delivered[u])
      /\ Doing(bind, needs_decode, thread[u].pc, input[u], queued[u], current[u], user[u])
  BY Unpacked
<1> DEFINE th == [pc |-> "loop", count |-> 0, bytes |-> 0]
<1>2. /\ thread[u].pc = "outside" /\ bind.operator = "lerobot_video_targets"
      /\ thread' = [thread EXCEPT ![u] = th]
      /\ bind' = bind /\ needs_decode' = needs_decode /\ next_target_ordinal' = next_target_ordinal
      /\ UNCHANGED cacheVars /\ routes' = routes /\ queued' = queued /\ current' = current
  BY DEF Call
<1>3. th \in ThreadType /\ th.pc = "loop"
  BY DEF ThreadType
<1>4. CacheInv' /\ Woke(u) /\ user' = user
  BY <1>1, <1>2, CacheStays
<1>5. /\ routes' = [routes EXCEPT ![u] = routes[u]] /\ queued' = [queued EXCEPT ![u] = queued[u]]
      /\ current' = [current EXCEPT ![u] = current[u]] /\ next_target_ordinal' \in Nat
  BY <1>1, <1>2, Same DEF TargetTypes
<1> HIDE DEF th
<1>6. CASE input[u].initialized /\ UNCHANGED <<input, delivered>>
  <2>1. input' = [input EXCEPT ![u] = input[u]] /\ delivered' = [delivered EXCEPT ![u] = delivered[u]]
    BY <1>1, <1>6, Same
  <2>2. /\ TargetTypes' /\ OthersStay(u)
        /\ thread'[u] = th /\ input'[u] = input[u] /\ routes'[u] = routes[u] /\ queued'[u] = queued[u]
        /\ current'[u] = current[u] /\ delivered'[u] = delivered[u]
        /\ ItemsOf(u)' = Items(LeftOf(current[u], queued[u]), delivered[u])
    <3>1. Becomes(u, th, input[u], routes[u], queued[u], current[u], delivered[u])
      BY <1>1, <1>2, <1>3, <1>5, <2>1 DEF Becomes
    <3> QED
      BY <1>1, <3>1, Stays
  <2>3. Doing(bind, needs_decode, "loop", input[u], queued[u], current[u], user[u])
    BY <1>1, <1>2, <1>6 DEF Doing
  <2>4. Answered(bind, TRUE, input[u], routes[u], LeftOf(current[u], queued[u]), delivered[u])
    <3>1. (thread[u].pc # "failed") = TRUE
      BY <1>2
    <3> QED
      BY <1>1, <3>1
  <2>5. ThreadInv(u)'
    BY <1>1, <1>2, <1>3, <1>4, <2>2, <2>3, <2>4, Packed
  <2>6. ItemsOf(u)' \subseteq ItemsOf(u)
    BY <2>2 DEF ItemsOf
  <2> QED
    BY <1>2, <1>4, <2>2, <2>5, <2>6, Quiet
<1>7. ASSUME ~input[u].initialized, NEW rows \in Chunks,
             input' = [input EXCEPT ![u] = [rows |-> rows, number |-> @.number + 1,
                                            position |-> 0, initialized |-> TRUE]],
             delivered' = [delivered EXCEPT ![u] = <<>>]
      PROVE  IInv'
  <2> DEFINE in == [rows |-> rows, number |-> input[u].number + 1, position |-> 0, initialized |-> TRUE]
  <2>1. rows \in Seq(InputRow)
    BY InputAssumption
  <2>2. in \in ChunkType /\ in.rows = rows /\ in.position = 0 /\ in.initialized
    BY <1>1, <2>1 DEF ChunkType
  <2>3. input' = [input EXCEPT ![u] = in]
    BY <1>1, <1>7 DEF TargetTypes
  <2> HIDE DEF in
  <2>4. queued[u] = <<>> /\ current[u] = NoBuffer
    BY <1>1, <1>7 DEF Doing
  <2>5. <<>> \in Seq(Answer) /\ Len(<<>>) = 0
    OBVIOUS
  <2>6. /\ TargetTypes' /\ OthersStay(u)
        /\ thread'[u] = th /\ input'[u] = in /\ routes'[u] = routes[u] /\ queued'[u] = queued[u]
        /\ current'[u] = current[u] /\ delivered'[u] = <<>>
        /\ ItemsOf(u)' = Items(LeftOf(current[u], queued[u]), <<>>)
    <3>1. Becomes(u, th, in, routes[u], queued[u], current[u], <<>>)
      BY <1>1, <1>2, <1>3, <1>5, <1>7, <2>2, <2>3, <2>5 DEF Becomes
    <3> QED
      BY <1>1, <3>1, Stays
  <2>7. LeftOf(current[u], queued[u]) = {}
    BY <2>4, NoneAhead DEF LeftOf
  <2>8. Items({}, <<>>) = {}
    BY DEF Items
  <2>9. Answered(bind, TRUE, in, routes[u], {}, <<>>)
    <3>1. 0 <= Len(rows)
      BY <2>1
    <3> QED
      BY <2>2, <3>1 DEF Answered
  <2>10. Doing(bind, needs_decode, "loop", in, queued[u], current[u], user[u])
    BY <1>1, <1>2, <2>2 DEF Doing
  <2>11. ThreadInv(u)'
    BY <1>1, <1>2, <1>3, <1>4, <2>6, <2>7, <2>9, <2>10, Packed
  <2>12. ItemsOf(u)' \subseteq ItemsOf(u)
    BY <2>6, <2>7, <2>8
  <2> QED
    BY <1>2, <1>4, <2>6, <2>11, <2>12, Quiet
<1> QED
  BY <1>6, <1>7 DEF Call

\* A step that claims no ordinals.
LEMMA Moved ==
    ASSUME IInv, NEW u \in Users, NEW th, NEW in, NEW rt, NEW queue, NEW buffer, NEW answers,
           Becomes(u, th, in, rt, queue, buffer, answers), next_target_ordinal' = next_target_ordinal,
           CacheInv', Woke(u), InLine(buffer, queue),
           Answered(bind, th.pc # "failed", in, rt, LeftOf(buffer, queue), answers),
           Doing(bind, needs_decode, th.pc, in, queue, buffer, user'[u]),
           Items(LeftOf(buffer, queue), answers) \subseteq Items(LeftOf(current[u], queued[u]), delivered[u])
    PROVE  IInv'
<1>1. TargetTypes
  BY DEF IInv
<1>2. /\ TargetTypes' /\ OthersStay(u)
      /\ thread'[u] = th /\ input'[u] = in /\ routes'[u] = rt /\ queued'[u] = queue
      /\ current'[u] = buffer /\ delivered'[u] = answers
      /\ ItemsOf(u)' = Items(LeftOf(buffer, queue), answers)
  BY <1>1, Stays
<1>3. bind' = bind /\ needs_decode' = needs_decode
  BY DEF Becomes
<1>4. ThreadInv(u)'
  BY <1>2, <1>3, Packed
<1>5. ItemsOf(u)' \subseteq ItemsOf(u)
  BY <1>2 DEF ItemsOf
<1> QED
  BY <1>2, <1>4, <1>5, Quiet

LEMMA Stepped ==
    ASSUME TargetTypes, NEW u \in Users, NEW pc \in {"outside", "loop", "acquire", "failed", "dropped"}, Step(u, pc),
           NEW th, th = [thread[u] EXCEPT !.pc = pc]
    PROVE  th \in ThreadType /\ th.pc = pc /\ thread' = [thread EXCEPT ![u] = th]
BY DEF TargetTypes, ThreadType, Step

LEMMA Unchanged ==
    ASSUME TargetTypes, NEW u \in Users, UNCHANGED targetVars
    PROVE  Becomes(u, thread[u], input[u], routes[u], queued[u], current[u], delivered[u])
<1>1. /\ thread = [thread EXCEPT ![u] = thread[u]] /\ input = [input EXCEPT ![u] = input[u]]
      /\ routes = [routes EXCEPT ![u] = routes[u]] /\ queued = [queued EXCEPT ![u] = queued[u]]
      /\ current = [current EXCEPT ![u] = current[u]] /\ delivered = [delivered EXCEPT ![u] = delivered[u]]
  BY Same
<1> QED
  BY <1>1 DEF Becomes, TargetTypes, targetVars

\* The cache works for the thread.
LEMMA CacheStep ==
    ASSUME IInv, NEW u \in Users, Acquire(u) \/ CloseDiscarded(u), UNCHANGED targetVars PROVE IInv'
<1>1. /\ CacheInv /\ TargetTypes
      /\ thread[u] \in ThreadType
      /\ InLine(current[u], queued[u])
      /\ Answered(bind, thread[u].pc # "failed", input[u], routes[u], LeftOf(current[u], queued[u]), delivered[u])
      /\ Doing(bind, needs_decode, thread[u].pc, input[u], queued[u], current[u], user[u])
  BY Unpacked
<1>2. Becomes(u, thread[u], input[u], routes[u], queued[u], current[u], delivered[u])
  BY <1>1, Unchanged
<1>3. /\ CacheInv' /\ Woke(u) /\ user'[u].shard = user[u].shard
      /\ \/ /\ user[u].pc \in {"acquire", "evicting", "opening"}
            /\ user'[u].pc \in {"wait", "evicting", "opening", "using"}
         \/ user[u].pc = "closing" /\ user'[u].pc = "idle"
  BY <1>1, AcquireOp, CloseOp
<1>4. thread[u].pc \in {"outside", "loop", "acquire", "failed", "dropped"}
  BY <1>1 DEF ThreadType
<1>5. Doing(bind, needs_decode, thread[u].pc, input[u], queued[u], current[u], user'[u])
  <2>1. CASE user[u].pc = "closing" /\ user'[u].pc = "idle"
    <3>1. thread[u].pc = "failed"
      BY <1>1, <1>4, <2>1 DEF Doing
    <3> QED
      BY <1>1, <1>3, <2>1, <3>1 DEF Doing
  <2>2. CASE /\ user[u].pc \in {"acquire", "evicting", "opening"}
             /\ user'[u].pc \in {"wait", "evicting", "opening", "using"}
    <3>1. thread[u].pc = "acquire"
      BY <1>1, <1>4, <2>2 DEF Doing
    <3> QED
      BY <1>1, <1>3, <2>2, <3>1 DEF Doing
  <2> QED
    BY <1>3, <2>1, <2>2
<1>6. next_target_ordinal' = next_target_ordinal
  BY DEF targetVars
<1> QED
  BY <1>1, <1>2, <1>3, <1>5, <1>6, Moved

LEMMA FailStep == ASSUME IInv, NEW u \in Users, AcquireFails(u) \/ DecodeFails(u) PROVE IInv'
<1>1. /\ CacheInv /\ TargetTypes
      /\ thread[u] \in ThreadType /\ input[u] \in ChunkType /\ routes[u] \in Seq(Nat)
      /\ queued[u] \in Seq(Seq(Target)) /\ current[u] \in BufferType /\ delivered[u] \in Seq(Answer)
      /\ InLine(current[u], queued[u])
      /\ Answered(bind, thread[u].pc # "failed", input[u], routes[u], LeftOf(current[u], queued[u]), delivered[u])
      /\ Doing(bind, needs_decode, thread[u].pc, input[u], queued[u], current[u], user[u])
  BY Unpacked
<1>2. /\ OpenFails(u) \/ Discard(u)
      /\ Step(u, "failed") /\ current' = [current EXCEPT ![u] = NoBuffer]
      /\ bind' = bind /\ needs_decode' = needs_decode /\ next_target_ordinal' = next_target_ordinal
      /\ input' = input /\ routes' = routes /\ queued' = queued /\ delivered' = delivered
  BY DEF AcquireFails, DecodeFails
<1> DEFINE th == [thread[u] EXCEPT !.pc = "failed"]
<1>3. th \in ThreadType /\ th.pc = "failed" /\ thread' = [thread EXCEPT ![u] = th]
  BY <1>1, <1>2, Stepped
<1> HIDE DEF th
<1>4. Becomes(u, th, input[u], routes[u], queued[u], NoBuffer, delivered[u])
  <2>1. /\ input' = [input EXCEPT ![u] = input[u]] /\ routes' = [routes EXCEPT ![u] = routes[u]]
        /\ queued' = [queued EXCEPT ![u] = queued[u]] /\ delivered' = [delivered EXCEPT ![u] = delivered[u]]
        /\ next_target_ordinal' \in Nat
    BY <1>1, <1>2, Same DEF TargetTypes
  <2> QED
    BY <1>1, <1>2, <1>3, <2>1, NoneAhead DEF Becomes
<1>5. CacheInv' /\ Woke(u) /\ user[u].pc \in {"opening", "using"} /\ user'[u].pc \in {"idle", "closing"}
  BY <1>1, <1>2, FreeOp
<1>6. InLine(NoBuffer, queued[u])
  BY <1>1, Advanced, NoneAhead
<1>7. LeftOf(NoBuffer, queued[u]) \subseteq LeftOf(current[u], queued[u])
  BY NoneAhead DEF LeftOf
<1>8. /\ Answered(bind, FALSE, input[u], routes[u], LeftOf(NoBuffer, queued[u]), delivered[u])
      /\ Items(LeftOf(NoBuffer, queued[u]), delivered[u]) \subseteq Items(LeftOf(current[u], queued[u]), delivered[u])
  BY <1>1, <1>7, GivenUp
<1>9. needs_decode
  BY <1>1, <1>5 DEF Doing
<1>10. Doing(bind, needs_decode, "failed", input[u], queued[u], NoBuffer, user'[u])
  BY <1>1, <1>5, <1>9, NoneAhead DEF Doing
<1>11. (th.pc # "failed") = FALSE
  BY <1>3
<1> QED
  BY <1>2, <1>3, <1>4, <1>5, <1>6, <1>8, <1>10, <1>11, Moved

LEMMA BeginStep == ASSUME IInv, NEW u \in Users, Begin(u) PROVE IInv'
<1>1. /\ CacheInv /\ TargetTypes
      /\ thread[u] \in ThreadType /\ input[u] \in ChunkType /\ routes[u] \in Seq(Nat)
      /\ queued[u] \in Seq(Seq(Target)) /\ current[u] \in BufferType /\ delivered[u] \in Seq(Answer)
      /\ InLine(current[u], queued[u])
      /\ Answered(bind, thread[u].pc # "failed", input[u], routes[u], LeftOf(current[u], queued[u]), delivered[u])
      /\ Doing(bind, needs_decode, thread[u].pc, input[u], queued[u], current[u], user[u])
  BY Unpacked
<1>2. /\ thread[u].pc = "acquire" /\ user[u].pc = "using" /\ Step(u, "loop") /\ UNCHANGED cacheVars
      /\ bind' = bind /\ needs_decode' = needs_decode /\ next_target_ordinal' = next_target_ordinal
      /\ input' = input /\ routes' = routes /\ queued' = queued /\ current' = current /\ delivered' = delivered
  BY DEF Begin
<1> DEFINE th == [thread[u] EXCEPT !.pc = "loop"]
<1>3. th \in ThreadType /\ th.pc = "loop" /\ thread' = [thread EXCEPT ![u] = th]
  BY <1>1, <1>2, Stepped
<1> HIDE DEF th
<1>4. Becomes(u, th, input[u], routes[u], queued[u], current[u], delivered[u])
  <2>1. /\ input' = [input EXCEPT ![u] = input[u]] /\ routes' = [routes EXCEPT ![u] = routes[u]]
        /\ queued' = [queued EXCEPT ![u] = queued[u]] /\ current' = [current EXCEPT ![u] = current[u]]
        /\ delivered' = [delivered EXCEPT ![u] = delivered[u]] /\ next_target_ordinal' \in Nat
    BY <1>1, <1>2, Same DEF TargetTypes
  <2> QED
    BY <1>1, <1>2, <1>3, <2>1 DEF Becomes
<1>5. CacheInv' /\ Woke(u) /\ user' = user
  BY <1>1, <1>2, CacheStays
<1>6. Doing(bind, needs_decode, "loop", input[u], queued[u], current[u], user[u])
  BY <1>1, <1>2 DEF Doing
<1>7. (th.pc # "failed") = (thread[u].pc # "failed")
  BY <1>2, <1>3
<1> QED
  BY <1>1, <1>2, <1>3, <1>4, <1>5, <1>6, <1>7, Moved

LEMMA DropStep == ASSUME IInv, NEW u \in Users, DropThread(u) PROVE IInv'
<1>1. /\ CacheInv /\ TargetTypes
      /\ thread[u] \in ThreadType /\ input[u] \in ChunkType /\ routes[u] \in Seq(Nat)
      /\ queued[u] \in Seq(Seq(Target)) /\ current[u] \in BufferType /\ delivered[u] \in Seq(Answer)
      /\ InLine(current[u], queued[u])
      /\ Answered(bind, thread[u].pc # "failed", input[u], routes[u], LeftOf(current[u], queued[u]), delivered[u])
      /\ Doing(bind, needs_decode, thread[u].pc, input[u], queued[u], current[u], user[u])
  BY Unpacked
<1>2. /\ thread[u].pc = "outside" /\ Drop(u) /\ Step(u, "dropped")
      /\ bind' = bind /\ needs_decode' = needs_decode /\ next_target_ordinal' = next_target_ordinal
      /\ input' = input /\ routes' = routes /\ queued' = queued /\ current' = current /\ delivered' = delivered
  BY DEF DropThread
<1> DEFINE th == [thread[u] EXCEPT !.pc = "dropped"]
<1>3. th \in ThreadType /\ th.pc = "dropped" /\ thread' = [thread EXCEPT ![u] = th]
  BY <1>1, <1>2, Stepped
<1> HIDE DEF th
<1>4. Becomes(u, th, input[u], routes[u], queued[u], current[u], delivered[u])
  <2>1. /\ input' = [input EXCEPT ![u] = input[u]] /\ routes' = [routes EXCEPT ![u] = routes[u]]
        /\ queued' = [queued EXCEPT ![u] = queued[u]] /\ current' = [current EXCEPT ![u] = current[u]]
        /\ delivered' = [delivered EXCEPT ![u] = delivered[u]] /\ next_target_ordinal' \in Nat
    BY <1>1, <1>2, Same DEF TargetTypes
  <2> QED
    BY <1>1, <1>2, <1>3, <2>1 DEF Becomes
<1>5. CacheInv' /\ Woke(u) /\ user[u].pc = "using" /\ user'[u].pc = "dropped" /\ user'[u].shard = user[u].shard
  BY <1>1, <1>2, DropOp
<1>6. needs_decode /\ current[u].targets # <<>> /\ input[u].initialized
  BY <1>1, <1>2, <1>5, NoneAhead DEF Doing
<1>7. Doing(bind, needs_decode, "dropped", input[u], queued[u], current[u], user'[u])
  BY <1>1, <1>2, <1>5, <1>6 DEF Doing
<1>8. (th.pc # "failed") = (thread[u].pc # "failed")
  BY <1>2, <1>3
<1> QED
  BY <1>1, <1>2, <1>3, <1>4, <1>5, <1>7, <1>8, Moved

LEMMA TakeBufferStep == ASSUME IInv, NEW u \in Users, TakeBuffer(u) PROVE IInv'
<1>1. /\ CacheInv /\ TargetTypes
      /\ thread[u] \in ThreadType /\ input[u] \in ChunkType /\ routes[u] \in Seq(Nat)
      /\ queued[u] \in Seq(Seq(Target)) /\ current[u] \in BufferType /\ delivered[u] \in Seq(Answer)
      /\ InLine(current[u], queued[u])
      /\ Answered(bind, thread[u].pc # "failed", input[u], routes[u], LeftOf(current[u], queued[u]), delivered[u])
      /\ Doing(bind, needs_decode, thread[u].pc, input[u], queued[u], current[u], user[u])
  BY Unpacked
<1> DEFINE buffer == [NoBuffer EXCEPT !.targets = Head(queued[u])]
           queue == Tail(queued[u])
<1>2. /\ thread[u].pc = "loop" /\ current[u].targets = <<>> /\ queued[u] # <<>>
      /\ current' = [current EXCEPT ![u] = buffer] /\ queued' = [queued EXCEPT ![u] = queue]
      /\ IF needs_decode
         THEN Step(u, "acquire") /\ StartAcquire(u, Head(queued[u])[1].shard)
         ELSE thread' = thread /\ UNCHANGED cacheVars
      /\ bind' = bind /\ needs_decode' = needs_decode /\ next_target_ordinal' = next_target_ordinal
      /\ input' = input /\ routes' = routes /\ delivered' = delivered
  BY <1>1 DEF TakeBuffer, InLoop, HasBuffer, TargetTypes
<1>0. buffer = [NoBuffer EXCEPT !.targets = Head(queued[u])] /\ queue = Tail(queued[u])
  OBVIOUS
<1> HIDE DEF buffer, queue
<1>3. /\ buffer \in BufferType /\ buffer.targets = queued[u][1] /\ buffer.position = 0 /\ ~buffer.have_decoded
      /\ buffer.targets # <<>> /\ buffer.targets[1] \in Target
      /\ queue \in Seq(Seq(Target)) /\ InLine(buffer, queue)
      /\ LeftOf(buffer, queue) = LeftOf(current[u], queued[u])
  <2>0. /\ current[u] \in BufferType /\ queued[u] \in Seq(Seq(Target)) /\ InLine(current[u], queued[u])
        /\ current[u].targets = <<>> /\ queued[u] # <<>>
    BY <1>1, <1>2
  <2>1. /\ buffer \in BufferType /\ buffer.targets = Head(queued[u]) /\ buffer.position = 0
        /\ ~buffer.have_decoded
    <3>1. Head(queued[u]) \in Seq(Target)
      BY <2>0
    <3> QED
      BY <1>0, <3>1 DEF NoBuffer, BufferType
  <2>2. /\ buffer.targets = queued[u][1] /\ buffer.targets # <<>> /\ buffer.targets[1] \in Target
        /\ Tail(queued[u]) \in Seq(Seq(Target)) /\ InLine(buffer, Tail(queued[u]))
        /\ LeftOf(buffer, Tail(queued[u])) = LeftOf(current[u], queued[u])
    BY <2>0, <2>1, Taken
  <2> QED
    BY <1>0, <2>1, <2>2
<1>4. Head(queued[u]) = buffer.targets
  BY <1>1, <1>2, <1>3
<1>5. ASSUME NEW th \in ThreadType, thread' = [thread EXCEPT ![u] = th]
      PROVE  Becomes(u, th, input[u], routes[u], queue, buffer, delivered[u])
  <2>1. /\ input' = [input EXCEPT ![u] = input[u]] /\ routes' = [routes EXCEPT ![u] = routes[u]]
        /\ delivered' = [delivered EXCEPT ![u] = delivered[u]] /\ next_target_ordinal' \in Nat
    BY <1>1, <1>2, Same DEF TargetTypes
  <2> QED
    BY <1>1, <1>2, <1>3, <1>5, <2>1 DEF Becomes
<1>6. input[u].initialized
  BY <1>1, <1>2 DEF Doing
<1>7. CASE needs_decode
  <2> DEFINE th == [thread[u] EXCEPT !.pc = "acquire"]
  <2>1. th \in ThreadType /\ th.pc = "acquire" /\ thread' = [thread EXCEPT ![u] = th]
    BY <1>1, <1>2, <1>7, Stepped
  <2> HIDE DEF th
  <2>2. buffer.targets[1].shard \in Shards /\ StartAcquire(u, buffer.targets[1].shard)
    BY <1>2, <1>3, <1>4, <1>7 DEF Target
  <2>3. CacheInv' /\ Woke(u) /\ user'[u].pc = "acquire" /\ user'[u].shard = buffer.targets[1].shard
    BY <1>1, <2>2, StartOp
  <2>4. Doing(bind, needs_decode, "acquire", input[u], queue, buffer, user'[u])
    BY <1>1, <1>2, <1>3, <1>6, <1>7, <2>3 DEF Doing
  <2>5. (th.pc # "failed") = (thread[u].pc # "failed")
    BY <1>2, <2>1
  <2>6. Becomes(u, th, input[u], routes[u], queue, buffer, delivered[u])
    BY <1>5, <2>1
  <2> QED
    BY <1>1, <1>2, <1>3, <2>1, <2>3, <2>4, <2>5, <2>6, Moved
<1>8. CASE ~needs_decode
  <2>1. thread' = [thread EXCEPT ![u] = thread[u]]
    BY <1>1, <1>2, <1>8, Same
  <2>2. CacheInv' /\ Woke(u) /\ user' = user
    BY <1>1, <1>2, <1>8, CacheStays
  <2>3. 0 < Len(buffer.targets)
    BY <1>3 DEF BufferType
  <2>4. Doing(bind, needs_decode, thread[u].pc, input[u], queue, buffer, user'[u])
    BY <1>1, <1>2, <1>3, <1>6, <1>8, <2>2, <2>3 DEF Doing
  <2>5. Becomes(u, thread[u], input[u], routes[u], queue, buffer, delivered[u])
    BY <1>1, <1>5, <2>1
  <2> QED
    BY <1>1, <1>2, <1>3, <2>2, <2>4, <2>5, Moved
<1> QED
  BY <1>7, <1>8

LEMMA LeftTyped ==
    ASSUME NEW buffer \in BufferType, NEW queue \in Seq(Seq(Target)) PROVE LeftOf(buffer, queue) \in SUBSET Target
<1>1. \A n \in Ahead(buffer) : buffer.targets[n] \in Target
  <2>1. \A n \in Ahead(buffer) : n \in 1..Len(buffer.targets)
    BY DEF Ahead
  <2>2. buffer.targets \in Seq(Target)
    BY DEF BufferType
  <2> QED
    BY <2>1, <2>2
<1>2. \A k \in 1..Len(queue) : queue[k] \in Seq(Target)
  OBVIOUS
<1>3. \A k \in 1..Len(queue) : \A n \in 1..Len(queue[k]) : queue[k][n] \in Target
  BY <1>2
<1> QED
  BY <1>1, <1>3 DEF LeftOf

LEMMA Counted ==
    ASSUME NEW th \in ThreadType, NEW bytes \in Nat,
           NEW next, next = [th EXCEPT !.count = @ + 1, !.bytes = @ + bytes]
    PROVE  next \in ThreadType /\ next.pc = th.pc
<1> DEFINE counted == [th EXCEPT !.count = th.count + 1]
<1>1. counted \in ThreadType /\ counted.pc = th.pc
  BY DEF ThreadType
<1>2. next = [counted EXCEPT !.bytes = counted.bytes + bytes]
  OBVIOUS
<1> HIDE DEF counted
<1> QED
  BY <1>1, <1>2 DEF ThreadType

\* A row is written, and its target is not left any more.
LEMMA Wrote ==
    ASSUME IInv, NEW u \in Users, NEW t, Write(u, t), thread[u].pc = "loop", UNCHANGED cacheVars,
           bind' = bind, needs_decode' = needs_decode, next_target_ordinal' = next_target_ordinal,
           input' = input, routes' = routes, queued' = queued,
           NEW buffer \in BufferType, current' = [current EXCEPT ![u] = buffer], InLine(buffer, queued[u]),
           t \in LeftOf(current[u], queued[u]),
           LeftOf(buffer, queued[u]) = LeftOf(current[u], queued[u]) \ {t},
           Doing(bind, needs_decode, "loop", input[u], queued[u], buffer, user[u])
    PROVE  IInv'
<1>1. /\ CacheInv /\ TargetTypes
      /\ thread[u] \in ThreadType /\ input[u] \in ChunkType /\ routes[u] \in Seq(Nat)
      /\ queued[u] \in Seq(Seq(Target)) /\ current[u] \in BufferType /\ delivered[u] \in Seq(Answer)
      /\ Answered(bind, thread[u].pc # "failed", input[u], routes[u], LeftOf(current[u], queued[u]), delivered[u])
  BY Unpacked
<1>2. t \in Target /\ PixelBytes(t) \in Nat
  <2>1. t \in Target
    BY <1>1, LeftTyped
  <2> QED
    BY <2>1 DEF PixelBytes, Target
<1> DEFINE a == [row |-> t.row, ordinal |-> t.ordinal, route |-> routes[u][t.route],
                 frame |-> t.frame, padding |-> t.padding]
           th == [thread[u] EXCEPT !.count = @ + 1, !.bytes = @ + PixelBytes(t)]
           answers == Append(delivered[u], a)
<1>3. th \in ThreadType /\ th.pc = "loop" /\ thread' = [thread EXCEPT ![u] = th]
  <2>1. th = [thread[u] EXCEPT !.count = @ + 1, !.bytes = @ + PixelBytes(t)]
    OBVIOUS
  <2>2. thread' = [thread EXCEPT ![u] = th]
    BY <1>1 DEF Write, TargetTypes
  <2> HIDE DEF th
  <2> QED
    BY <1>1, <1>2, <2>1, <2>2, Counted
<1>4. delivered' = [delivered EXCEPT ![u] = answers]
  BY <1>1 DEF Write, TargetTypes
<1>5. /\ a \in Answer /\ a.row = t.row /\ a.ordinal = t.ordinal /\ a.route = routes[u][t.route]
      /\ a.frame = t.frame /\ a.padding = t.padding
  <2>1. t.route \in 1..Len(routes[u])
    BY <1>1 DEF Answered
  <2>2. routes[u][t.route] \in Nat
    BY <1>1, <2>1
  <2> QED
    BY <1>2, <2>2 DEF Answer, Target
<1> HIDE DEF a, th
<1>6. /\ answers \in Seq(Answer)
      /\ Answered(bind, thread[u].pc # "failed", input[u], routes[u], LeftOf(current[u], queued[u]) \ {t}, answers)
      /\ Items(LeftOf(current[u], queued[u]) \ {t}, answers) \subseteq
            Items(LeftOf(current[u], queued[u]), delivered[u])
  <2>1. LeftOf(current[u], queued[u]) \in SUBSET Target
    BY <1>1, LeftTyped
  <2>2. /\ input[u] \in ChunkType /\ routes[u] \in Seq(Nat) /\ delivered[u] \in Seq(Answer)
        /\ Answered(bind, thread[u].pc # "failed", input[u], routes[u], LeftOf(current[u], queued[u]), delivered[u])
        /\ t \in LeftOf(current[u], queued[u])
    BY <1>1
  <2> QED
    <3>1. Giving(bind, thread[u].pc # "failed", input[u], routes[u], LeftOf(current[u], queued[u]), delivered[u], t, a)
      BY <1>2, <1>5, <2>2 DEF Giving
    <3> QED
      BY <3>1, Given
<1> HIDE DEF answers
<1>7. Becomes(u, th, input[u], routes[u], queued[u], buffer, answers)
  <2>1. /\ input' = [input EXCEPT ![u] = input[u]] /\ routes' = [routes EXCEPT ![u] = routes[u]]
        /\ queued' = [queued EXCEPT ![u] = queued[u]] /\ next_target_ordinal' \in Nat
    BY <1>1, Same DEF TargetTypes
  <2> QED
    BY <1>1, <1>3, <1>4, <1>6, <2>1 DEF Becomes
<1>8. CacheInv' /\ Woke(u) /\ user' = user
  BY <1>1, CacheStays
<1>9. (th.pc # "failed") = (thread[u].pc # "failed")
  BY <1>3
<1> QED
  BY <1>3, <1>6, <1>7, <1>8, <1>9, Moved

LEMMA WriteRowStep == ASSUME IInv, NEW u \in Users, WriteRow(u) PROVE IInv'
<1>1. /\ CacheInv /\ TargetTypes
      /\ thread[u] \in ThreadType /\ queued[u] \in Seq(Seq(Target)) /\ current[u] \in BufferType
      /\ InLine(current[u], queued[u])
      /\ Doing(bind, needs_decode, thread[u].pc, input[u], queued[u], current[u], user[u])
  BY Unpacked
<1> DEFINE n == current[u].position + 1
           t == current[u].targets[n]
           buffer == IF n = Len(current[u].targets) THEN NoBuffer ELSE [current[u] EXCEPT !.position = @ + 1]
<1>2. /\ ~needs_decode /\ thread[u].pc = "loop" /\ current[u].targets # <<>>
      /\ Write(u, t) /\ current' = [current EXCEPT ![u] = buffer]
      /\ bind' = bind /\ needs_decode' = needs_decode /\ next_target_ordinal' = next_target_ordinal
      /\ input' = input /\ routes' = routes /\ queued' = queued /\ UNCHANGED cacheVars
  BY DEF WriteRow, InLoop, HasBuffer
<1>3. /\ ~current[u].have_decoded /\ current[u].position < Len(current[u].targets)
      /\ current[u].position \in Nat /\ Len(current[u].targets) \in Nat /\ current[u].targets \in Seq(Target)
      /\ input[u].initialized /\ user[u].pc = "idle"
  BY <1>1, <1>2 DEF Doing, BufferType
<1>4. n \in Ahead(current[u])
  BY <1>3 DEF Ahead
<1>5. /\ buffer \in BufferType /\ Ahead(buffer) = Ahead(current[u]) \ {n}
      /\ \A m \in Ahead(buffer) : buffer.targets[m] = current[u].targets[m]
      /\ \/ buffer = NoBuffer
         \/ /\ buffer.targets = current[u].targets /\ buffer.position = n /\ n < Len(current[u].targets)
            /\ ~buffer.have_decoded
  <2>1. CASE n = Len(current[u].targets)
    <3>1. Ahead(current[u]) \ {n} = {}
      BY <1>3, <2>1 DEF Ahead
    <3> QED
      BY <2>1, <3>1, NoneAhead
  <2>2. CASE n # Len(current[u].targets)
    <3>1. /\ buffer \in BufferType /\ buffer.targets = current[u].targets /\ buffer.position = n
          /\ ~buffer.have_decoded
      BY <1>1, <1>3, <2>2 DEF BufferType
    <3> HIDE DEF buffer
    <3>2. Ahead(buffer) = Ahead(current[u]) \ {n}
      BY <1>3, <3>1 DEF Ahead
    <3> QED
      BY <1>3, <2>2, <3>1, <3>2
  <2> QED
    BY <2>1, <2>2
<1>6. buffer \in BufferType /\ current' = [current EXCEPT ![u] = buffer]
  BY <1>2, <1>5
<1> HIDE DEF buffer, n
<1>7. /\ t \in LeftOf(current[u], queued[u]) /\ LeftOf(buffer, queued[u]) = LeftOf(current[u], queued[u]) \ {t}
  <2>2. current[u] \in BufferType /\ queued[u] \in Seq(Seq(Target)) /\ InLine(current[u], queued[u])
    BY <1>1
  <2> QED
    BY <1>4, <1>5, <2>2, OneLess
<1>8. InLine(buffer, queued[u])
  <2>1. n <= Len(current[u].targets)
    BY <1>3 DEF n
  <2> QED
    BY <1>1, <1>2, <1>5, <2>1, Advanced
<1>9. Doing(bind, needs_decode, "loop", input[u], queued[u], buffer, user[u])
  BY <1>1, <1>2, <1>3, <1>5, NoneAhead DEF Doing
<1> HIDE DEF t
<1> QED
  BY <1>2, <1>6, <1>7, <1>8, <1>9, Wrote

LEMMA WriteFrameStep == ASSUME IInv, NEW u \in Users, WriteFrame(u) PROVE IInv'
<1>1. /\ CacheInv /\ TargetTypes
      /\ thread[u] \in ThreadType /\ queued[u] \in Seq(Seq(Target)) /\ current[u] \in BufferType
      /\ InLine(current[u], queued[u])
      /\ Doing(bind, needs_decode, thread[u].pc, input[u], queued[u], current[u], user[u])
  BY Unpacked
<1> DEFINE n == current[u].position
           t == current[u].targets[n]
           buffer == [current[u] EXCEPT !.have_decoded = FALSE]
<1>2. /\ needs_decode /\ thread[u].pc = "loop" /\ current[u].have_decoded
      /\ Write(u, t) /\ current' = [current EXCEPT ![u] = buffer]
      /\ bind' = bind /\ needs_decode' = needs_decode /\ next_target_ordinal' = next_target_ordinal
      /\ input' = input /\ routes' = routes /\ queued' = queued /\ UNCHANGED cacheVars
  BY <1>1 DEF WriteFrame, InLoop, Decoded, TargetTypes
<1>3. /\ current[u].targets # <<>> /\ n \in 1..Len(current[u].targets)
      /\ input[u].initialized /\ current[u].targets \in Seq(Target)
  BY <1>1, <1>2, NoneAhead DEF Doing, BufferType, InLine
<1>4. n \in Ahead(current[u])
  BY <1>2, <1>3 DEF Ahead
<1>5. /\ buffer \in BufferType /\ buffer.targets = current[u].targets /\ buffer.position = n
      /\ ~buffer.have_decoded
  BY <1>1 DEF BufferType
<1> HIDE DEF buffer, n
<1>6. Ahead(buffer) = Ahead(current[u]) \ {n}
  BY <1>3, <1>5 DEF Ahead, n
<1>7. /\ t \in LeftOf(current[u], queued[u]) /\ LeftOf(buffer, queued[u]) = LeftOf(current[u], queued[u]) \ {t}
  <2>2. current[u] \in BufferType /\ queued[u] \in Seq(Seq(Target)) /\ InLine(current[u], queued[u])
    BY <1>1
  <2> QED
    BY <1>4, <1>5, <1>6, <2>2, OneLess
<1>8. InLine(buffer, queued[u])
  BY <1>1, <1>3, <1>5, Advanced
<1>9. Doing(bind, needs_decode, "loop", input[u], queued[u], buffer, user[u])
  BY <1>1, <1>2, <1>3, <1>5 DEF Doing
<1> HIDE DEF t
<1> QED
  BY <1>2, <1>5, <1>7, <1>8, <1>9, Wrote


LEMMA Decoding ==
    ASSUME NEW buffer \in BufferType, NEW next, next = [buffer EXCEPT !.position = @ + 1, !.have_decoded = TRUE]
    PROVE  /\ next \in BufferType /\ next.targets = buffer.targets /\ next.position = buffer.position + 1
           /\ next.have_decoded
<1> DEFINE moved == [buffer EXCEPT !.position = buffer.position + 1]
<1>1. moved \in BufferType /\ moved.targets = buffer.targets /\ moved.position = buffer.position + 1
  BY DEF BufferType
<1>2. next = [moved EXCEPT !.have_decoded = TRUE]
  OBVIOUS
<1> HIDE DEF moved
<1> QED
  BY <1>1, <1>2 DEF BufferType

LEMMA DecodeStep == ASSUME IInv, NEW u \in Users, Decode(u) PROVE IInv'
<1>1. /\ CacheInv /\ TargetTypes
      /\ thread[u] \in ThreadType /\ input[u] \in ChunkType /\ routes[u] \in Seq(Nat)
      /\ queued[u] \in Seq(Seq(Target)) /\ current[u] \in BufferType /\ delivered[u] \in Seq(Answer)
      /\ InLine(current[u], queued[u])
      /\ Answered(bind, thread[u].pc # "failed", input[u], routes[u], LeftOf(current[u], queued[u]), delivered[u])
      /\ Doing(bind, needs_decode, thread[u].pc, input[u], queued[u], current[u], user[u])
  BY Unpacked
<1> DEFINE position == current[u].position + 1
           buffer == [current[u] EXCEPT !.position = @ + 1, !.have_decoded = TRUE]
<1>2. /\ needs_decode /\ thread[u].pc = "loop" /\ current[u].targets # <<>> /\ ~current[u].have_decoded
      /\ current[u].position < Len(current[u].targets)
      /\ UNCHANGED cacheVars /\ thread' = thread
      /\ bind' = bind /\ needs_decode' = needs_decode /\ next_target_ordinal' = next_target_ordinal
      /\ input' = input /\ routes' = routes /\ queued' = queued /\ delivered' = delivered
  BY DEF Decode, InLoop, HasBuffer
<1>3. buffer = [current[u] EXCEPT !.position = @ + 1, !.have_decoded = TRUE]
  OBVIOUS
<1>4. current' = [current EXCEPT ![u] = buffer]
  BY <1>1 DEF Decode, TargetTypes
<1> HIDE DEF buffer
<1>5. /\ buffer \in BufferType /\ buffer.targets = current[u].targets /\ buffer.position = position
       /\ buffer.have_decoded
  BY <1>1, <1>3, Decoding
<1>6. /\ position \in 1..Len(current[u].targets)
       /\ current[u].position \in Nat /\ Len(current[u].targets) \in Nat
  BY <1>1, <1>2 DEF BufferType
<1>7. Ahead(buffer) = Ahead(current[u])
  BY <1>2, <1>5, <1>6 DEF Ahead, position
<1> HIDE DEF position
<1>8. LeftOf(buffer, queued[u]) = LeftOf(current[u], queued[u])
  <2>1. {buffer.targets[n] : n \in Ahead(buffer)} = {current[u].targets[n] : n \in Ahead(current[u])}
    BY <1>5, <1>6, <1>7
  <2> QED
    BY <2>1, SameLeft
<1>9. InLine(buffer, queued[u])
  <2>1. buffer.targets # <<>> /\ buffer.position <= Len(buffer.targets) /\ buffer.position >= 1
    BY <1>2, <1>5, <1>6
  <2> QED
    BY <1>1, <1>5, <1>6, <2>1, Advanced
<1>10. Becomes(u, thread[u], input[u], routes[u], queued[u], buffer, delivered[u])
  <2>1. /\ thread' = [thread EXCEPT ![u] = thread[u]]
        /\ input' = [input EXCEPT ![u] = input[u]] /\ routes' = [routes EXCEPT ![u] = routes[u]]
        /\ queued' = [queued EXCEPT ![u] = queued[u]] /\ delivered' = [delivered EXCEPT ![u] = delivered[u]]
        /\ next_target_ordinal' \in Nat
    BY <1>1, <1>2, Same DEF TargetTypes
  <2> QED
    BY <1>1, <1>2, <1>5, <1>6, <1>4, <2>1 DEF Becomes
<1>11. CacheInv' /\ Woke(u) /\ user' = user
  BY <1>1, <1>2, CacheStays
<1>12. Doing(bind, needs_decode, "loop", input[u], queued[u], buffer, user[u])
  BY <1>1, <1>2, <1>5, <1>6, NoneAhead DEF Doing
<1> QED
  BY <1>1, <1>2, <1>8, <1>9, <1>10, <1>11, <1>12, Moved

LEMMA BufferDoneStep == ASSUME IInv, NEW u \in Users, BufferDone(u) PROVE IInv'
<1>1. /\ CacheInv /\ TargetTypes
      /\ thread[u] \in ThreadType /\ input[u] \in ChunkType /\ routes[u] \in Seq(Nat)
      /\ queued[u] \in Seq(Seq(Target)) /\ current[u] \in BufferType /\ delivered[u] \in Seq(Answer)
      /\ InLine(current[u], queued[u])
      /\ Answered(bind, thread[u].pc # "failed", input[u], routes[u], LeftOf(current[u], queued[u]), delivered[u])
      /\ Doing(bind, needs_decode, thread[u].pc, input[u], queued[u], current[u], user[u])
  BY Unpacked
<1>2. /\ thread[u].pc = "loop" /\ current[u].targets # <<>> /\ ~current[u].have_decoded
      /\ current[u].position = Len(current[u].targets)
      /\ Release(u) /\ current' = [current EXCEPT ![u] = NoBuffer] /\ thread' = thread
      /\ bind' = bind /\ needs_decode' = needs_decode /\ next_target_ordinal' = next_target_ordinal
      /\ input' = input /\ routes' = routes /\ queued' = queued /\ delivered' = delivered
  BY DEF BufferDone, InLoop, HasBuffer
<1>3. LeftOf(NoBuffer, queued[u]) = LeftOf(current[u], queued[u])
  <2>1. Ahead(current[u]) = {}
    BY <1>1, <1>2 DEF Ahead, BufferType
  <2>2. {NoBuffer.targets[n] : n \in Ahead(NoBuffer)} = {current[u].targets[n] : n \in Ahead(current[u])}
    BY <2>1, NoneAhead
  <2> QED
    BY <2>2, SameLeft
<1>4. InLine(NoBuffer, queued[u])
  BY <1>1, Advanced, NoneAhead
<1>5. Becomes(u, thread[u], input[u], routes[u], queued[u], NoBuffer, delivered[u])
  <2>1. /\ thread' = [thread EXCEPT ![u] = thread[u]]
        /\ input' = [input EXCEPT ![u] = input[u]] /\ routes' = [routes EXCEPT ![u] = routes[u]]
        /\ queued' = [queued EXCEPT ![u] = queued[u]] /\ delivered' = [delivered EXCEPT ![u] = delivered[u]]
        /\ next_target_ordinal' \in Nat
    BY <1>1, <1>2, Same DEF TargetTypes
  <2> QED
    BY <1>1, <1>2, <2>1, NoneAhead DEF Becomes
<1>6. CacheInv' /\ Woke(u) /\ user'[u].pc = "idle"
  BY <1>1, <1>2, FreeOp
<1>7. Doing(bind, needs_decode, "loop", input[u], queued[u], NoBuffer, user'[u])
  BY <1>1, <1>2, <1>6, NoneAhead DEF Doing
<1> QED
  BY <1>1, <1>2, <1>3, <1>4, <1>5, <1>6, <1>7, Moved

\* A chunk is finished: every row of it has its answer.
LEMMA Finished ==
    ASSUME NEW b, NEW chunk \in ChunkType, NEW rt, NEW answers, Answered(b, TRUE, chunk, rt, {}, answers),
           chunk.initialized, chunk.position >= Len(chunk.rows),
           NEW next, next = [chunk EXCEPT !.position = 0, !.initialized = FALSE], NEW none
    PROVE  next \in ChunkType /\ ~next.initialized /\ Answered(b, TRUE, next, none, {}, answers)
<1>0. next \in ChunkType /\ next.rows = chunk.rows /\ next.position = 0 /\ ~next.initialized
  <2> DEFINE reset == [chunk EXCEPT !.position = 0]
  <2>1. reset \in ChunkType /\ reset.rows = chunk.rows /\ reset.position = 0
    BY DEF ChunkType
  <2>2. next = [reset EXCEPT !.initialized = FALSE]
    OBVIOUS
  <2> HIDE DEF reset
  <2> QED
    BY <2>1, <2>2 DEF ChunkType
<1>1. chunk.position \in Nat /\ Len(chunk.rows) \in Nat
  BY DEF ChunkType
<1>2. chunk.position = Len(chunk.rows)
  BY <1>1 DEF Answered
<1>3. \A r \in 1..Len(next.rows) : \E i \in 1..Len(answers) : answers[i].row = r
  BY <1>0, <1>2 DEF Answered
<1>4. \A i \in 1..Len(answers) :
          /\ answers[i].row \in 1..Len(next.rows) /\ answers[i].route = answers[i].row
          /\ FrameRight(b, next.rows[answers[i].row], answers[i].frame, answers[i].padding)
  BY <1>0 DEF Answered
<1>5. \A i, k \in 1..Len(answers) : answers[i].row = answers[k].row => i = k
  BY DEF Answered
<1> QED
  BY <1>0, <1>1, <1>3, <1>4, <1>5 DEF Answered

LEMMA ReturnStep == ASSUME IInv, NEW u \in Users, Return(u) PROVE IInv'
<1>1. /\ CacheInv /\ TargetTypes
      /\ thread[u] \in ThreadType /\ input[u] \in ChunkType /\ routes[u] \in Seq(Nat)
      /\ queued[u] \in Seq(Seq(Target)) /\ current[u] \in BufferType /\ delivered[u] \in Seq(Answer)
      /\ InLine(current[u], queued[u])
      /\ Answered(bind, thread[u].pc # "failed", input[u], routes[u], LeftOf(current[u], queued[u]), delivered[u])
      /\ Doing(bind, needs_decode, thread[u].pc, input[u], queued[u], current[u], user[u])
  BY Unpacked
<1>2. /\ thread[u].pc = "loop" /\ Step(u, "outside") /\ UNCHANGED cacheVars
      /\ bind' = bind /\ needs_decode' = needs_decode /\ next_target_ordinal' = next_target_ordinal
      /\ delivered' = delivered
  BY DEF Return, LoopEnds
<1> DEFINE th == [thread[u] EXCEPT !.pc = "outside"]
<1>3. th \in ThreadType /\ th.pc = "outside" /\ thread' = [thread EXCEPT ![u] = th]
  BY <1>1, <1>2, Stepped
<1> HIDE DEF th
<1>4. CacheInv' /\ Woke(u) /\ user' = user
  BY <1>1, <1>2, CacheStays
<1>5. (th.pc # "failed") = (thread[u].pc # "failed") /\ (th.pc # "failed") = TRUE
  BY <1>2, <1>3
<1>6. delivered' = [delivered EXCEPT ![u] = delivered[u]] /\ next_target_ordinal' \in Nat
  BY <1>1, <1>2, Same DEF TargetTypes
<1>7. CASE ~InputFinished(u)
  <2>1. input' = input /\ routes' = routes /\ queued' = queued /\ current' = current
    BY <1>7 DEF Return
  <2>2. Becomes(u, th, input[u], routes[u], queued[u], current[u], delivered[u])
    <3>1. /\ input' = [input EXCEPT ![u] = input[u]] /\ routes' = [routes EXCEPT ![u] = routes[u]]
          /\ queued' = [queued EXCEPT ![u] = queued[u]] /\ current' = [current EXCEPT ![u] = current[u]]
      BY <1>1, <2>1, Same
    <3> QED
      BY <1>1, <1>2, <1>3, <1>6, <3>1 DEF Becomes
  <2>3. Doing(bind, needs_decode, "outside", input[u], queued[u], current[u], user[u])
    BY <1>1, <1>2 DEF Doing
  <2> QED
    BY <1>1, <1>2, <1>3, <1>4, <1>5, <2>2, <2>3, Moved
<1>8. CASE InputFinished(u)
  <2> DEFINE in == [input[u] EXCEPT !.position = 0, !.initialized = FALSE]
  <2>1. /\ input[u].position >= Len(input[u].rows) /\ queued[u] = <<>> /\ current[u].targets = <<>>
        /\ input[u].initialized
    BY <1>1, <1>2, <1>8 DEF InputFinished, HasBuffer, Doing
  <2>2. input' = [input EXCEPT ![u] = in]
    BY <1>1, <1>8 DEF Return, TargetTypes
  <2>3. /\ routes' = [routes EXCEPT ![u] = <<>>] /\ queued' = [queued EXCEPT ![u] = <<>>]
        /\ current' = [current EXCEPT ![u] = NoBuffer]
    BY <1>8 DEF Return
  <2>4. LeftOf(current[u], queued[u]) = {} /\ LeftOf(NoBuffer, <<>>) = {} /\ InLine(NoBuffer, <<>>)
    <3>1. current[u] = NoBuffer
      BY <1>1, <2>1 DEF InLine
    <3>2. LeftOf(NoBuffer, <<>>) = {}
      BY NoneAhead DEF LeftOf
    <3> QED
      BY <1>1, <2>1, <3>1, <3>2
  <2>5. in = [input[u] EXCEPT !.position = 0, !.initialized = FALSE]
    OBVIOUS
  <2> HIDE DEF in
  <2>6. in \in ChunkType /\ ~in.initialized /\ Answered(bind, TRUE, in, <<>>, {}, delivered[u])
    <3>1. Answered(bind, TRUE, input[u], routes[u], {}, delivered[u])
      BY <1>1, <1>5, <2>4
    <3> QED
      BY <1>1, <2>1, <2>5, <3>1, Finished
  <2>7. Becomes(u, th, in, <<>>, <<>>, NoBuffer, delivered[u])
    <3>1. <<>> \in Seq(Nat) /\ <<>> \in Seq(Seq(Target))
      OBVIOUS
    <3> QED
      BY <1>1, <1>2, <1>3, <1>6, <2>2, <2>3, <2>6, <3>1, NoneAhead DEF Becomes
  <2>8. Doing(bind, needs_decode, "outside", in, <<>>, NoBuffer, user[u])
    BY <1>1, <1>2, <2>1, <2>6, NoneAhead DEF Doing
  <2>9. Answered(bind, th.pc # "failed", in, <<>>, LeftOf(NoBuffer, <<>>), delivered[u])
    BY <1>5, <2>4, <2>6
  <2>10. Items(LeftOf(NoBuffer, <<>>), delivered[u]) \subseteq Items(LeftOf(current[u], queued[u]), delivered[u])
    BY <2>4
  <2> QED
    BY <1>2, <1>3, <1>4, <2>4, <2>7, <2>8, <2>9, <2>10, Moved
<1> QED
  BY <1>7, <1>8

-----------------------------------------------------------------------------
(* A batch *)

LEMMA Slice ==
    ASSUME NEW S, NEW s \in Seq(S), NEW first \in Nat, NEW count \in Nat, first + count <= Len(s)
    PROVE  /\ SubSeq(s, first + 1, first + count) \in Seq(S) /\ Len(SubSeq(s, first + 1, first + count)) = count
           /\ \A i \in 1..count : SubSeq(s, first + 1, first + count)[i] = s[first + i]
<1>1. \A i \in 1..count : first + i \in 1..Len(s) /\ s[first + i] \in S
  OBVIOUS
<1>2. SubSeq(s, first + 1, first + count) = [i \in 1..count |-> s[first + i]]
  OBVIOUS
<1> QED
  BY <1>1, <1>2

\* The input after the batch, in one record.
LEMMA Passed ==
    ASSUME NEW chunk \in ChunkType, NEW count \in Nat, chunk.initialized,
           NEW next, next = [chunk EXCEPT !.position = @ + count]
    PROVE  /\ next \in ChunkType /\ next.rows = chunk.rows /\ next.position = chunk.position + count
           /\ next.initialized
BY DEF ChunkType

LEMMA BuildStep == ASSUME IInv, NEW u \in Users, Build(u) PROVE IInv'
<1>1. /\ CacheInv /\ TargetTypes /\ OrdinalsUnique
      /\ thread[u] \in ThreadType /\ input[u] \in ChunkType /\ routes[u] \in Seq(Nat)
      /\ queued[u] \in Seq(Seq(Target)) /\ current[u] \in BufferType /\ delivered[u] \in Seq(Answer)
      /\ InLine(current[u], queued[u])
      /\ Answered(bind, thread[u].pc # "failed", input[u], routes[u], LeftOf(current[u], queued[u]), delivered[u])
      /\ Doing(bind, needs_decode, thread[u].pc, input[u], queued[u], current[u], user[u])
  BY Unpacked
<1> DEFINE rest == Len(input[u].rows) - input[u].position
           count == IF rest < MaxPendingTargets THEN rest ELSE MaxPendingTargets
           rows == SubSeq(input[u].rows, input[u].position + 1, input[u].position + count)
           targets == BatchTargets(rows, input[u].position, next_target_ordinal)
           routed == [i \in DOMAIN rows |-> input[u].position + i]
           in == [input[u] EXCEPT !.position = @ + count]
           th == [thread[u] EXCEPT !.pc = "failed"]
<1>2. /\ thread[u].pc = "loop" /\ current[u].targets = <<>> /\ queued[u] = <<>> /\ rest > 0
      /\ next_target_ordinal' = next_target_ordinal + count
      /\ routes' = [routes EXCEPT ![u] = routed]
      /\ bind' = bind /\ needs_decode' = needs_decode /\ current' = current /\ delivered' = delivered
      /\ UNCHANGED cacheVars
  BY DEF Build, InLoop, HasBuffer
<1>3. \/ Step(u, "failed") /\ input' = input /\ queued' = queued
      \/ Step(u, "failed") /\ input' = [input EXCEPT ![u].position = @ + count] /\ queued' = queued
      \/ /\ \A i \in DOMAIN rows : RowValid(rows[i])
         /\ thread' = thread /\ input' = [input EXCEPT ![u].position = @ + count]
         /\ \E buffers \in TargetBuffers(targets) : queued' = [queued EXCEPT ![u] = buffers]
  BY DEF Build
<1>4. /\ input[u].position \in Nat /\ Len(input[u].rows) \in Nat /\ input[u].rows \in Seq(InputRow)
      /\ input[u].initialized /\ MaxPendingTargets \in Nat \ {0} /\ next_target_ordinal \in Nat
  BY <1>1, <1>2, BatchAssumption DEF ChunkType, Doing, TargetTypes
<1>5. count \in Nat /\ input[u].position + count <= Len(input[u].rows)
  BY <1>2, <1>4
<1> HIDE DEF count
<1>6. /\ rows \in Seq(InputRow) /\ Len(rows) = count
      /\ \A i \in 1..count : rows[i] = input[u].rows[input[u].position + i]
  <2>1. input[u].rows \in Seq(InputRow) /\ input[u].position \in Nat
    BY <1>4
  <2> HIDE DEF rest
  <2> QED
    BY <1>5, <2>1, Slice
<1> HIDE DEF rows
<1>7. /\ routed \in Seq(Nat) /\ Len(routed) = count /\ \A i \in 1..count : routed[i] = input[u].position + i
  BY <1>4, <1>5, <1>6
<1>8. /\ current[u] = NoBuffer /\ LeftOf(current[u], queued[u]) = {} /\ Accepted(bind)
      /\ user[u].pc = "idle"
  <2>1. current[u] = NoBuffer
    BY <1>1, <1>2 DEF InLine
  <2> QED
    BY <1>1, <1>2, <2>1, NoneAhead DEF LeftOf, Doing
<1>9. /\ in \in ChunkType /\ in.rows = input[u].rows /\ in.position = input[u].position + count /\ in.initialized
  BY <1>1, <1>4, <1>5, Passed
<1>10. [input EXCEPT ![u].position = @ + count] = [input EXCEPT ![u] = in]
  BY <1>1 DEF TargetTypes
<1>11. in = [input[u] EXCEPT !.position = @ + count]
  OBVIOUS
<1> HIDE DEF routed, in
<1>12. CacheInv' /\ Woke(u) /\ user' = user
  BY <1>1, <1>2, CacheStays
<1>13. /\ current' = [current EXCEPT ![u] = current[u]] /\ delivered' = [delivered EXCEPT ![u] = delivered[u]]
       /\ next_target_ordinal' \in Nat /\ next_target_ordinal <= next_target_ordinal'
       /\ queued = [queued EXCEPT ![u] = queued[u]] /\ input = [input EXCEPT ![u] = input[u]]
       /\ thread = [thread EXCEPT ![u] = thread[u]]
  BY <1>1, <1>2, <1>4, <1>5, Same
<1>14. Answered(bind, TRUE, input[u], routes[u], {}, delivered[u])
  <2>1. (thread[u].pc # "failed") = TRUE
    BY <1>2
  <2> QED
    BY <1>1, <1>8, <2>1
\* An error: what the thread answered stays, its rows are given up.
<1>15. ASSUME NEW next \in ChunkType, input' = [input EXCEPT ![u] = next], next.initialized,
              Answered(bind, FALSE, next, routed, {}, delivered[u]), Step(u, "failed"), queued' = queued
       PROVE  IInv'
  <2>1. th \in ThreadType /\ th.pc = "failed" /\ thread' = [thread EXCEPT ![u] = th]
    BY <1>1, <1>15, Stepped
  <2> HIDE DEF th
  <2>2. Becomes(u, th, next, routed, queued[u], current[u], delivered[u])
    BY <1>1, <1>2, <1>7, <1>13, <1>15, <2>1 DEF Becomes
  <2>3. /\ TargetTypes' /\ OthersStay(u)
        /\ thread'[u] = th /\ input'[u] = next /\ routes'[u] = routed /\ queued'[u] = queued[u]
        /\ current'[u] = current[u] /\ delivered'[u] = delivered[u]
        /\ ItemsOf(u)' = Items(LeftOf(current[u], queued[u]), delivered[u])
    BY <1>1, <2>2, Stays
  <2>4. Doing(bind, needs_decode, "failed", next, queued[u], current[u], user[u])
    BY <1>1, <1>2, <1>4, <1>8, <1>15, NoneAhead DEF Doing
  <2>5. ThreadInv(u)'
    <3>1. (thread'[u].pc # "failed") = FALSE
      BY <2>1, <2>3
    <3> QED
      BY <1>1, <1>2, <1>8, <1>12, <1>15, <2>1, <2>3, <2>4, <3>1, Packed
  <2>6. \A v \in Users : ItemsOf(v)' \subseteq ItemsOf(v)
    <3>1. ItemsOf(u)' \subseteq ItemsOf(u)
      BY <2>3 DEF ItemsOf
    <3> QED
      BY <1>12, <2>3, <3>1, OthersKeep
  <2>7. OrdinalsUnique'
    BY <1>1, <1>4, <1>13, <2>6, OrdinalsKept
  <2>8. (\A v \in Users : ThreadInv(v))'
    BY <1>12, <2>3, <2>5, OthersKeep
  <2> QED
    BY <1>12, <2>3, <2>7, <2>8 DEF IInv
<1>16. CASE Step(u, "failed") /\ input' = input /\ queued' = queued
  <2>1. Answered(bind, FALSE, input[u], routed, {}, delivered[u])
    BY <1>14 DEF Answered
  <2>2. input' = [input EXCEPT ![u] = input[u]]
    BY <1>13, <1>16
  <2> QED
    BY <1>1, <1>4, <1>15, <1>16, <2>1, <2>2
<1>17. CASE Step(u, "failed") /\ input' = [input EXCEPT ![u].position = @ + count] /\ queued' = queued
  <2>1. Answered(bind, FALSE, in, routed, {}, delivered[u])
    <3>1. Answered(bind, FALSE, input[u], routes[u], {}, delivered[u])
      BY <1>14 DEF Answered
    <3> QED
      BY <1>1, <1>4, <1>5, <1>7, <1>11, <3>1, BatchAnswered
  <2>2. input' = [input EXCEPT ![u] = in]
    BY <1>10, <1>17
  <2> QED
    BY <1>9, <1>15, <1>17, <2>1, <2>2
<1>18. CASE /\ \A i \in DOMAIN rows : RowValid(rows[i])
            /\ thread' = thread /\ input' = [input EXCEPT ![u].position = @ + count]
            /\ \E buffers \in TargetBuffers(targets) : queued' = [queued EXCEPT ![u] = buffers]
  <2>1. PICK buffers \in TargetBuffers(targets) : queued' = [queued EXCEPT ![u] = buffers]
    BY <1>18
  <2>2. \A i \in 1..Len(rows) : RowValid(rows[i])
    BY <1>6, <1>18
  <2>3. /\ targets \in SUBSET Target /\ IsFiniteSet(targets) /\ OrdinalsDiffer(targets)
        /\ \A t \in targets : \E i \in 1..Len(rows) :
              /\ t.row = input[u].position + i /\ t.ordinal = next_target_ordinal + i - 1 /\ t.route = i
              /\ FrameRight(bind, rows[i], t.frame, t.padding)
        /\ \A i \in 1..Len(rows) : \E t \in targets : t.row = input[u].position + i
    <3>1. targets = BatchTargets(rows, input[u].position, next_target_ordinal)
      OBVIOUS
    <3> HIDE DEF targets
    <3>2. bind \in Binds /\ rows \in Seq(InputRow) /\ input[u].position \in Nat /\ next_target_ordinal \in Nat
      BY <1>1, <1>4, <1>6 DEF TargetTypes
    <3> QED
      <4>1. Batching(rows, input[u].position, next_target_ordinal, targets)
        BY <1>8, <2>2, <3>1, <3>2 DEF Batching
      <4> QED
        BY <4>1, Batched
  <2> HIDE DEF targets
  <2>4. buffers \in Seq(Seq(Target)) /\ InLine(NoBuffer, buffers) /\ LeftOf(NoBuffer, buffers) = targets
    <3>1. BuffersRight(targets, buffers)
      BY <2>3, Grouped
    <3> QED
      BY <2>3, <3>1, Built
  <2>5. \A t \in targets : \E i \in 1..count :
           /\ t.row = input[u].position + i /\ t.ordinal = next_target_ordinal + i - 1 /\ t.route = i
           /\ FrameRight(bind, input[u].rows[input[u].position + i], t.frame, t.padding)
    <3>1. SUFFICES ASSUME NEW t \in targets
                   PROVE  \E i \in 1..count :
                             /\ t.row = input[u].position + i /\ t.ordinal = next_target_ordinal + i - 1 /\ t.route = i
                             /\ FrameRight(bind, input[u].rows[input[u].position + i], t.frame, t.padding)
      OBVIOUS
    <3>2. PICK i \in 1..Len(rows) :
             /\ t.row = input[u].position + i /\ t.ordinal = next_target_ordinal + i - 1 /\ t.route = i
             /\ FrameRight(bind, rows[i], t.frame, t.padding)
      BY <2>3
    <3> QED
      BY <1>6, <3>2
  <2>6. \A s, t \in targets : s.row = t.row => s = t
    <3>1. SUFFICES ASSUME NEW s \in targets, NEW t \in targets, s.row = t.row PROVE s = t
      OBVIOUS
    <3>2. PICK i \in 1..count : s.row = input[u].position + i /\ s.ordinal = next_target_ordinal + i - 1
      BY <2>5
    <3>3. PICK k \in 1..count : t.row = input[u].position + k /\ t.ordinal = next_target_ordinal + k - 1
      BY <2>5
    <3>4. s.ordinal = t.ordinal
      <4>1. input[u].position + i = input[u].position + k
        BY <3>1, <3>2, <3>3
      <4>2. i = k
        BY <1>4, <1>5, <4>1
      <4> QED
        BY <3>2, <3>3, <4>2
    <3> QED
      BY <2>3, <3>4 DEF OrdinalsDiffer
  <2>7. Answered(bind, TRUE, in, routed, targets, delivered[u])
    <3>1. \A i \in 1..count : \E t \in targets : t.row = input[u].position + i
      BY <1>6, <2>3
    <3>2. \A t \in targets : \E i \in 1..count :
             /\ t.row = input[u].position + i /\ t.route = i
             /\ FrameRight(bind, input[u].rows[input[u].position + i], t.frame, t.padding)
      BY <2>5
    <3> QED
      BY <1>1, <1>4, <1>5, <1>7, <1>11, <1>14, <2>6, <3>1, <3>2, BatchAnswered
  <2>8. Becomes(u, thread[u], in, routed, buffers, current[u], delivered[u])
    BY <1>1, <1>2, <1>7, <1>9, <1>10, <1>13, <1>18, <2>1, <2>4 DEF Becomes
  <2>9. /\ TargetTypes' /\ OthersStay(u)
        /\ thread'[u] = thread[u] /\ input'[u] = in /\ routes'[u] = routed /\ queued'[u] = buffers
        /\ current'[u] = current[u] /\ delivered'[u] = delivered[u]
        /\ ItemsOf(u)' = Items(LeftOf(current[u], buffers), delivered[u])
    BY <1>1, <2>8, Stays
  <2>10. Doing(bind, needs_decode, thread[u].pc, in, buffers, current[u], user[u])
    BY <1>1, <1>2, <1>4, <1>8, <1>9 DEF Doing
  <2>11. ThreadInv(u)'
    <3>1. (thread'[u].pc # "failed") = TRUE
      BY <1>2, <2>9
    <3> QED
      BY <1>2, <1>8, <1>12, <2>4, <2>7, <2>9, <2>10, <3>1, Packed
  <2> DEFINE new == {<<t.row, t.ordinal>> : t \in targets}
  <2>12. /\ ItemsOf(u)' \subseteq ItemsOf(u) \cup new
         /\ \A p \in new : p[2] \in next_target_ordinal..(next_target_ordinal + count - 1)
         /\ \A p, q \in new : p[2] = q[2] => p = q
    <3>1. ItemsOf(u)' = new \cup {<<delivered[u][i].row, delivered[u][i].ordinal>> : i \in 1..Len(delivered[u])}
      BY <1>8, <2>4, <2>9 DEF Items
    <3>2. {<<delivered[u][i].row, delivered[u][i].ordinal>> : i \in 1..Len(delivered[u])} \subseteq ItemsOf(u)
      BY DEF Items, ItemsOf
    <3>3. \A t \in targets : t.ordinal \in next_target_ordinal..(next_target_ordinal + count - 1)
      <4>1. SUFFICES ASSUME NEW t \in targets
                     PROVE  t.ordinal \in next_target_ordinal..(next_target_ordinal + count - 1)
        OBVIOUS
      <4>2. PICK i \in 1..count : t.ordinal = next_target_ordinal + i - 1
        BY <2>5
      <4> QED
        BY <1>4, <1>5, <4>2
    <3>4. \A s, t \in targets : s.ordinal = t.ordinal => s = t
      BY <2>3 DEF OrdinalsDiffer
    <3> QED
      BY <3>1, <3>2, <3>3, <3>4
  <2> HIDE DEF new
  <2>13. \A v \in Users \ {u} : ItemsOf(v)' \subseteq ItemsOf(v)
    BY <1>12, <2>9, OthersKeep
  <2>14. OrdinalsUnique'
    BY <1>1, <1>2, <1>4, <1>5, <2>12, <2>13, OrdinalsClaimed
  <2>15. (\A v \in Users : ThreadInv(v))'
    BY <1>12, <2>9, <2>11, OthersKeep
  <2> QED
    BY <1>12, <2>9, <2>14, <2>15 DEF IInv
<1> QED
  BY <1>3, <1>16, <1>17, <1>18

-----------------------------------------------------------------------------
(* lerobot_temporal_targets *)

\* The whole chunk is answered at once, row by row.
AtOnce(b, in, first, answers) ==
    /\ in \in ChunkType /\ in.position = 0 /\ ~in.initialized /\ first \in Nat
    /\ answers \in Seq(Answer) /\ Len(answers) = Len(in.rows)
    /\ \A i \in 1..Len(in.rows) :
          /\ answers[i].row = i /\ answers[i].route = i /\ answers[i].ordinal = first + i - 1
          /\ FrameRight(b, in.rows[i], answers[i].frame, answers[i].padding)

LEMMA AnsweredAtOnce ==
    ASSUME NEW b, NEW in, NEW first, NEW answers, AtOnce(b, in, first, answers), NEW rt
    PROVE  /\ Answered(b, TRUE, in, rt, {}, answers)
           /\ \A p \in Items({}, answers) : p[2] \in first..(first + Len(in.rows) - 1)
           /\ \A p, q \in Items({}, answers) : p[2] = q[2] => p = q
<1>0. /\ in.position = 0 /\ ~in.initialized /\ first \in Nat /\ Len(answers) = Len(in.rows)
      /\ \A i \in 1..Len(in.rows) :
            /\ answers[i].row = i /\ answers[i].route = i /\ answers[i].ordinal = first + i - 1
            /\ FrameRight(b, in.rows[i], answers[i].frame, answers[i].padding)
  BY DEF AtOnce
<1>1. Len(in.rows) \in Nat
  BY DEF ChunkType, AtOnce
<1>2. Answered(b, TRUE, in, rt, {}, answers)
  <2>1. \A i \in 1..Len(answers) :
          /\ answers[i].row \in 1..Len(in.rows) /\ answers[i].route = answers[i].row
          /\ FrameRight(b, in.rows[answers[i].row], answers[i].frame, answers[i].padding)
    BY <1>0
  <2>2. \A r \in 1..Len(in.rows) : \E i \in 1..Len(answers) : answers[i].row = r
    BY <1>0
  <2>3. \A i, k \in 1..Len(answers) : answers[i].row = answers[k].row => i = k
    BY <1>0
  <2> QED
    <3>1. in.position <= Len(in.rows)
      BY <1>0, <1>1
    <3> QED
      BY <1>0, <2>1, <2>2, <2>3, <3>1 DEF Answered
<1>3. ASSUME NEW p \in Items({}, answers) PROVE \E i \in 1..Len(in.rows) : p = <<i, first + i - 1>>
  <2>1. PICK i \in 1..Len(answers) : p = <<answers[i].row, answers[i].ordinal>>
    BY DEF Items
  <2> QED
    BY <1>0, <2>1
<1>4. ASSUME NEW p \in Items({}, answers) PROVE p[2] \in first..(first + Len(in.rows) - 1)
  <2>1. PICK i \in 1..Len(in.rows) : p = <<i, first + i - 1>>
    BY <1>3
  <2> QED
    BY <1>0, <1>1, <2>1
<1>5. ASSUME NEW p \in Items({}, answers), NEW q \in Items({}, answers), p[2] = q[2] PROVE p = q
  <2>1. PICK i \in 1..Len(in.rows) : p = <<i, first + i - 1>>
    BY <1>3
  <2>2. PICK k \in 1..Len(in.rows) : q = <<k, first + k - 1>>
    BY <1>3
  <2>3. first + i - 1 = first + k - 1
    BY <1>5, <2>1, <2>2
  <2>4. i = k
    BY <1>0, <1>1, <2>3
  <2> QED
    BY <2>1, <2>2, <2>4
<1> QED
  BY <1>2, <1>4, <1>5

LEMMA TemporalCallStep == ASSUME IInv, NEW u \in Users, TemporalCall(u) PROVE IInv'
<1>1. /\ CacheInv /\ TargetTypes /\ OrdinalsUnique
      /\ thread[u] \in ThreadType /\ input[u] \in ChunkType /\ routes[u] \in Seq(Nat)
      /\ queued[u] \in Seq(Seq(Target)) /\ current[u] \in BufferType /\ delivered[u] \in Seq(Answer)
      /\ InLine(current[u], queued[u])
      /\ Answered(bind, thread[u].pc # "failed", input[u], routes[u], LeftOf(current[u], queued[u]), delivered[u])
      /\ Doing(bind, needs_decode, thread[u].pc, input[u], queued[u], current[u], user[u])
  BY Unpacked
<1>2. PICK rows \in Chunks :
          /\ input' = [input EXCEPT ![u] = [rows |-> rows, number |-> @.number + 1,
                                            position |-> 0, initialized |-> FALSE]]
          /\ next_target_ordinal' = next_target_ordinal + Len(rows)
          /\ IF \E i \in DOMAIN rows : ~RowValid(rows[i])
             THEN Step(u, "failed") /\ delivered' = [delivered EXCEPT ![u] = <<>>]
             ELSE /\ UNCHANGED thread
                  /\ delivered' = [delivered EXCEPT ![u] =
                        [i \in DOMAIN rows |->
                            LET target == TemporalTarget(rows[i].frame, Offset(rows[i]), rows[i].length)
                            IN [row |-> i, ordinal |-> next_target_ordinal + i - 1, route |-> i,
                                frame |-> target.frame, padding |-> target.padding]]]
  BY DEF TemporalCall
<1>3. /\ thread[u].pc = "outside" /\ bind.operator = "lerobot_temporal_targets"
      /\ UNCHANGED cacheVars
      /\ bind' = bind /\ needs_decode' = needs_decode /\ routes' = routes /\ queued' = queued /\ current' = current
  BY DEF TemporalCall
<1> DEFINE in == [rows |-> rows, number |-> input[u].number + 1, position |-> 0, initialized |-> FALSE]
           th == [thread[u] EXCEPT !.pc = "failed"]
           answers == [i \in DOMAIN rows |->
                         [row |-> i, ordinal |-> next_target_ordinal + i - 1, route |-> i,
                          frame |-> Clamp(rows[i]).frame, padding |-> Clamp(rows[i]).padding]]
<1>4. rows \in Seq(InputRow) /\ Len(rows) \in Nat /\ DOMAIN rows = 1..Len(rows) /\ next_target_ordinal \in Nat
  <2>1. rows \in Seq(InputRow)
    BY InputAssumption
  <2> QED
    BY <1>1, <2>1 DEF TargetTypes
<1>5. in \in ChunkType /\ in.rows = rows /\ in.position = 0 /\ ~in.initialized
  BY <1>1, <1>4 DEF ChunkType
<1>6. input' = [input EXCEPT ![u] = in]
  BY <1>1, <1>2 DEF TargetTypes
<1> HIDE DEF in
<1>7. ~input[u].initialized /\ queued[u] = <<>> /\ current[u] = NoBuffer /\ Accepted(bind)
      /\ user[u].pc = "idle"
  BY <1>1, <1>3, NoneAhead DEF Doing
<1>8. LeftOf(current[u], queued[u]) = {}
  BY <1>7, NoneAhead DEF LeftOf
<1>9. CacheInv' /\ Woke(u) /\ user' = user
  BY <1>1, <1>3, CacheStays
<1>10. /\ routes' = [routes EXCEPT ![u] = routes[u]] /\ queued' = [queued EXCEPT ![u] = queued[u]]
       /\ current' = [current EXCEPT ![u] = current[u]] /\ thread = [thread EXCEPT ![u] = thread[u]]
       /\ next_target_ordinal' \in Nat /\ next_target_ordinal <= next_target_ordinal'
  BY <1>1, <1>2, <1>3, <1>4, Same
<1>11. CASE \E i \in DOMAIN rows : ~RowValid(rows[i])
  <2>1. Step(u, "failed") /\ delivered' = [delivered EXCEPT ![u] = <<>>]
    BY <1>2, <1>11
  <2>2. th \in ThreadType /\ th.pc = "failed" /\ thread' = [thread EXCEPT ![u] = th]
    BY <1>1, <2>1, Stepped
  <2> HIDE DEF th
  <2>3. Becomes(u, th, in, routes[u], queued[u], current[u], <<>>)
    <3>1. <<>> \in Seq(Answer)
      OBVIOUS
    <3> QED
      BY <1>1, <1>3, <1>5, <1>6, <1>10, <2>1, <2>2, <3>1 DEF Becomes
  <2>4. /\ TargetTypes' /\ OthersStay(u)
        /\ thread'[u] = th /\ input'[u] = in /\ routes'[u] = routes[u] /\ queued'[u] = queued[u]
        /\ current'[u] = current[u] /\ delivered'[u] = <<>>
        /\ ItemsOf(u)' = Items(LeftOf(current[u], queued[u]), <<>>)
    BY <1>1, <2>3, Stays
  <2>5. Answered(bind, FALSE, in, routes[u], {}, <<>>)
    BY <1>4, <1>5 DEF Answered
  <2>6. Doing(bind, needs_decode, "failed", in, queued[u], current[u], user[u])
    BY <1>1, <1>3, <1>5, <1>7, NoneAhead DEF Doing
  <2>7. ThreadInv(u)'
    <3>1. (thread'[u].pc # "failed") = FALSE
      BY <2>2, <2>4
    <3> QED
      BY <1>1, <1>3, <1>8, <1>9, <2>2, <2>4, <2>5, <2>6, <3>1, Packed
  <2>8. \A v \in Users : ItemsOf(v)' \subseteq ItemsOf(v)
    <3>1. ItemsOf(u)' = {}
      BY <1>8, <2>4 DEF Items
    <3> QED
      BY <1>9, <2>4, <3>1, OthersKeep
  <2>9. OrdinalsUnique'
    BY <1>1, <1>4, <1>10, <2>8, OrdinalsKept
  <2>10. (\A v \in Users : ThreadInv(v))'
    BY <1>9, <2>4, <2>7, OthersKeep
  <2> QED
    BY <1>9, <2>4, <2>9, <2>10 DEF IInv
<1>12. CASE \A i \in DOMAIN rows : RowValid(rows[i])
  <2>1. thread' = [thread EXCEPT ![u] = thread[u]]
    BY <1>2, <1>10, <1>12
  <2>2. delivered' = [delivered EXCEPT ![u] = answers]
    <3>1. answers = [i \in DOMAIN rows |->
                       LET target == TemporalTarget(rows[i].frame, Offset(rows[i]), rows[i].length)
                       IN [row |-> i, ordinal |-> next_target_ordinal + i - 1, route |-> i,
                           frame |-> target.frame, padding |-> target.padding]]
      BY SameClamp
    <3> QED
      BY <1>2, <1>12, <3>1
  <2>3. /\ \A i \in 1..Len(rows) :
              /\ answers[i].row = i /\ answers[i].route = i /\ answers[i].ordinal = next_target_ordinal + i - 1
              /\ answers[i].frame = Clamp(rows[i]).frame /\ answers[i].padding = Clamp(rows[i]).padding
              /\ answers[i] = [row |-> i, ordinal |-> next_target_ordinal + i - 1, route |-> i,
                               frame |-> Clamp(rows[i]).frame, padding |-> Clamp(rows[i]).padding]
    BY <1>4
  <2>4. answers = [i \in 1..Len(rows) |-> answers[i]]
    BY <1>4
  <2> HIDE DEF answers
  <2>5. \A i \in 1..Len(rows) : FrameRight(bind, rows[i], answers[i].frame, answers[i].padding)
    <3>1. ASSUME NEW i \in 1..Len(rows) PROVE FrameRight(bind, rows[i], Clamp(rows[i]).frame, Clamp(rows[i]).padding)
      <4>1. rows[i] \in InputRow /\ RowValid(rows[i]) /\ bind \in Binds
        <5>1. rows[i] \in InputRow /\ i \in DOMAIN rows
          BY <1>4
        <5> QED
          BY <1>1, <1>12, <5>1 DEF TargetTypes
      <4> QED
        BY <1>7, <4>1, Clamped
    <3> QED
      BY <2>3, <3>1
  <2>6. answers \in Seq(Answer) /\ Len(answers) = Len(rows)
    <3>1. \A i \in 1..Len(rows) : answers[i] \in Answer
      <4>1. SUFFICES ASSUME NEW i \in 1..Len(rows) PROVE answers[i] \in Answer
        OBVIOUS
      <4>2. Clamp(rows[i]).frame \in Int /\ Clamp(rows[i]).padding \in BOOLEAN
        <5>1. rows[i] \in InputRow
          BY <1>4
        <5> QED
          BY <2>3, <2>5, <5>1, FrameTyped
      <4>3. next_target_ordinal + i - 1 \in Nat /\ i \in Nat
        BY <1>4
      <4> QED
        <5>1. answers[i] = [row |-> i, ordinal |-> next_target_ordinal + i - 1, route |-> i,
                            frame |-> Clamp(rows[i]).frame, padding |-> Clamp(rows[i]).padding]
          BY <2>3
        <5> QED
          BY <4>2, <4>3, <5>1 DEF Answer
    <3> QED
      BY <1>4, <2>4, <3>1
  <2>7. /\ Answered(bind, TRUE, in, routes[u], {}, answers)
        /\ \A p \in Items({}, answers) : p[2] \in next_target_ordinal..(next_target_ordinal + Len(rows) - 1)
        /\ \A p, q \in Items({}, answers) : p[2] = q[2] => p = q
    <3>1. AtOnce(bind, in, next_target_ordinal, answers)
      BY <1>4, <1>5, <2>3, <2>5, <2>6 DEF AtOnce
    <3> QED
      BY <1>5, <3>1, AnsweredAtOnce
  <2>8. Becomes(u, thread[u], in, routes[u], queued[u], current[u], answers)
    BY <1>1, <1>3, <1>5, <1>6, <1>10, <2>1, <2>2, <2>6 DEF Becomes
  <2>9. /\ TargetTypes' /\ OthersStay(u)
        /\ thread'[u] = thread[u] /\ input'[u] = in /\ routes'[u] = routes[u] /\ queued'[u] = queued[u]
        /\ current'[u] = current[u] /\ delivered'[u] = answers
        /\ ItemsOf(u)' = Items(LeftOf(current[u], queued[u]), answers)
    BY <1>1, <2>8, Stays
  <2>10. Doing(bind, needs_decode, thread[u].pc, in, queued[u], current[u], user[u])
    BY <1>1, <1>3, <1>5, <1>7 DEF Doing
  <2>11. ThreadInv(u)'
    <3>1. (thread'[u].pc # "failed") = TRUE
      BY <1>3, <2>9
    <3> QED
      BY <1>1, <1>3, <1>8, <1>9, <2>7, <2>9, <2>10, <3>1, Packed
  <2>12. \A v \in Users \ {u} : ItemsOf(v)' \subseteq ItemsOf(v)
    BY <1>9, <2>9, OthersKeep
  <2>13. OrdinalsUnique'
    <3>1. ItemsOf(u)' \subseteq ItemsOf(u) \cup Items({}, answers)
      BY <1>8, <2>9
    <3> QED
      BY <1>1, <1>2, <1>4, <2>7, <2>12, <3>1, OrdinalsClaimed
  <2>14. (\A v \in Users : ThreadInv(v))'
    BY <1>9, <2>9, <2>11, OthersKeep
  <2> QED
    BY <1>9, <2>9, <2>13, <2>14 DEF IInv
<1> QED
  BY <1>11, <1>12

-----------------------------------------------------------------------------
(* All steps *)

LEMMA InitInv == Init => IInv
<1> SUFFICES ASSUME Init PROVE IInv
  OBVIOUS
<1>1. /\ CacheInit /\ bind \in Binds /\ needs_decode \in BOOLEAN /\ next_target_ordinal = 0
      /\ thread = [u \in Users |-> [pc |-> IF Accepted(bind) THEN "outside" ELSE "failed", count |-> 0, bytes |-> 0]]
      /\ input = [u \in Users |-> NoChunk] /\ routes = [u \in Users |-> <<>>] /\ queued = [u \in Users |-> <<>>]
      /\ current = [u \in Users |-> NoBuffer] /\ delivered = [u \in Users |-> <<>>]
  BY DEF Init, Accepted
<1>2. CacheInv /\ \A u \in Users : user[u].pc = "idle"
  BY <1>1, CacheInitInv DEF CacheInit
<1>3. NoChunk \in ChunkType /\ NoChunk.rows = <<>> /\ NoChunk.position = 0 /\ ~NoChunk.initialized
  BY DEF NoChunk, ChunkType
<1>4. <<>> \in Seq(Nat) /\ <<>> \in Seq(Seq(Target)) /\ <<>> \in Seq(Answer) /\ Len(<<>>) = 0
  OBVIOUS
<1>5. TargetTypes
  <2>1. thread \in [Users -> ThreadType]
    BY <1>1 DEF ThreadType
  <2> QED
    BY <1>1, <1>3, <1>4, <2>1, NoneAhead DEF TargetTypes
<1>6. LeftOf(NoBuffer, <<>>) = {} /\ InLine(NoBuffer, <<>>)
  <2>1. LeftOf(NoBuffer, <<>>) = {}
    BY <1>4, NoneAhead DEF LeftOf
  <2>2. Distinct(<<>>) /\ OneFile(<<>>)
    BY DEF Distinct, OneFile
  <2> QED
    BY <1>4, <2>1, <2>2, NoneAhead DEF InLine
<1>7. ASSUME NEW u \in Users PROVE ThreadInv(u) /\ ItemsOf(u) = {}
  <2>1. /\ thread[u].pc = IF Accepted(bind) THEN "outside" ELSE "failed"
        /\ input[u] = NoChunk /\ routes[u] = <<>> /\ queued[u] = <<>> /\ current[u] = NoBuffer /\ delivered[u] = <<>>
    BY <1>1
  <2>2. Answered(bind, thread[u].pc # "failed", NoChunk, <<>>, {}, <<>>)
    BY <1>3, <1>4 DEF Answered
  <2>3. Doing(bind, needs_decode, thread[u].pc, NoChunk, <<>>, NoBuffer, user[u])
    BY <1>2, <1>3, <2>1, NoneAhead DEF Doing
  <2>4. Items({}, <<>>) = {}
    BY <1>4 DEF Items
  <2> QED
    BY <1>6, <2>1, <2>2, <2>3, <2>4 DEF ThreadInv, ItemsOf
<1>8. OrdinalsUnique
  BY <1>7 DEF OrdinalsUnique
<1> QED
  BY <1>2, <1>5, <1>7, <1>8 DEF IInv

LEMMA Idle == ASSUME IInv, UNCHANGED vars PROVE IInv'
<1>1. CacheInv /\ TargetTypes /\ OrdinalsUnique /\ \A u \in Users : ThreadInv(u)
  BY DEF IInv
<1>2. UNCHANGED cacheVars /\ UNCHANGED targetVars
  BY DEF vars
<1>3. CacheInv' /\ TargetTypes'
  BY <1>1, <1>2, CacheNextInv DEF targetVars, TargetTypes
<1>4. ASSUME NEW u \in Users PROVE ThreadInv(u)' /\ ItemsOf(u)' = ItemsOf(u)
  BY <1>1, <1>2 DEF ThreadInv, ItemsOf, targetVars, cacheVars
<1>5. OrdinalsUnique'
  BY <1>1, <1>2, <1>4 DEF OrdinalsUnique, targetVars
<1>6. (\A u \in Users : ThreadInv(u))'
  BY <1>4
<1> QED
  BY <1>3, <1>5, <1>6 DEF IInv

LEMMA NextInv == ASSUME IInv, [Next]_vars PROVE IInv'
<1>1. CASE UNCHANGED vars
  BY <1>1, Idle
<1>2. ASSUME NEW u \in Users, ThreadStep(u) PROVE IInv'
  <2>1. CASE TemporalCall(u) \/ Call(u) \/ Build(u) \/ TakeBuffer(u) \/ Begin(u)
    BY <2>1, TemporalCallStep, CallStep, BuildStep, TakeBufferStep, BeginStep
  <2>2. CASE AcquireFails(u) \/ DecodeFails(u)
    BY <2>2, FailStep
  <2>3. CASE WriteRow(u) \/ Decode(u) \/ BufferDone(u) \/ WriteFrame(u) \/ Return(u)
    BY <2>3, WriteRowStep, DecodeStep, BufferDoneStep, WriteFrameStep, ReturnStep
  <2>4. CASE (Acquire(u) /\ UNCHANGED targetVars) \/ (CloseDiscarded(u) /\ UNCHANGED targetVars)
    BY <2>4, CacheStep
  <2> QED
    BY <1>2, <2>1, <2>2, <2>3, <2>4 DEF ThreadStep
<1>3. ASSUME NEW u \in Users, DropThread(u) PROVE IInv'
  BY <1>3, DropStep
<1>4. CASE Terminated
  BY <1>4, Idle DEF Terminated
<1> QED
  BY <1>1, <1>2, <1>3, <1>4 DEF Next

\* The invariant is one of every reachable state.
THEOREM TargetsInductive == Spec => []IInv
<1>1. Init => IInv
  BY InitInv
<1>2. IInv /\ [Next]_vars => IInv'
  BY NextInv
<1> QED
  BY <1>1, <1>2, PTL DEF Spec

-----------------------------------------------------------------------------
(* The threads and the cache *)

LEMMA UsesTheCache == ASSUME IInv, [Next]_vars PROVE [CacheNext]_cacheVars
<1>1. ASSUME NEW u \in Users, TakeBuffer(u) PROVE [CacheNext]_cacheVars
  <2>1. queued[u] # <<>> /\ (StartAcquire(u, Head(queued[u])[1].shard) \/ UNCHANGED cacheVars)
    BY <1>1 DEF TakeBuffer
  <2>2. Head(queued[u])[1].shard \in Shards
    <3>1. queued[u] \in Seq(Seq(Target)) /\ InLine(current[u], queued[u])
      BY Unpacked
    <3>2. 1 \in 1..Len(queued[u]) /\ Head(queued[u]) = queued[u][1] /\ queued[u][1] \in Seq(Target)
      BY <2>1, <3>1
    <3>3. queued[u][1] # <<>>
      BY <3>1, <3>2 DEF InLine
    <3>4. queued[u][1][1] \in Target
      BY <3>2, <3>3
    <3> QED
      BY <3>2, <3>4 DEF Target
  <2> QED
    BY <2>1, <2>2 DEF CacheNext
<1>2. ASSUME NEW u \in Users, AcquireFails(u) \/ DecodeFails(u) \/ BufferDone(u) \/ DropThread(u)
                              \/ Acquire(u) \/ CloseDiscarded(u)
      PROVE  [CacheNext]_cacheVars
  BY <1>2 DEF AcquireFails, DecodeFails, BufferDone, DropThread, CacheNext
<1>3. ASSUME NEW u \in Users, TemporalCall(u) \/ Call(u) \/ Build(u) \/ Begin(u) \/ WriteRow(u) \/ Decode(u)
                              \/ WriteFrame(u) \/ Return(u)
      PROVE  UNCHANGED cacheVars
  BY <1>3 DEF TemporalCall, Call, Build, Begin, WriteRow, Decode, WriteFrame, Return
<1>4. ASSUME NEW u \in Users, ThreadStep(u) PROVE [CacheNext]_cacheVars
  BY <1>1, <1>2, <1>3, <1>4 DEF ThreadStep
<1>5. CASE UNCHANGED vars \/ Terminated
  BY <1>5 DEF Terminated, vars
<1> QED
  BY <1>2, <1>4, <1>5 DEF Next

\* The threads never use the cache otherwise than it expects: the operator is a client of
\* DecoderCache, whatever its chunks, batches and errors are.
THEOREM UsesCache == Spec => CacheSpec
<1>1. Init => CacheInit
  BY DEF Init
<1>2. IInv /\ [Next]_vars => [CacheNext]_cacheVars
  BY UsesTheCache
<1> QED
  BY <1>1, <1>2, TargetsInductive, PTL DEF Spec, CacheSpec

\* The limit on open decoders holds under the operator, and the idle decoders agree with it.
THEOREM TargetsAccounted == Spec => []SlotsAccounted
BY UsesCache, Accounted, PTL

\* No wakeup is lost although the threads fail, stop and start between any two steps.
THEOREM TargetsWaitRightly == Spec => []WaitsForOthers
BY UsesCache, WaitsRightly, PTL

\* A decoder is with the thread whose buffer is of its video file, and with no failed one.
THEOREM DecoderFollows == Spec => []DecoderFollowsBuffer
<1>1. IInv => DecoderFollowsBuffer
  <2>1. SUFFICES ASSUME IInv, NEW u \in Users
                 PROVE  /\ user[u].pc \in {"using", "dropped"} =>
                              HasBuffer(u) /\ user[u].shard = current[u].targets[1].shard
                        /\ needs_decode /\ HasBuffer(u) => user[u].pc \notin {"idle", "closing"}
    BY DEF DecoderFollowsBuffer
  <2>2. /\ thread[u] \in ThreadType
        /\ Doing(bind, needs_decode, thread[u].pc, input[u], queued[u], current[u], user[u])
    BY <2>1, Unpacked
  <2>3. thread[u].pc \in {"outside", "loop", "acquire", "failed", "dropped"}
    BY <2>2 DEF ThreadType
  <2> QED
    BY <2>2, <2>3 DEF Doing, HasBuffer
<1> QED
  BY <1>1, TargetsInductive, PTL

-----------------------------------------------------------------------------
(* What is answered *)

\* No row of a chunk is answered twice, and when the operator asks for the next chunk all are.
THEOREM AnsweredOnce == Spec => []RowsAnsweredOnce
<1>1. IInv => RowsAnsweredOnce
  <2>1. SUFFICES ASSUME IInv, NEW u \in Users, NEW rows, rows = [i \in DOMAIN delivered[u] |-> delivered[u][i].row]
                 PROVE  /\ IsInjective(rows)
                        /\ thread[u].pc = "outside" /\ ~input[u].initialized => ToSet(rows) = DOMAIN input[u].rows
    BY DEF RowsAnsweredOnce
  <2>2. /\ input[u] \in ChunkType /\ delivered[u] \in Seq(Answer)
        /\ Answered(bind, thread[u].pc # "failed", input[u], routes[u], LeftOf(current[u], queued[u]), delivered[u])
    BY <2>1, Unpacked
  <2>3. /\ DOMAIN delivered[u] = 1..Len(delivered[u]) /\ DOMAIN input[u].rows = 1..Len(input[u].rows)
        /\ DOMAIN rows = 1..Len(delivered[u]) /\ \A i \in 1..Len(delivered[u]) : rows[i] = delivered[u][i].row
    BY <2>1, <2>2 DEF ChunkType
  <2>4. IsInjective(rows)
    BY <2>2, <2>3 DEF IsInjective, Answered
  <2>5. ASSUME thread[u].pc = "outside", ~input[u].initialized PROVE ToSet(rows) = DOMAIN input[u].rows
    <3>1. \A r \in 1..Len(input[u].rows) : \E i \in 1..Len(delivered[u]) : delivered[u][i].row = r
      BY <2>2, <2>5 DEF Answered
    <3>2. \A i \in 1..Len(delivered[u]) : delivered[u][i].row \in 1..Len(input[u].rows)
      BY <2>2 DEF Answered
    <3>3. \A r : r \in ToSet(rows) <=> \E i \in 1..Len(delivered[u]) : delivered[u][i].row = r
      BY <2>3 DEF ToSet
    <3>4. \A r : r \in ToSet(rows) <=> r \in 1..Len(input[u].rows)
      BY <3>1, <3>2, <3>3
    <3> QED
      BY <2>3, <3>4
  <2> QED
    BY <2>4, <2>5
<1> QED
  BY <1>1, TargetsInductive, PTL

\* A row is answered with its own route, and its ordinal is that of no row of any thread.
THEOREM RoutesKept == Spec => []RowsKeepTheirRoute
<1>1. IInv => RowsKeepTheirRoute
  <2>1. SUFFICES ASSUME IInv, NEW u \in Users, NEW i \in DOMAIN delivered[u]
                 PROVE  /\ delivered[u][i].route = delivered[u][i].row
                        /\ \A v \in Users : \A k \in DOMAIN delivered[v] :
                              delivered[v][k].ordinal = delivered[u][i].ordinal => u = v /\ i = k
    BY DEF RowsKeepTheirRoute
  <2>2. ASSUME NEW v \in Users
        PROVE  /\ DOMAIN delivered[v] = 1..Len(delivered[v])
               /\ Answered(bind, thread[v].pc # "failed", input[v], routes[v], LeftOf(current[v], queued[v]),
                           delivered[v])
    BY <2>1, Unpacked
  <2>3. delivered[u][i].route = delivered[u][i].row
    BY <2>1, <2>2 DEF Answered
  <2>4. ASSUME NEW v \in Users, NEW k \in DOMAIN delivered[v], delivered[v][k].ordinal = delivered[u][i].ordinal
        PROVE  u = v /\ i = k
    <3> DEFINE p == <<delivered[u][i].row, delivered[u][i].ordinal>>
               q == <<delivered[v][k].row, delivered[v][k].ordinal>>
    <3>1. p \in ItemsOf(u) /\ q \in ItemsOf(v)
      BY <2>1, <2>2, <2>4 DEF ItemsOf, Items
    <3>2. p[1] = delivered[u][i].row /\ p[2] = delivered[u][i].ordinal
          /\ q[1] = delivered[v][k].row /\ q[2] = delivered[v][k].ordinal
      OBVIOUS
    <3> HIDE DEF p, q
    <3>3. u = v /\ p = q
      BY <2>1, <2>4, <3>1, <3>2 DEF IInv, OrdinalsUnique
    <3>4. delivered[u][i].row = delivered[u][k].row /\ k \in DOMAIN delivered[u]
      BY <2>4, <3>2, <3>3
    <3> QED
      BY <2>1, <2>2, <3>3, <3>4 DEF Answered
  <2> QED
    BY <2>3, <2>4
<1> QED
  BY <1>1, TargetsInductive, PTL

\* The frame of an answer is the nearest to the time of its delta, or the end of the episode
\* that the delta passes: the sums of the code never overflow.
THEOREM FramesRight == Spec => []FramesInEpisode
<1>1. IInv => FramesInEpisode
  <2>1. SUFFICES ASSUME IInv, NEW u \in Users, NEW i \in DOMAIN delivered[u]
                 PROVE  FrameRight(bind, input[u].rows[delivered[u][i].row], delivered[u][i].frame,
                                   delivered[u][i].padding)
    <3> DEFINE Right(row, frame, padding) ==
                  LET delta == bind.deltas[row.delta_index]
                  IN \E offset \in -(2 ^ (Width - 1))..(2 ^ (Width - 1) - 1) :
                        LET distance == IF offset * Scale < delta THEN delta - offset * Scale
                                        ELSE offset * Scale - delta
                            sum == row.frame + offset
                            inside == sum \in 0..(row.length - 1)
                        IN /\ 2 * distance < Scale \/ (2 * distance = Scale /\ offset % 2 = 0)
                           /\ distance <= bind.tolerance
                           /\ padding = ~inside
                           /\ frame = IF inside THEN sum ELSE IF sum < 0 THEN 0 ELSE row.length - 1
    <3>1. ASSUME NEW row, NEW frame, NEW padding
          PROVE  FrameRight(bind, row, frame, padding) => Right(row, frame, padding)
      BY DEF FrameRight, Nearest, High
    <3>2. (\A u \in Users : \A i \in DOMAIN delivered[u] :
             Right(input[u].rows[delivered[u][i].row], delivered[u][i].frame, delivered[u][i].padding)) =>
          FramesInEpisode
      BY Zenon DEF FramesInEpisode
    <3> HIDE DEF Right
    <3> QED
      BY <3>1, <3>2
  <2>2. /\ delivered[u] \in Seq(Answer)
        /\ Answered(bind, thread[u].pc # "failed", input[u], routes[u], LeftOf(current[u], queued[u]), delivered[u])
    BY <2>1, Unpacked
  <2> QED
    BY <2>1, <2>2 DEF Answered
<1> QED
  BY <1>1, TargetsInductive, PTL

=============================================================================
