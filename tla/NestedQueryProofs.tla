------------------------- MODULE NestedQueryProofs -------------------------
(***************************************************************************)
(* What holds of nested queries and their monitor for every number of      *)
(* queries and callers: the monitor never holds a context that is gone.    *)
(***************************************************************************)
EXTENDS NestedQuery, SequenceTheorems, TLAPS

\* The steps of a query between its registration and the end of it.
Registered == {"setup", "send", "running", "check", "unregister"}

\* The list of the monitor is the set of the queries in these steps, each listed once; every
\* query that is under way has its connection; and who is registered has a thread.
IInv ==
    /\ TypeOK
    /\ ToSet(entries) = {q \in Queries : pc[q] \in Registered}
    /\ connected = {q \in Queries : pc[q] # "idle"}
    /\ \A q \in Queries : pc[q] \in Registered => worker

-----------------------------------------------------------------------------
(* Sequences without duplicates *)

Distinct(s) == \A i, k \in DOMAIN s : s[i] = s[k] => i = k

\* Appending a new element keeps the elements distinct and adds one.
LEMMA AppendDistinct ==
    ASSUME NEW S, NEW s \in Seq(S), NEW e \in S, Distinct(s), e \notin ToSet(s)
    PROVE  /\ Append(s, e) \in Seq(S) /\ Distinct(Append(s, e))
           /\ ToSet(Append(s, e)) = ToSet(s) \cup {e}
<1>1. /\ Append(s, e) \in Seq(S) /\ Len(Append(s, e)) = Len(s) + 1
      /\ \A i \in 1..Len(s) : Append(s, e)[i] = s[i]
      /\ Append(s, e)[Len(s) + 1] = e
  BY AppendProperties
<1>2. DOMAIN s = 1..Len(s) /\ DOMAIN Append(s, e) = 1..(Len(s) + 1) /\ Len(s) \in Nat
  BY <1>1, LenProperties
<1>3. Distinct(Append(s, e))
  <2> SUFFICES ASSUME NEW i \in 1..(Len(s) + 1), NEW k \in 1..(Len(s) + 1),
                      Append(s, e)[i] = Append(s, e)[k]
               PROVE  i = k
    BY <1>2 DEF Distinct
  <2>1. \A n \in 1..Len(s) : s[n] # e
    BY <1>2 DEF ToSet
  <2> QED
    BY <1>1, <1>2, <2>1 DEF Distinct
<1>4. ToSet(Append(s, e)) = ToSet(s) \cup {e}
  BY <1>1, <1>2 DEF ToSet
<1> QED
  BY <1>1, <1>3, <1>4

\* Removing a position keeps the elements distinct and removes the one that was there.
LEMMA RemoveDistinct ==
    ASSUME NEW S, NEW s \in Seq(S), Distinct(s), NEW i \in DOMAIN s
    PROVE  /\ RemoveAt(s, i) \in Seq(S) /\ Distinct(RemoveAt(s, i))
           /\ ToSet(RemoveAt(s, i)) = ToSet(s) \ {s[i]}
<1>1. DOMAIN s = 1..Len(s) /\ Len(s) \in Nat /\ i \in 1..Len(s)
  BY LenProperties
<1> DEFINE left == SubSeq(s, 1, i - 1)
           right == SubSeq(s, i + 1, Len(s))
           t == left \o right
<1>2. /\ left \in Seq(S) /\ Len(left) = i - 1
      /\ \A n \in 1..(i - 1) : left[n] = s[n]
  BY <1>1, SubSeqProperties
<1>3. /\ right \in Seq(S) /\ Len(right) = Len(s) - i
      /\ \A n \in 1..(Len(s) - i) : right[n] = s[n + i]
  BY <1>1, SubSeqProperties
<1> HIDE DEF left, right
<1>4. /\ t \in Seq(S) /\ Len(t) = Len(s) - 1
      /\ \A n \in 1..(i - 1) : t[n] = left[n]
      /\ \A n \in i..(Len(s) - 1) : t[n] = right[n - i + 1]
  <2>1. /\ t \in Seq(S) /\ Len(t) = Len(left) + Len(right)
        /\ \A n \in 1..(Len(left) + Len(right)) :
              t[n] = IF n <= Len(left) THEN left[n] ELSE right[n - Len(left)]
    BY <1>2, <1>3, ConcatProperties
  <2> HIDE DEF t
  <2>2. Len(left) + Len(right) = Len(s) - 1
    BY <1>1, <1>2, <1>3
  <2>3. \A n \in i..(Len(s) - 1) : t[n] = right[n - i + 1]
    <3> SUFFICES ASSUME NEW n \in i..(Len(s) - 1) PROVE t[n] = right[n - i + 1]
      OBVIOUS
    <3>1. n \in 1..(Len(left) + Len(right)) /\ ~(n <= Len(left)) /\ n - Len(left) = n - i + 1
      BY <1>1, <1>2, <2>2
    <3> QED
      BY <2>1, <3>1
  <2>4. \A n \in 1..(i - 1) : t[n] = left[n]
    BY <1>1, <1>2, <2>1, <2>2
  <2> QED
    BY <2>1, <2>2, <2>3, <2>4
<1> HIDE DEF t
<1>5. DOMAIN t = 1..(Len(s) - 1)
  BY <1>4, LenProperties
<1> DEFINE old(n) == IF n < i THEN n ELSE n + 1
<1>6. \A n \in 1..(Len(s) - 1) : old(n) \in 1..Len(s) \ {i} /\ t[n] = s[old(n)]
  <2> SUFFICES ASSUME NEW n \in 1..(Len(s) - 1)
               PROVE  old(n) \in 1..Len(s) \ {i} /\ t[n] = s[old(n)]
    OBVIOUS
  <2>1. CASE n < i
    BY <2>1, <1>1, <1>2, <1>4
  <2>2. CASE n >= i
    <3>1. t[n] = right[n - i + 1] /\ n - i + 1 \in 1..(Len(s) - i)
      BY <2>2, <1>1, <1>4
    <3>2. (n - i + 1) + i = n + 1
      BY <1>1
    <3>3. right[n - i + 1] = s[n + 1]
      BY <3>1, <3>2, <1>3
    <3> QED
      BY <3>1, <3>3, <2>2, <1>1
  <2> QED
    BY <2>1, <2>2, <1>1
<1>7. Distinct(t)
  BY <1>1, <1>5, <1>6 DEF Distinct
<1>8. ToSet(t) = ToSet(s) \ {s[i]}
  <2>1. \A x \in ToSet(t) : x \in ToSet(s) \ {s[i]}
    BY <1>1, <1>5, <1>6 DEF Distinct, ToSet
  <2>2. \A x \in ToSet(s) \ {s[i]} : x \in ToSet(t)
    <3> SUFFICES ASSUME NEW n \in 1..Len(s), s[n] # s[i]
                 PROVE  \E m \in 1..(Len(s) - 1) : t[m] = s[n]
      BY <1>1, <1>5 DEF ToSet
    <3>1. CASE n < i
      BY <3>1, <1>1, <1>6
    <3>2. CASE n > i
      <4>1. n - 1 \in 1..(Len(s) - 1) /\ old(n - 1) = n
        BY <3>2, <1>1
      <4> QED
        BY <4>1, <1>6
    <3> QED
      BY <3>1, <3>2, <1>1
  <2> QED
    BY <2>1, <2>2
<1>9. t = RemoveAt(s, i)
  BY DEF t, left, right, RemoveAt
<1> QED
  BY <1>4, <1>7, <1>8, <1>9

-----------------------------------------------------------------------------
(* The invariant *)

\* It holds initially.
LEMMA InitInv == Init => IInv
<1> SUFFICES ASSUME Init PROVE IInv
  OBVIOUS
<1>1. entries = <<>> /\ entries \in Seq(Queries) /\ DOMAIN entries = {}
  BY DEF Init
<1>2. ToSet(entries) = {}
  BY <1>1 DEF ToSet
<1>3. TypeOK
  BY <1>1 DEF Init, TypeOK, Steps
<1> QED
  BY <1>2, <1>3 DEF Init, IInv, Registered

\* A step of a query that leaves the monitor's list and the connections as they are, and
\* neither registers the query nor ends its registration.
LEMMA StepInv ==
    ASSUME IInv, NEW q \in Queries, NEW step \in Steps, Goto(q, step),
           pc[q] \in Registered <=> step \in Registered,
           pc[q] # "idle", step # "idle",
           child_interrupted' \subseteq Queries,
           UNCHANGED <<connected, interrupted, entries, cancelled, worker>>
    PROVE  IInv'
<1>1. pc' \in [Queries -> Steps] /\ pc'[q] = step /\ \A r \in Queries \ {q} : pc'[r] = pc[r]
  BY DEF IInv, TypeOK, Goto
<1>2. TypeOK'
  BY <1>1 DEF IInv, TypeOK
<1>3. \A r \in Queries : (pc'[r] \in Registered <=> pc[r] \in Registered)
                            /\ (pc'[r] # "idle" <=> pc[r] # "idle")
  BY <1>1
<1> QED
  BY <1>2, <1>3 DEF IInv, ToSet

\* Every step keeps it.
LEMMA NextInv == IInv /\ [Next]_vars => IInv'
<1> SUFFICES ASSUME IInv, [Next]_vars PROVE IInv'
  OBVIOUS
<1> USE DEF Registered
<1>1. ASSUME NEW q \in Queries, Connect(q) PROVE IInv'
  <2>1. pc' \in [Queries -> Steps] /\ pc'[q] = "register"
          /\ \A r \in Queries \ {q} : pc'[r] = pc[r]
    BY <1>1 DEF IInv, TypeOK, Connect, Goto, Steps
  <2>2. TypeOK'
    BY <1>1, <2>1 DEF IInv, TypeOK, Connect
  <2>3. connected' = {r \in Queries : pc'[r] # "idle"}
    BY <1>1, <2>1 DEF IInv, Connect
  <2>4. \A r \in Queries : pc'[r] \in Registered <=> pc[r] \in Registered
    BY <1>1, <2>1 DEF Connect
  <2>5. ToSet(entries)' = {r \in Queries : pc'[r] \in Registered}
    BY <1>1, <2>4 DEF IInv, Connect, ToSet
  <2> QED
    BY <1>1, <2>2, <2>3, <2>4, <2>5 DEF IInv, Connect
<1>2. ASSUME NEW q \in Queries, Register(q) PROVE IInv'
  <2>1. pc' \in [Queries -> Steps] /\ pc'[q] = "setup"
          /\ \A r \in Queries \ {q} : pc'[r] = pc[r]
    BY <1>2 DEF IInv, TypeOK, Register, Goto, Steps
  <2>2. entries \in Seq(Queries) /\ Distinct(entries) /\ q \notin ToSet(entries)
    BY <1>2 DEF IInv, TypeOK, Register, Distinct
  <2>3. /\ entries' \in Seq(Queries) /\ Distinct(entries')
        /\ ToSet(entries') = ToSet(entries) \cup {q}
    BY <1>2, <2>2, AppendDistinct DEF Register
  <2>4. TypeOK'
    BY <1>2, <2>1, <2>3 DEF IInv, TypeOK, Register, Distinct
  <2>5. ToSet(entries') = {r \in Queries : pc'[r] \in Registered}
    BY <2>1, <2>3 DEF IInv
  <2>6. connected' = {r \in Queries : pc'[r] # "idle"}
    BY <1>2, <2>1 DEF IInv, Register
  <2> QED
    BY <1>2, <2>4, <2>5, <2>6 DEF IInv, Register, ToSet
<1>3. ASSUME NEW q \in Queries, Unregister(q) PROVE IInv'
  <2>1. pc' \in [Queries -> Steps] /\ pc'[q] = "destroy"
          /\ \A r \in Queries \ {q} : pc'[r] = pc[r]
    BY <1>3 DEF IInv, TypeOK, Unregister, Goto, Steps
  <2>2. entries \in Seq(Queries) /\ Distinct(entries)
    BY DEF IInv, TypeOK, Distinct
  <2>3. /\ entries' \in Seq(Queries) /\ Distinct(entries')
        /\ ToSet(entries') = ToSet(entries) \ {q}
    BY <1>3, <2>2, RemoveDistinct DEF Unregister
  <2>4. TypeOK'
    BY <1>3, <2>1, <2>3 DEF IInv, TypeOK, Unregister, Distinct
  <2>5. ToSet(entries') = {r \in Queries : pc'[r] \in Registered}
    BY <2>1, <2>3 DEF IInv
  <2>6. connected' = {r \in Queries : pc'[r] # "idle"}
    BY <1>3, <2>1 DEF IInv, Unregister
  <2>7. \A r \in Queries : pc'[r] \in Registered => worker'
    BY <1>3, <2>1 DEF IInv, Unregister
  <2> QED
    BY <2>4, <2>5, <2>6, <2>7 DEF IInv, ToSet
<1>4. ASSUME NEW q \in Queries, Destroy(q) PROVE IInv'
  <2>1. pc' \in [Queries -> Steps] /\ pc'[q] = "idle"
          /\ \A r \in Queries \ {q} : pc'[r] = pc[r]
    BY <1>4 DEF IInv, TypeOK, Destroy, Goto, Steps
  <2>2. TypeOK'
    BY <1>4, <2>1 DEF IInv, TypeOK, Destroy
  <2>3. connected' = {r \in Queries : pc'[r] # "idle"}
    BY <1>4, <2>1 DEF IInv, Destroy
  <2>4. \A r \in Queries : pc'[r] \in Registered <=> pc[r] \in Registered
    BY <1>4, <2>1 DEF Destroy
  <2>5. ToSet(entries)' = {r \in Queries : pc'[r] \in Registered}
    BY <1>4, <2>4 DEF IInv, Destroy, ToSet
  <2> QED
    BY <1>4, <2>2, <2>3, <2>4, <2>5 DEF IInv, Destroy
<1>5. ASSUME NEW q \in Queries, RegisterFails(q) PROVE IInv'
  BY <1>5, StepInv DEF RegisterFails, Steps, IInv, TypeOK
<1>6. ASSUME NEW q \in Queries,
             SetUp(q) \/ Send(q) \/ Deliver(q) \/ Interrupted(q) \/ Check(q) \/ Fail(q)
      PROVE  IInv'
  <2>1. child_interrupted' \subseteq Queries
    BY <1>6 DEF SetUp, Send, Deliver, Interrupted, Check, Fail, IInv, TypeOK
  <2>2. \E step \in Registered : Goto(q, step)
    BY <1>6 DEF SetUp, Send, Deliver, Interrupted, Check, Fail
  <2>3. pc[q] \in Registered /\ UNCHANGED <<connected, interrupted, entries, cancelled, worker>>
    BY <1>6 DEF SetUp, Send, Deliver, Interrupted, Check, Fail
  <2>4. PICK step \in Registered : Goto(q, step)
    BY <2>2
  <2> QED
    BY <2>1, <2>3, <2>4, StepInv DEF Steps
<1>7. ASSUME Scan PROVE IInv'
  <2>1. ToSet(entries) \subseteq Queries
    BY DEF IInv
  <2>2. TypeOK'
    BY <1>7, <2>1 DEF Scan, IInv, TypeOK
  <2> QED
    BY <1>7, <2>2 DEF Scan, IInv, ToSet
<1>8. ASSUME EvictMonitor PROVE IInv'
  BY <1>8 DEF EvictMonitor, IInv, TypeOK, ToSet
<1>9. ASSUME NEW c \in Callers, Interrupt(c) PROVE IInv'
  BY <1>9 DEF Interrupt, IInv, TypeOK, ToSet
<1>10. ASSUME UNCHANGED vars PROVE IInv'
  BY <1>10 DEF vars, IInv, TypeOK, ToSet
<1> QED
  BY <1>1, <1>2, <1>3, <1>4, <1>5, <1>6, <1>7, <1>8, <1>9, <1>10 DEF Next, Step, Terminated

\* The invariant holds in every reachable state.
THEOREM Invariant == Spec => []IInv
BY InitInv, NextInv, PTL DEF Spec

\* The types, and that no query is listed twice.
THEOREM TypeCorrect == Spec => []TypeOK
<1>1. IInv => TypeOK
  BY DEF IInv
<1> QED
  BY <1>1, Invariant, PTL

\* NestedCancellationScope and the order of Impl's members keep both borrowed contexts alive
\* while the monitor can see them.
THEOREM Borrowed == Spec => []BorrowedExists
<1>1. IInv => BorrowedExists
  BY DEF IInv, BorrowedExists, Registered
<1> QED
  BY <1>1, Invariant, PTL

\* NestedCancellationMonitor's thread exists as long as there is a query to watch.
THEOREM Watched == Spec => []EntriesWatched
<1>1. IInv => EntriesWatched
  <2> SUFFICES ASSUME IInv, entries # <<>> PROVE worker
    BY DEF EntriesWatched
  <2>1. entries \in Seq(Queries) /\ Len(entries) # 0
    BY EmptySeq, SeqEqual DEF IInv, TypeOK
  <2>2. entries[1] \in ToSet(entries)
    BY <2>1, LenProperties DEF ToSet
  <2> QED
    BY <2>2 DEF IInv
<1> QED
  BY <1>1, Invariant, PTL
=============================================================================
