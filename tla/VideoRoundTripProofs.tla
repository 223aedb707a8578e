----------------------- MODULE VideoRoundTripProofs -----------------------
(***************************************************************************)
(* What the jobs of LerobotVisualWriter keep, for any number of episodes   *)
(* and frames, whatever fails or is cancelled: a job that succeeds has     *)
(* written a complete file, one that fails throws what went wrong first,   *)
(* and none that has ended holds a file, an encoder or a lock.  Then what  *)
(* LerobotShardDecoder keeps, for any file and any requests: it answers    *)
(* each target with the nearest frame, and so a row of a file that COPY    *)
(* wrote with its own frame.                                               *)
(***************************************************************************)
EXTENDS VideoRoundTrip, FiniteSetTheorems, SequenceTheorems, TLAPS

-----------------------------------------------------------------------------
(* Types *)

Errors == {"interrupted", "open", "read", "write", "seek", "sync", "close"}
Handles == {"main", "second"}
Datum == [frame : Nat \X Nat, pts : Int]
IO == [error : Errors \cup {"none"}, handles : SUBSET Handles, buffered : Seq(Datum),
       written : Seq(Datum), synced : Int, first : Errors \cup {"none"}]

Running == {"start", "encoder", "open", "frame", "drain", "output", "packets", "trailer", "moving", "close"}
JobSteps == Running \cup {"unwind", "ended"}
Thrown == Errors \cup {"none", "spool", "encoder", "ffmpeg"}

JobRecord == [pc : JobSteps, thrown : Thrown]
Encoder == [sent : Nat, codec : Seq(Nat), draining : BOOLEAN, allocated : BOOLEAN]
Concatenation == [fragment : Nat, packets : Seq(Datum), read : BOOLEAN, offset : Int]

Types ==
    /\ job \in [Jobs -> JobRecord] /\ encoder \in [Episodes -> Encoder] /\ concat \in Concatenation
    /\ io \in [Jobs -> IO] /\ input \in IO
    /\ svt_lock \in Jobs /\ cancelled \in BOOLEAN

-----------------------------------------------------------------------------
(* The invariant *)

\* What a file holds, written or not.
All(o) == o.written \o o.buffered

\* The frames of episode e up to number n, the first one at a time.
Part(e, start, n) == [k \in 1..n |-> Frame(e, k - 1, start + k - 1)]
Joined[k \in 0..Len(FrameCounts)] ==
    IF k = 0 THEN <<>> ELSE Joined[k - 1] \o Part(k, StartOf[k], FrameCounts[k])

\* The frames in the file of job j when it is complete.
Content(j) == IF j = 0 THEN Joined[Len(FrameCounts)] ELSE Part(j, StartTimes[j], FrameCounts[j])

Complete(o, content) ==
    /\ o.handles = {} /\ o.buffered = <<>> /\ o.error = "none"
    /\ o.written = content /\ o.synced = Len(o.written)

\* A job runs on only while its files have no error, and what it throws for a file is the
\* error that the file has kept, which was the first.
ErrorOK(j, jb, o, in) ==
    /\ o.error = o.first
    /\ jb.pc \in Running => jb.thrown = "none" /\ o.error = "none"
    /\ jb.thrown \in Errors \ {"interrupted", "open"} =>
          jb.thrown = o.error \/ (j = 0 /\ jb.thrown = in.error)

\* The end of a job, the same for both kinds.
FileOK(j, jb, o) ==
    /\ jb.pc = "trailer" => o.handles = {"main"} /\ All(o) = <<Header>> \o Content(j)
    /\ jb.pc = "moving" => o.handles = Handles /\ All(o) = <<Header>> \o Content(j)
    /\ jb.pc = "close" => o.handles = {"main"} /\ All(o) = Append(<<Header>> \o Content(j), Index)
    /\ jb.pc = "ended" => o.handles = {}
    /\ jb.pc \in {"unwind", "ended"} /\ jb.thrown = "none" =>
          Complete(o, Append(<<Header>> \o Content(j), Index))

\* The encoder holds the last of the frames it was sent; the file has the ones before.
Muxed(x) == x.sent - Len(x.codec)
CodecOK(e, x) ==
    /\ x.sent <= FrameCounts[e] /\ Len(x.codec) <= x.sent
    /\ x.draining => x.sent = FrameCounts[e]
    /\ \A i \in 1..Len(x.codec) : x.codec[i] = Muxed(x) + i - 1
EncodeOK(e, jb, x, o) ==
    /\ jb.pc \notin {"output", "packets"}
    /\ jb.pc \in {"start", "encoder", "open"} => o = NewIO /\ x.sent = 0 /\ x.codec = <<>>
    /\ jb.pc \in {"start", "encoder", "open", "frame"} => ~x.draining
    /\ CodecOK(e, x)
    /\ jb.pc \in {"frame", "drain"} =>
          o.handles = {"main"} /\ All(o) = <<Header>> \o Part(e, StartTimes[e], Muxed(x))

\* Who holds the lock opens or frees an encoder.
LockOK(e, jb, x, lock) ==
    /\ jb.pc \in {"start", "ended"} => ~x.allocated
    /\ jb.pc = "encoder" => x.allocated
    /\ lock = e => e \in Svt /\ (jb.pc = "encoder" \/ (jb.pc = "unwind" /\ x.allocated))

\* The concatenation has the fragments before the current one, and of this one what is no
\* longer in its packets.
ConcatOK(jb, o, c, in) ==
    LET k == c.fragment
        count == FrameCounts[k]
        copied == count - Len(c.packets)
    IN /\ in.error = in.first
       /\ jb.pc \in Running => in.error = "none"
       /\ jb.pc \notin {"encoder", "open", "frame", "drain"}
       /\ jb.pc = "ended" => in.handles = {}
       /\ jb.pc \in {"start", "output", "packets"} => k \in Episodes /\ c.offset = StartOf[k]
       /\ jb.pc \in {"start", "output"} => ~c.read
       /\ jb.pc = "output" => k = 1
       /\ jb.pc \in {"start", "output", "packets"} /\ ~c.read => c.packets = <<>>
       /\ jb.pc \in {"start", "output"} /\ k = 1 => o = NewIO
       /\ jb.pc = "packets" \/ (jb.pc = "start" /\ k # 1) =>
             /\ o.handles = {"main"}
             /\ ~c.read => All(o) = <<Header>> \o Joined[k - 1]
       /\ jb.pc = "packets" /\ c.read =>
             /\ Len(c.packets) <= count
             /\ \A i \in 1..Len(c.packets) :
                   c.packets[i] = Frame(k, copied + i - 1, StartTimes[k] + (copied + i - 1))
             /\ All(o) = <<Header>> \o (Joined[k - 1] \o Part(k, StartOf[k], copied))

IInv ==
    /\ Types
    /\ \A j \in Jobs : ErrorOK(j, job[j], io[j], input) /\ FileOK(j, job[j], io[j])
    /\ \A e \in Episodes : EncodeOK(e, job[e], encoder[e], io[e]) /\ LockOK(e, job[e], encoder[e], svt_lock)
    /\ ConcatOK(job[0], io[0], concat, input)
    /\ job[0].pc \in {"output", "packets"} => \A e \in Episodes : Succeeded(e)

-----------------------------------------------------------------------------
(* Sequences *)

LEMMA ListIs ==
    ASSUME NEW S, NEW n \in Nat, NEW q \in [1..n -> S] PROVE q \in Seq(S) /\ Len(q) = n
  OBVIOUS

LEMMA AppendJoined ==
    ASSUME NEW S, NEW q \in Seq(S), NEW r \in Seq(S), NEW d \in S
    PROVE  q \o Append(r, d) = Append(q \o r, d)
<1>1. q \o r \in Seq(S) /\ <<d>> \in Seq(S)
  BY ConcatProperties
<1>2. \A t \in Seq(S) : Append(t, d) = t \o <<d>>
  BY AppendIsConcat, Zenon
<1> QED
  BY <1>1, <1>2, ConcatAssociative

LEMMA FrameType == \A e, n \in Nat : \A pts \in Int : Frame(e, n, pts) \in Datum
  BY DEF Frame, Datum

LEMMA Marks == Header \in Datum /\ Index \in Datum /\ <<Header>> \in Seq(Datum)
  BY DEF Header, Index, Frame, Datum

LEMMA EpisodesType ==
    /\ Len(FrameCounts) \in Nat \ {0} /\ Episodes = 1..Len(FrameCounts)
    /\ \A e \in Episodes : e \in Nat \ {0} /\ e \in Jobs /\ FrameCounts[e] \in Nat \ {0} /\ StartTimes[e] \in Int
    /\ 0 \in Jobs /\ \A j \in Jobs : j \in Nat /\ (j # 0 => j \in Episodes)
  BY EpisodesAssumption DEF Episodes, Jobs

\* Frames one by one.
LEMMA PartSteps ==
    ASSUME NEW e \in Nat, NEW start \in Int
    PROVE  /\ Part(e, start, 0) = <<>>
           /\ \A n \in Nat : Part(e, start, n) \in Seq(Datum) /\ Len(Part(e, start, n)) = n
           /\ \A n \in Nat : Part(e, start, n + 1) = Append(Part(e, start, n), Frame(e, n, start + n))
<1>1. Part(e, start, 0) = <<>>
  BY DEF Part
<1>2. ASSUME NEW n \in Nat
      PROVE  Part(e, start, n) \in Seq(Datum) /\ Len(Part(e, start, n)) = n
  <2>1. \A k \in 1..n : Frame(e, k - 1, start + k - 1) \in Datum
    <3>1. \A k \in 1..n : k - 1 \in Nat /\ start + k - 1 \in Int
      OBVIOUS
    <3> QED
      BY <3>1, FrameType
  <2>2. Part(e, start, n) \in [1..n -> Datum]
    BY <2>1 DEF Part
  <2> QED
    BY <2>2
<1>3. ASSUME NEW n \in Nat
      PROVE  Part(e, start, n + 1) = Append(Part(e, start, n), Frame(e, n, start + n))
  <2> DEFINE p == Part(e, start, n)
             d == Frame(e, n, start + n)
             r == Part(e, start, n + 1)
  <2>1. d \in Datum
    BY FrameType
  <2>2. p \in Seq(Datum) /\ Len(p) = n /\ r \in Seq(Datum) /\ Len(r) = n + 1
    BY <1>2
  <2>3. \A k \in 1..n : p[k] = Frame(e, k - 1, start + k - 1)
    BY DEF Part
  <2>4. \A k \in 1..(n + 1) : r[k] = Frame(e, k - 1, start + k - 1)
    BY DEF Part
  <2>5. r[n + 1] = d
    <3>1. n + 1 \in 1..(n + 1) /\ (n + 1) - 1 = n /\ start + (n + 1) - 1 = start + n
      OBVIOUS
    <3> QED
      BY <2>4, <3>1
  <2> HIDE DEF p, d, r
  <2>6. /\ Append(p, d) \in Seq(Datum) /\ Len(Append(p, d)) = n + 1
        /\ \A k \in 1..n : Append(p, d)[k] = p[k]
        /\ Append(p, d)[n + 1] = d
    BY <2>1, <2>2
  <2>7. ASSUME NEW k \in 1..(n + 1) PROVE r[k] = Append(p, d)[k]
    <3>1. CASE k \in 1..n
      BY <2>3, <2>4, <2>6, <3>1
    <3>2. CASE k = n + 1
      BY <2>5, <2>6, <3>2
    <3>3. k \in 1..n \/ k = n + 1
      OBVIOUS
    <3> QED
      BY <3>1, <3>2, <3>3
  <2>8. r = Append(p, d)
    BY <2>2, <2>6, <2>7, SeqEqual
  <2> QED
    BY <2>8 DEF p, d, r
<1> QED
  BY <1>1, <1>2, <1>3

LEMMA NatLeast == ASSUME NEW T, T \subseteq Nat, T # {} PROVE \E x \in T : \A y \in T : x <= y
<1> DEFINE R == OpToRel(<, Nat)
<1>1. IsWellFoundedOn(R, Nat)
  BY NatLessThanWellFounded
<1>2. \A x, y \in Nat : x < y => <<x, y>> \in R
  <2> SUFFICES ASSUME NEW x \in Nat, NEW y \in Nat, x < y PROVE <<x, y>> \in R
    OBVIOUS
  <2>1. <<x, y>> \in Nat \X Nat /\ <<x, y>>[1] < <<x, y>>[2]
    OBVIOUS
  <2> QED
    BY <2>1 DEF OpToRel
<1> HIDE DEF R
<1>3. PICK x \in T : \A y \in T : ~(<<y, x>> \in R)
  BY <1>1, WFMin
<1>4. \A y \in T : x <= y
  <2>1. SUFFICES ASSUME NEW y \in T, ~(x <= y) PROVE FALSE
    OBVIOUS
  <2>2. x \in Nat /\ y \in Nat /\ y < x
    BY <2>1
  <2> QED
    BY <1>2, <1>3, <2>2
<1> QED
  BY <1>4

\* Induction, for the set of the numbers that have a property.
LEMMA NatInd ==
    ASSUME NEW T, 0 \in T, \A n \in Nat : n \in T => n + 1 \in T PROVE Nat \subseteq T
<1>1. SUFFICES ASSUME Nat \ T # {} PROVE FALSE
  OBVIOUS
<1>2. PICK x \in Nat \ T : \A y \in Nat \ T : x <= y
  BY <1>1, NatLeast
<1>3. x # 0 /\ x - 1 \in Nat
  BY <1>2
<1>4. x - 1 \in T /\ x = (x - 1) + 1
  BY <1>2, <1>3
<1> QED
  BY <1>2, <1>3, <1>4

\* A recursive function on numbers up to n exists, its step a function G.
Closed(D, n, G) == \A i \in 1..n : \A x \in D : G[<<x, i>>] \in D
Unfolds(D, n, base, G) ==
    \E f \in [0..n -> D] : f[0] = base /\ \A i \in 1..n : f[i] = G[<<f[i - 1], i>>]

LEMMA Recursion ==
    ASSUME NEW D, NEW n \in Nat, NEW base \in D, NEW G, Closed(D, n, G)
    PROVE  Unfolds(D, n, base, G)
<1> DEFINE Good(f, m) == f \in [0..m -> D] /\ f[0] = base /\ \A i \in 1..m : f[i] = G[<<f[i - 1], i>>]
           T == {m \in Nat : m <= n => \E f : Good(f, m)}
<1>1. 0 \in T
  <2>1. Good([i \in 0..0 |-> base], 0)
    OBVIOUS
  <2> QED
    BY <2>1
<1>2. ASSUME NEW m \in Nat, m \in T PROVE m + 1 \in T
  <2>1. SUFFICES ASSUME m + 1 <= n PROVE \E g : Good(g, m + 1)
    OBVIOUS
  <2>2. PICK f : Good(f, m)
    BY <1>2, <2>1
  <2> DEFINE g == [i \in 0..(m + 1) |-> IF i = m + 1 THEN G[<<f[m], m + 1>>] ELSE f[i]]
  <2>3. f[m] \in D /\ m + 1 \in 1..n
    BY <2>1, <2>2
  <2>4. g \in [0..(m + 1) -> D] /\ g[0] = base
    BY <2>2, <2>3 DEF Closed
  <2>5. ASSUME NEW i \in 1..(m + 1) PROVE g[i] = G[<<g[i - 1], i>>]
    <3>1. CASE i = m + 1
      <4>1. i - 1 = m /\ g[m] = f[m] /\ g[m + 1] = G[<<f[m], m + 1>>]
        BY <3>1
      <4> HIDE DEF g
      <4> QED
        BY <3>1, <4>1
    <3>2. CASE i # m + 1
      <4>1. i \in 1..m /\ i - 1 \in 0..m /\ i - 1 # m + 1
        BY <3>2
      <4>2. g[i] = f[i] /\ g[i - 1] = f[i - 1] /\ f[i] = G[<<f[i - 1], i>>]
        BY <2>2, <4>1
      <4> HIDE DEF g
      <4> QED
        BY <4>2
    <3> QED
      BY <3>1, <3>2
  <2> HIDE DEF g
  <2> QED
    BY <2>4, <2>5
<1>3. n \in T
  <2> HIDE DEF T
  <2> QED
    BY <1>1, <1>2, NatInd
<1> QED
  BY <1>3 DEF Unfolds

LEMMA StartOfIs ==
    /\ \A e \in Episodes : StartOf[e] = IF e = 1 THEN 0 ELSE StartOf[e - 1] + FrameCounts[e - 1]
    /\ \A e \in Episodes : StartOf[e] \in Nat
<1> DEFINE N == Len(FrameCounts)
           G == [p \in Nat \X (1..N) |-> p[1] + FrameCounts[p[2]]]
           Step1(f, e) == IF e = 1 THEN 0 ELSE f[e - 1] + FrameCounts[e - 1]
<1>1. N \in Nat /\ Episodes = 1..N /\ \A e \in 1..N : FrameCounts[e] \in Nat
  BY EpisodesType
<1>2. \A i \in 1..N : \A x \in Nat : G[<<x, i>>] = x + FrameCounts[i] /\ G[<<x, i>>] \in Nat
  BY <1>1
<1>3. PICK f \in [0..N -> Nat] : f[0] = 0 /\ \A i \in 1..N : f[i] = G[<<f[i - 1], i>>]
  <2> HIDE DEF G, N
  <2>1. N \in Nat /\ 0 \in Nat /\ Closed(Nat, N, G)
    BY <1>1, <1>2 DEF Closed
  <2>2. Unfolds(Nat, N, 0, G)
    BY <2>1, Recursion
  <2> QED
    BY <2>2 DEF Unfolds
<1> DEFINE g == [e \in Episodes |-> f[e - 1]]
<1>4. \A e \in Episodes : g[e] = Step1(g, e)
  <2>1. SUFFICES ASSUME NEW e \in Episodes PROVE g[e] = Step1(g, e)
    OBVIOUS
  <2>2. e \in 1..N /\ g[e] = f[e - 1]
    BY <1>1
  <2>3. CASE e = 1
    BY <1>3, <2>2, <2>3
  <2>4. CASE e # 1
    <3>1. e - 1 \in 1..N /\ (e - 1) - 1 \in 0..N
      BY <1>1, <2>2, <2>4
    <3>2. g[e - 1] = f[(e - 1) - 1] /\ f[(e - 1) - 1] \in Nat
      BY <1>1, <1>3, <3>1
    <3>3. f[e - 1] = f[(e - 1) - 1] + FrameCounts[e - 1]
      BY <1>2, <1>3, <3>1, <3>2
    <3> HIDE DEF g, G, N
    <3> QED
      BY <2>2, <2>4, <3>2, <3>3
  <2> QED
    BY <2>3, <2>4
<1>5. g = [e \in Episodes |-> Step1(g, e)]
  <2>1. g = [e \in Episodes |-> g[e]]
    OBVIOUS
  <2> HIDE DEF g, Step1
  <2> QED
    BY <1>4, <2>1
<1>6. StartOf = [e \in Episodes |-> Step1(StartOf, e)]
  <2>1. \E h : h = [e \in Episodes |-> Step1(h, e)]
    <3> HIDE DEF g, Step1
    <3> QED
      BY <1>5
  <2>2. StartOf = CHOOSE h : h = [e \in Episodes |-> Step1(h, e)]
    BY DEF StartOf
  <2> HIDE DEF Step1
  <2> QED
    BY <2>1, <2>2
<1>7. \A e \in Episodes : StartOf[e] = Step1(StartOf, e)
  <2> HIDE DEF Step1
  <2> QED
    BY <1>6
<1>8. \A e \in Episodes : StartOf[e] \in Nat
  <2> DEFINE T == {m \in Nat : m \in Episodes => StartOf[m] \in Nat}
  <2>1. 0 \in T
    BY <1>1
  <2>2. ASSUME NEW m \in Nat, m \in T PROVE m + 1 \in T
    <3>1. SUFFICES ASSUME m + 1 \in 1..N, m # 0 PROVE StartOf[m + 1] \in Nat
      BY <1>1, <1>7
    <3>2. m \in 1..N /\ (m + 1) - 1 = m /\ m + 1 # 1
      BY <1>1, <3>1
    <3>3. StartOf[m] \in Nat /\ StartOf[m + 1] = StartOf[m] + FrameCounts[m]
      BY <1>1, <1>7, <2>2, <3>1, <3>2
    <3> QED
      BY <1>1, <3>2, <3>3
  <2>3. \A m \in Nat : m \in T
    <3> HIDE DEF T
    <3> QED
      BY <2>1, <2>2, NatInd
  <2> QED
    BY <1>1, <2>3
<1> QED
  BY <1>7, <1>8

LEMMA JoinedIs ==
    /\ Joined[0] = <<>>
    /\ \A k \in Episodes : Joined[k] = Joined[k - 1] \o Part(k, StartOf[k], FrameCounts[k])
    /\ \A k \in 0..Len(FrameCounts) : Joined[k] \in Seq(Datum)
<1> DEFINE N == Len(FrameCounts)
           P(k) == Part(k, StartOf[k], FrameCounts[k])
           G == [p \in Seq(Datum) \X (1..N) |-> p[1] \o P(p[2])]
           Step1(f, k) == IF k = 0 THEN <<>> ELSE f[k - 1] \o P(k)
<1>1. N \in Nat /\ Episodes = 1..N /\ \A k \in 1..N : P(k) \in Seq(Datum)
  <2>1. \A k \in Episodes : k \in Nat /\ FrameCounts[k] \in Nat /\ StartOf[k] \in Int
    BY EpisodesType, StartOfIs
  <2>2. \A k \in Episodes : P(k) \in Seq(Datum)
    BY <2>1, PartSteps
  <2> QED
    BY <2>2, EpisodesType
<1>2. \A i \in 1..N : \A x \in Seq(Datum) : G[<<x, i>>] = x \o P(i) /\ G[<<x, i>>] \in Seq(Datum)
  <2> HIDE DEF P
  <2>1. \A i \in 1..N : \A x \in Seq(Datum) : x \o P(i) \in Seq(Datum)
    BY <1>1, ConcatProperties
  <2>2. \A i \in 1..N : \A x \in Seq(Datum) : G[<<x, i>>] = x \o P(i)
    OBVIOUS
  <2> QED
    BY <2>1, <2>2
<1>3. PICK f \in [0..N -> Seq(Datum)] : f[0] = <<>> /\ \A i \in 1..N : f[i] = G[<<f[i - 1], i>>]
  <2>1. <<>> \in Seq(Datum)
    OBVIOUS
  <2> HIDE DEF G, N, P
  <2>2. N \in Nat /\ Closed(Seq(Datum), N, G)
    BY <1>1, <1>2 DEF Closed
  <2>3. Unfolds(Seq(Datum), N, <<>>, G)
    BY <2>1, <2>2, Recursion
  <2> QED
    BY <2>3 DEF Unfolds
<1>4. \A k \in 0..N : f[k] = Step1(f, k)
  <2>1. SUFFICES ASSUME NEW k \in 0..N PROVE f[k] = Step1(f, k)
    OBVIOUS
  <2>2. CASE k = 0
    BY <1>3, <2>2
  <2>3. CASE k # 0
    <3>1. k \in 1..N /\ k - 1 \in 0..N
      BY <1>1, <2>3
    <3>2. f[k - 1] \in Seq(Datum)
      BY <1>3, <3>1
    <3> HIDE DEF P, G, N
    <3> QED
      BY <1>2, <1>3, <2>3, <3>1, <3>2
  <2> QED
    BY <2>2, <2>3
<1>5. f = [k \in 0..N |-> Step1(f, k)]
  <2>1. f = [k \in 0..N |-> f[k]]
    BY <1>3
  <2> HIDE DEF Step1
  <2> QED
    BY <1>4, <2>1
<1>6. Joined = [k \in 0..N |-> Step1(Joined, k)]
  <2>1. \E h : h = [k \in 0..N |-> Step1(h, k)]
    <3> HIDE DEF Step1
    <3> QED
      BY <1>5
  <2>2. Joined = CHOOSE h : h = [k \in 0..N |-> Step1(h, k)]
    BY DEF Joined
  <2> HIDE DEF Step1
  <2> QED
    BY <2>1, <2>2
<1>7. \A k \in 0..N : Joined[k] = Step1(Joined, k)
  <2> HIDE DEF Step1
  <2> QED
    BY <1>6
<1>8. /\ Joined[0] = <<>>
      /\ \A k \in Episodes : Joined[k] = Joined[k - 1] \o P(k)
  <2>1. 0 \in 0..N /\ \A k \in 1..N : k \in 0..N /\ k # 0
    BY <1>1
  <2> HIDE DEF P, N
  <2> QED
    BY <1>1, <1>7, <2>1
<1>9. \A k \in 0..N : Joined[k] \in Seq(Datum)
  <2> DEFINE T == {m \in Nat : m <= N => Joined[m] \in Seq(Datum)}
  <2>1. 0 \in T
    BY <1>8, EmptySeq
  <2>2. ASSUME NEW m \in Nat, m \in T PROVE m + 1 \in T
    <3>1. SUFFICES ASSUME m + 1 <= N PROVE Joined[m + 1] \in Seq(Datum)
      OBVIOUS
    <3>2. m + 1 \in 1..N /\ (m + 1) - 1 = m /\ Joined[m] \in Seq(Datum)
      BY <1>1, <2>2, <3>1
    <3>3. Joined[m + 1] = Joined[m] \o P(m + 1) /\ P(m + 1) \in Seq(Datum)
      BY <1>1, <1>8, <3>2
    <3> HIDE DEF P
    <3> QED
      BY <3>2, <3>3, ConcatProperties
  <2>3. \A m \in Nat : m \in T
    <3> HIDE DEF T
    <3> QED
      BY <2>1, <2>2, NatInd
  <2> QED
    BY <1>1, <2>3
<1> QED
  BY <1>8, <1>9

\* FlattenSeq is a recursive function too.
LEMMA FlattenIs ==
    ASSUME NEW X, NEW seqs \in Seq(Seq(X)), Len(seqs) # 0
    PROVE  \E f : /\ FlattenSeq(seqs) = f[Len(seqs)]
                  /\ \A i \in 1..Len(seqs) : f[i] = IF i = 1 THEN seqs[i] ELSE f[i - 1] \o seqs[i]
<1> DEFINE N == Len(seqs)
           G == [p \in Seq(X) \X (1..N) |-> p[1] \o seqs[p[2]]]
           Step1(f, i) == IF i = 1 THEN seqs[i] ELSE f[i - 1] \o seqs[i]
           flatten == CHOOSE f : f = [i \in 1..N |-> Step1(f, i)]
<1>1. N \in Nat /\ N # 0 /\ \A i \in 1..N : seqs[i] \in Seq(X)
  OBVIOUS
<1>2. \A i \in 1..N : \A x \in Seq(X) : G[<<x, i>>] = x \o seqs[i] /\ x \o seqs[i] \in Seq(X)
  <2>1. \A i \in 1..N : \A x \in Seq(X) : x \o seqs[i] \in Seq(X)
    BY <1>1, ConcatProperties
  <2>2. \A i \in 1..N : \A x \in Seq(X) : G[<<x, i>>] = x \o seqs[i]
    OBVIOUS
  <2> QED
    BY <2>1, <2>2
<1>3. PICK f \in [0..N -> Seq(X)] : f[0] = <<>> /\ \A i \in 1..N : f[i] = G[<<f[i - 1], i>>]
  <2> HIDE DEF G, N
  <2>1. N \in Nat /\ <<>> \in Seq(X) /\ Closed(Seq(X), N, G)
    BY <1>1, <1>2, EmptySeq DEF Closed
  <2>2. Unfolds(Seq(X), N, <<>>, G)
    BY <2>1, Recursion
  <2> QED
    BY <2>2 DEF Unfolds
<1> DEFINE g == [i \in 1..N |-> f[i]]
<1>4. \A i \in 1..N : g[i] = Step1(g, i)
  <2>1. SUFFICES ASSUME NEW i \in 1..N PROVE g[i] = Step1(g, i)
    OBVIOUS
  <2>2. i - 1 \in 0..N /\ f[i - 1] \in Seq(X) /\ g[i] = f[i - 1] \o seqs[i]
    <3>1. i - 1 \in 0..N /\ f[i - 1] \in Seq(X) /\ g[i] = f[i]
      <4>1. i - 1 \in 0..N /\ g[i] = f[i]
        BY <1>1
      <4> HIDE DEF G, g, N
      <4> QED
        BY <1>3, <4>1
    <3>2. f[i] = G[<<f[i - 1], i>>] /\ G[<<f[i - 1], i>>] = f[i - 1] \o seqs[i]
      <4> HIDE DEF G, g, N
      <4> QED
        BY <1>2, <1>3, <3>1
    <3> HIDE DEF G, g, N
    <3> QED
      BY <3>1, <3>2
  <2>3. CASE i = 1
    <3>1. f[i - 1] = <<>> /\ seqs[i] \in Seq(X)
      BY <1>1, <1>3, <2>3
    <3>2. g[i] = seqs[i]
      BY <2>2, <3>1, ConcatEmptySeq
    <3> HIDE DEF g
    <3> QED
      BY <2>3, <3>2
  <2>4. CASE i # 1
    <3>1. i - 1 \in 1..N
      BY <1>1, <2>4
    <3>2. g[i - 1] = f[i - 1]
      BY <3>1
    <3> HIDE DEF g, N
    <3> QED
      BY <2>2, <2>4, <3>2
  <2> QED
    BY <2>3, <2>4
<1>5. g = [i \in 1..N |-> Step1(g, i)]
  <2>1. g = [i \in 1..N |-> g[i]]
    OBVIOUS
  <2> HIDE DEF g, Step1
  <2> QED
    BY <1>4, <2>1
<1>6. flatten = [i \in 1..N |-> Step1(flatten, i)]
  <2>1. \E h : h = [i \in 1..N |-> Step1(h, i)]
    <3> HIDE DEF g, Step1
    <3> QED
      BY <1>5
  <2> HIDE DEF Step1, N
  <2> QED
    BY <2>1
<1>7. \A i \in 1..N : flatten[i] = Step1(flatten, i)
  <2> HIDE DEF Step1, flatten
  <2> QED
    BY <1>6
<1>8. FlattenSeq(seqs) = flatten[N]
  BY <1>1 DEF FlattenSeq
<1> HIDE DEF flatten
<1> QED
  BY <1>7, <1>8

\* What FilesComplete asks of the file of an episode, and of the one they are joined in.
LEMMA EpisodeFrames ==
    \A e \in Episodes : FramesOf(<<e>>, StartTimes) = Part(e, StartTimes[e], FrameCounts[e])
<1> SUFFICES ASSUME NEW e \in Episodes
             PROVE  FramesOf(<<e>>, StartTimes) = Part(e, StartTimes[e], FrameCounts[e])
  OBVIOUS
<1> DEFINE q == <<e>>
           P == Part(e, StartTimes[e], FrameCounts[e])
           seqs == [k \in DOMAIN q |-> [n \in 1..FrameCounts[q[k]] |->
                                           Frame(q[k], n - 1, StartTimes[q[k]] + n - 1)]]
<1>1. DOMAIN q = 1..1 /\ q[1] = e
  OBVIOUS
<1>2. P \in Seq(Datum)
  BY EpisodesType, PartSteps
<1>3. DOMAIN seqs = 1..1 /\ seqs[1] = P
  <2> HIDE DEF q
  <2> QED
    BY <1>1 DEF Part
<1>4. seqs \in [1..1 -> Seq(Datum)]
  <2>1. seqs = [k \in 1..1 |-> seqs[k]] /\ \A k \in 1..1 : k = 1
    BY <1>3
  <2> HIDE DEF seqs, P
  <2> QED
    BY <1>2, <1>3, <2>1
<1>5. seqs \in Seq(Seq(Datum)) /\ Len(seqs) = 1
  <2> HIDE DEF seqs
  <2>1. 1 \in Nat
    OBVIOUS
  <2> QED
    BY <1>4, <2>1, ListIs
<1>6. FlattenSeq(seqs) = P
  <2> HIDE DEF seqs
  <2>1. PICK f : /\ FlattenSeq(seqs) = f[1]
                 /\ \A i \in 1..1 : f[i] = IF i = 1 THEN seqs[i] ELSE f[i - 1] \o seqs[i]
    BY <1>5, FlattenIs
  <2> QED
    BY <1>3, <2>1
<1> QED
  BY <1>6 DEF FramesOf

LEMMA AllFrames ==
    FramesOf([e \in Episodes |-> e], [e \in Episodes |-> ShownAt(e, 0)]) = Joined[Len(FrameCounts)]
<1> DEFINE N == Len(FrameCounts)
           q == [e \in Episodes |-> e]
           starts == [e \in Episodes |-> ShownAt(e, 0)]
           P(k) == Part(k, StartOf[k], FrameCounts[k])
           seqs == [k \in DOMAIN q |-> [n \in 1..FrameCounts[q[k]] |->
                                           Frame(q[k], n - 1, starts[q[k]] + n - 1)]]
<1>1. N \in Nat \ {0} /\ Episodes = 1..N
  BY EpisodesType
<1>2. \A k \in 1..N : q[k] = k /\ starts[k] = StartOf[k]
  BY <1>1, StartOfIs DEF ShownAt
<1>3. DOMAIN seqs = 1..N /\ \A k \in 1..N : seqs[k] = P(k)
  <2>1. DOMAIN q = 1..N
    BY <1>1
  <2> HIDE DEF q, starts
  <2> QED
    BY <1>2, <2>1 DEF Part
<1>4. \A k \in 1..N : P(k) \in Seq(Datum)
  <2>1. \A k \in Episodes : k \in Nat /\ FrameCounts[k] \in Nat /\ StartOf[k] \in Int
    BY EpisodesType, StartOfIs
  <2> QED
    BY <1>1, <2>1, PartSteps
<1>5. seqs \in Seq(Seq(Datum)) /\ Len(seqs) = N
  <2>1. seqs = [k \in 1..N |-> seqs[k]]
    BY <1>3
  <2> HIDE DEF seqs, P, N
  <2>2. seqs \in [1..N -> Seq(Datum)]
    BY <1>3, <1>4, <2>1
  <2> QED
    BY <1>1, <2>2
<1>6. PICK f : /\ FlattenSeq(seqs) = f[N]
               /\ \A i \in 1..N : f[i] = IF i = 1 THEN seqs[i] ELSE f[i - 1] \o seqs[i]
  <2>1. Len(seqs) # 0 /\ N = Len(seqs)
    BY <1>1, <1>5
  <2> HIDE DEF seqs, N
  <2>2. \E f : /\ FlattenSeq(seqs) = f[Len(seqs)]
              /\ \A i \in 1..Len(seqs) : f[i] = IF i = 1 THEN seqs[i] ELSE f[i - 1] \o seqs[i]
    BY <1>5, <2>1, FlattenIs
  <2> QED
    BY <2>1, <2>2
<1> DEFINE T == {m \in Nat : m \in 1..N => f[m] = Joined[m]}
<1>7. 0 \in T
  OBVIOUS
<1>8. ASSUME NEW m \in Nat, m \in T PROVE m + 1 \in T
  <2>1. SUFFICES ASSUME m + 1 \in 1..N PROVE f[m + 1] = Joined[m + 1]
    OBVIOUS
  <2>2. Joined[m + 1] = Joined[m] \o P(m + 1) /\ seqs[m + 1] = P(m + 1)
    <3>1. (m + 1) - 1 = m
      OBVIOUS
    <3> HIDE DEF seqs
    <3> QED
      BY <1>1, <1>3, <2>1, <3>1, JoinedIs
  <2> HIDE DEF seqs, P
  <2>3. CASE m = 0
    <3>1. f[m + 1] = P(m + 1)
      BY <1>6, <2>1, <2>2, <2>3
    <3>2. Joined[m] = <<>> /\ P(m + 1) \in Seq(Datum)
      BY <1>4, <2>1, <2>3, JoinedIs
    <3> QED
      BY <2>2, <3>1, <3>2, ConcatEmptySeq
  <2>4. CASE m # 0
    <3>1. m \in 1..N /\ (m + 1) - 1 = m /\ m + 1 # 1
      BY <1>1, <2>1, <2>4
    <3>2. f[m] = Joined[m] /\ f[m + 1] = f[m] \o seqs[m + 1]
      BY <1>6, <1>8, <2>1, <3>1
    <3> QED
      BY <2>2, <3>2
  <2> QED
    BY <2>3, <2>4
<1>9. N \in T
  <2> HIDE DEF T
  <2> QED
    BY <1>1, <1>7, <1>8, NatInd
<1>10. FlattenSeq(seqs) = Joined[N]
  BY <1>1, <1>6, <1>9
<1> QED
  BY <1>10 DEF FramesOf

-----------------------------------------------------------------------------
(* LerobotVideoIO *)

LEMMA NewIOType == /\ NewIO \in IO /\ NewIO.error = "none" /\ NewIO.first = "none"
                   /\ NewIO.handles = {} /\ NewIO.written = <<>> /\ NewIO.buffered = <<>>
  BY DEF NewIO, IO

LEMMA AllType == \A o \in IO : All(o) \in Seq(Datum)
<1> SUFFICES ASSUME NEW o \in IO PROVE All(o) \in Seq(Datum)
  OBVIOUS
<1>1. o.written \in Seq(Datum) /\ o.buffered \in Seq(Datum)
  BY DEF IO
<1> QED
  BY <1>1, ConcatProperties DEF All

\* An operation keeps the first error, and the data unless it leaves an error.
GoodIO(o) == o \in IO /\ o.error = o.first
Follows(o, p) ==
    /\ GoodIO(p)
    /\ o.error # "none" => p.error = o.error
    /\ p.error = "none" => All(p) = All(o)

LEMMA FollowsOn == \A o, p, q : Follows(o, p) /\ Follows(p, q) => Follows(o, q)
  BY DEF Follows

LEMMA FailsIO ==
    ASSUME NEW o, GoodIO(o), NEW d, GoodIO(d), d.error = o.error, NEW e \in Errors
    PROVE  LET p == Fails(d, e)
           IN Follows(o, p) /\ p.handles = d.handles /\ p.error # "none"
<1> DEFINE p == Fails(d, e)
<1>0. e # "none" /\ o \in IO /\ d \in IO /\ o.error = o.first /\ d.error = d.first
  BY DEF Errors, GoodIO
<1>1. CASE d.error = "none"
  <2>1. p = [d EXCEPT !.first = e, !.error = e]
    BY <1>0, <1>1 DEF Fails, RecordError, IO
  <2> QED
    BY <1>0, <1>1, <2>1 DEF Follows, GoodIO, IO
<1>2. CASE d.error # "none"
  <2>1. p = d
    BY <1>0, <1>2 DEF Fails, RecordError, IO
  <2> QED
    BY <1>0, <1>2, <2>1 DEF Follows, GoodIO, IO
<1> QED
  BY <1>1, <1>2

LEMMA CheckIO ==
    ASSUME NEW o, GoodIO(o), NEW c \in BOOLEAN
    PROVE  /\ Check(o, c) \in Errors \cup {"none"}
           /\ Check(o, c) = "none" => o.error = "none"
           /\ Check(o, c) # "none" => Check(o, c) \in Errors
           /\ Check(o, c) \in Errors \ {"interrupted"} => Check(o, c) = o.error
  BY DEF Check, GoodIO, IO, Errors

LEMMA OrIn == \A S, x : x \in Or(S) => x \in S
  BY DEF Or

LEMMA SameIO == \A o : GoodIO(o) => Follows(o, o)
  BY DEF Follows

LEMMA WriteIO ==
    ASSUME NEW o, GoodIO(o), NEW c \in BOOLEAN, NEW p \in Write(o, c)
    PROVE  Follows(o, p) /\ p.handles = o.handles /\ (p.error = "none" => p.buffered = <<>>)
<1> DEFINE dropped == [o EXCEPT !.buffered = <<>>]
<1>0. o \in IO /\ o.error = o.first /\ o.buffered \in Seq(Datum) /\ o.written \in Seq(Datum)
  BY DEF GoodIO, IO
<1>1. GoodIO(dropped) /\ dropped.error = o.error /\ dropped.handles = o.handles
  BY <1>0, EmptySeq DEF GoodIO, IO
<1>2. CASE o.buffered = <<>>
  <2>1. p = o
    BY <1>2 DEF Write
  <2> QED
    BY <1>2, <2>1, SameIO
<1>3. ASSUME NEW e \in Errors, p = Fails(dropped, e)
      PROVE  Follows(o, p) /\ p.handles = o.handles /\ p.error # "none"
  <2> HIDE DEF dropped
  <2> QED
    BY <1>1, <1>3, FailsIO
<1>4. CASE p = [dropped EXCEPT !.written = @ \o o.buffered]
  <2>1. o.written \o o.buffered \in Seq(Datum)
    BY <1>0, ConcatProperties
  <2>2. p = [o EXCEPT !.buffered = <<>>, !.written = o.written \o o.buffered]
    BY <1>0, <1>4 DEF IO
  <2>3. /\ p \in IO /\ p.error = o.error /\ p.first = o.first /\ p.handles = o.handles
        /\ p.buffered = <<>> /\ p.written = o.written \o o.buffered
    BY <1>0, <2>1, <2>2, EmptySeq DEF IO
  <2>4. All(p) = All(o)
    BY <2>1, <2>3, ConcatEmptySeq DEF All
  <2> QED
    BY <1>0, <2>3, <2>4 DEF Follows, GoodIO
<1>5. CASE o.buffered # <<>> /\ Check(o, c) # "none"
  <2>1. p = Fails(dropped, Check(o, c)) /\ Check(o, c) \in Errors
    BY <1>5, CheckIO DEF Write
  <2> QED
    BY <1>3, <2>1
<1>6. CASE o.buffered # <<>> /\ Check(o, c) = "none"
  <2>1. p = [dropped EXCEPT !.written = @ \o o.buffered] \/ p = Fails(dropped, "write")
    BY <1>6, OrIn DEF Write
  <2>2. "write" \in Errors
    BY DEF Errors
  <2> HIDE DEF dropped
  <2> QED
    BY <1>3, <1>4, <2>1, <2>2
<1> QED
  BY <1>2, <1>5, <1>6

LEMMA ReadIO ==
    ASSUME NEW o, GoodIO(o), NEW c \in BOOLEAN, NEW p \in Read(o, c) \cup Seek(o, c)
    PROVE  Follows(o, p) /\ p.handles = o.handles
<1>1. ASSUME NEW e \in Errors, p = Fails(o, e) PROVE Follows(o, p) /\ p.handles = o.handles
  BY <1>1, FailsIO
<1>2. p = o \/ (\E e \in Errors : p = Fails(o, e))
  <2>1. CASE Check(o, c) # "none"
    BY <2>1, CheckIO DEF Read, Seek
  <2>2. CASE Check(o, c) = "none"
    <3>1. "read" \in Errors /\ "seek" \in Errors
      BY DEF Errors
    <3> QED
      BY <2>2, <3>1, OrIn DEF Read, Seek
  <2> QED
    BY <2>1, <2>2
<1> QED
  BY <1>1, <1>2, SameIO

\* A closed file has all of its data, or an error.
LEMMA CloseIO ==
    ASSUME NEW o, GoodIO(o), NEW h \in Handles, NEW w \in BOOLEAN, NEW c \in BOOLEAN,
           NEW p \in CloseHandle(o, h, w, c)
    PROVE  /\ Follows(o, p) /\ p.handles = o.handles \ {h}
           /\ h \notin o.handles => p = o
           /\ h = "main" /\ h \in o.handles /\ w /\ p.error = "none" =>
                 p.buffered = <<>> /\ p.written = All(o) /\ p.synced = Len(p.written)
<1> DEFINE forgotten == [o EXCEPT !.handles = @ \ {h}]
           Done(q) == q.buffered = <<>> /\ q.synced = Len(q.written)
<1>0. o \in IO /\ o.error = o.first
  BY DEF GoodIO
<1>1. CASE h \notin o.handles
  <2>1. p = o /\ o.handles = o.handles \ {h}
    BY <1>1 DEF CloseHandle
  <2> QED
    BY <1>1, <2>1, SameIO
<1>2. CASE h \in o.handles
  <2>1. GoodIO(forgotten) /\ Follows(o, forgotten) /\ forgotten.handles = o.handles \ {h}
    BY <1>0 DEF GoodIO, Follows, IO, All
  <2>2. ASSUME NEW q, Follows(o, q), NEW e \in Errors
        PROVE  Follows(o, Fails(q, e)) /\ Fails(q, e).handles = q.handles /\ Fails(q, e).error # "none"
    <3>1. GoodIO(q)
      BY <2>2 DEF Follows
    <3>2. Follows(q, Fails(q, e)) /\ Fails(q, e).handles = q.handles /\ Fails(q, e).error # "none"
      BY <2>2, <3>1, FailsIO
    <3> QED
      BY <2>2, <3>2, FollowsOn
  <2>3. ASSUME NEW q, Follows(o, q), q.handles = o.handles \ {h}, q.error = "none" => q.buffered = <<>>,
               NEW r \in Sync(q)
        PROVE  Follows(o, r) /\ r.handles = o.handles \ {h} /\ (r.error = "none" => Done(r))
    <3>1. "sync" \in Errors /\ q \in IO /\ q.error = q.first
      BY <2>3 DEF Errors, Follows, GoodIO
    <3>2. CASE r = q /\ q.error # "none"
      BY <2>3, <3>2
    <3>3. CASE r = Fails(q, "sync")
      BY <2>2, <2>3, <3>1, <3>3
    <3>4. CASE r = [q EXCEPT !.synced = Len(q.written)] /\ q.error = "none"
      <4>1. Len(q.written) \in Int
        BY <3>1, LenProperties DEF IO
      <4>2. /\ r \in IO /\ r.error = q.error /\ r.first = q.first /\ r.handles = q.handles
            /\ r.buffered = q.buffered /\ r.written = q.written /\ r.synced = Len(r.written)
        BY <3>1, <3>4, <4>1 DEF IO
      <4>3. All(r) = All(q)
        BY <4>2 DEF All
      <4> QED
        BY <2>3, <3>1, <3>4, <4>2, <4>3 DEF Follows, GoodIO
    <3>5. \/ r = q /\ q.error # "none"
          \/ r = Fails(q, "sync")
          \/ r = [q EXCEPT !.synced = Len(q.written)] /\ q.error = "none"
      BY <2>3, OrIn DEF Sync
    <3> QED
      BY <3>2, <3>3, <3>4, <3>5
  <2> HIDE DEF forgotten
  <2>4. PICK r : /\ Follows(o, r) /\ r.handles = o.handles \ {h}
                 /\ h = "main" /\ w /\ r.error = "none" => Done(r)
                 /\ p = r \/ p = Fails(r, "close")
    <3>1. CASE w /\ h = "main"
      <4> DEFINE synced == UNION {Sync(q) : q \in Write(forgotten, c)}
      <4>8. p \in synced \cup Or({Fails(r, "close") : r \in synced})
        BY <1>2, <3>1, Zenon DEF CloseHandle, forgotten
      <4>9. \E r \in synced : p = r \/ p = Fails(r, "close")
        <5> HIDE DEF synced
        <5> QED
          BY <4>8, OrIn
      <4>1. PICK q \in Write(forgotten, c) : \E r \in Sync(q) : p = r \/ p = Fails(r, "close")
        BY <4>9
      <4>2. Follows(forgotten, q) /\ q.handles = forgotten.handles /\ (q.error = "none" => q.buffered = <<>>)
        BY <2>1, WriteIO
      <4>3. Follows(o, q) /\ q.handles = o.handles \ {h}
        BY <2>1, <4>2, FollowsOn
      <4>4. PICK r \in Sync(q) : p = r \/ p = Fails(r, "close")
        BY <4>1
      <4> HIDE DEF Done
      <4> QED
        BY <2>3, <4>2, <4>3, <4>4
    <3>2. CASE ~(w /\ h = "main")
      <4>1. p = forgotten \/ p = Fails(forgotten, "close")
        BY <1>2, <3>2, OrIn DEF CloseHandle, forgotten
      <4> QED
        BY <2>1, <3>2, <4>1
    <3> QED
      BY <3>1, <3>2
  <2>5. "close" \in Errors
    BY DEF Errors
  <2>6. Follows(o, p) /\ p.handles = o.handles \ {h} /\ (p.error = "none" => p = r)
    BY <2>2, <2>4, <2>5
  <2>7. ASSUME h = "main", w, p.error = "none" PROVE p.written = All(o)
    <3>1. p.buffered = <<>> /\ All(p) = All(o) /\ p.written \in Seq(Datum)
      BY <2>4, <2>6, <2>7 DEF Follows, GoodIO, IO
    <3> QED
      BY <3>1, ConcatEmptySeq DEF All
  <2> QED
    BY <1>2, <2>4, <2>6, <2>7
<1> QED
  BY <1>1, <1>2

LEMMA DestroyIO ==
    ASSUME NEW o, GoodIO(o), NEW w \in BOOLEAN, NEW c \in BOOLEAN, NEW p \in Destroy(o, w, c)
    PROVE  Follows(o, p) /\ p.handles = {} /\ (o.handles = {} => p = o)
<1>0. "main" \in Handles /\ "second" \in Handles /\ Handles = {"main", "second"}
  BY DEF Handles
<1>1. PICK q \in CloseHandle(o, "second", w, c) : p \in CloseHandle(q, "main", w, c)
  BY DEF Destroy
<1>2. Follows(o, q) /\ q.handles = o.handles \ {"second"} /\ ("second" \notin o.handles => q = o)
  BY <1>0, <1>1, CloseIO
<1>3. GoodIO(q)
  BY <1>2 DEF Follows
<1>4. Follows(q, p) /\ p.handles = q.handles \ {"main"} /\ ("main" \notin q.handles => p = q)
  BY <1>0, <1>1, <1>3, CloseIO
<1>5. p.handles = {}
  BY <1>0, <1>2, <1>4 DEF GoodIO, IO
<1> QED
  BY <1>2, <1>4, <1>5, FollowsOn

\* The same for a file that is written, and for one that is read.
ClosedOK(o, h, w, p) ==
    /\ Follows(o, p) /\ p.handles = o.handles \ {h}
    /\ h = "main" /\ h \in o.handles /\ w /\ p.error = "none" =>
          p.buffered = <<>> /\ p.written = All(o) /\ p.synced = Len(p.written)

LEMMA CloseWritten ==
    ASSUME NEW o, GoodIO(o), NEW h \in Handles, NEW c \in BOOLEAN, NEW p \in CloseHandle(o, h, TRUE, c)
    PROVE  ClosedOK(o, h, TRUE, p)
<1>1. \A w \in BOOLEAN : p \in CloseHandle(o, h, w, c) => ClosedOK(o, h, w, p)
  BY CloseIO DEF ClosedOK
<1> QED
  BY <1>1, Zenon

LEMMA CloseRead ==
    ASSUME NEW o, GoodIO(o), NEW h \in Handles, NEW c \in BOOLEAN, NEW p \in CloseHandle(o, h, FALSE, c)
    PROVE  ClosedOK(o, h, FALSE, p)
<1>1. \A w \in BOOLEAN : p \in CloseHandle(o, h, w, c) => ClosedOK(o, h, w, p)
  BY CloseIO DEF ClosedOK
<1> QED
  BY <1>1, Zenon

LEMMA DestroyWritten ==
    ASSUME NEW o, GoodIO(o), NEW c \in BOOLEAN, NEW p \in Destroy(o, TRUE, c)
    PROVE  Follows(o, p) /\ p.handles = {} /\ (o.handles = {} => p = o)
  BY DestroyIO, Zenon

LEMMA DestroyRead ==
    ASSUME NEW o, GoodIO(o), NEW c \in BOOLEAN, NEW p \in Destroy(o, FALSE, c)
    PROVE  Follows(o, p) /\ p.handles = {}
  BY DestroyIO, Zenon

-----------------------------------------------------------------------------
(* Steps of one job *)

LEMMA Same == \A S, T : \A f \in [S -> T] : \A x \in S : f = [f EXCEPT ![x] = f[x]]
  OBVIOUS

\* A step of an episode's job changes nothing that the others rely on.
LEMMA EncodeFrame ==
    ASSUME IInv, NEW e \in Episodes, job[e].pc # "ended",
           NEW jb \in JobRecord, NEW x \in Encoder, NEW o \in IO, NEW lock \in {svt_lock, 0, e},
           job' = [job EXCEPT ![e] = jb], encoder' = [encoder EXCEPT ![e] = x],
           io' = [io EXCEPT ![e] = o], svt_lock' = lock, UNCHANGED <<concat, input, cancelled>>,
           ErrorOK(e, jb, o, input), FileOK(e, jb, o), EncodeOK(e, jb, x, o), LockOK(e, jb, x, lock)
    PROVE  IInv'
<1>1. e \in Jobs /\ e # 0 /\ 0 \in Jobs /\ \A f \in Episodes : f # 0 /\ f \in Jobs
  BY EpisodesType
<1>2. /\ job' \in [Jobs -> JobRecord] /\ job'[e] = jb /\ \A j \in Jobs : j # e => job'[j] = job[j]
      /\ io' \in [Jobs -> IO] /\ io'[e] = o /\ \A j \in Jobs : j # e => io'[j] = io[j]
  BY <1>1 DEF IInv, Types
<1>3. /\ encoder' \in [Episodes -> Encoder] /\ encoder'[e] = x
      /\ \A f \in Episodes : f # e => encoder'[f] = encoder[f]
  BY DEF IInv, Types
<1>4. svt_lock' \in Jobs /\ concat' = concat /\ input' = input /\ cancelled' = cancelled
  BY <1>1 DEF IInv, Types
<1>5. Types'
  BY <1>2, <1>3, <1>4 DEF IInv, Types
<1>6. \A j \in Jobs : ErrorOK(j, job'[j], io'[j], input') /\ FileOK(j, job'[j], io'[j])
  BY <1>2, <1>4 DEF IInv
<1>7. ASSUME NEW f \in Episodes, f # e PROVE LockOK(f, job'[f], encoder'[f], svt_lock')
  <2>1. f # 0 /\ f \in Jobs /\ (svt_lock' = f => svt_lock = f)
    BY <1>1, <1>7
  <2>2. job'[f] = job[f] /\ encoder'[f] = encoder[f] /\ LockOK(f, job[f], encoder[f], svt_lock)
    BY <1>2, <1>3, <1>7, <2>1 DEF IInv
  <2> QED
    BY <2>1, <2>2 DEF LockOK
<1>8. \A f \in Episodes : EncodeOK(f, job'[f], encoder'[f], io'[f]) /\ LockOK(f, job'[f], encoder'[f], svt_lock')
  BY <1>1, <1>2, <1>3, <1>7 DEF IInv
<1>9. ConcatOK(job'[0], io'[0], concat', input')
  BY <1>1, <1>2, <1>4 DEF IInv
<1>10. job'[0].pc \notin {"output", "packets"}
  <2>1. job'[0] = job[0]
    BY <1>1, <1>2
  <2> QED
    BY <2>1 DEF IInv, Succeeded
<1> QED
  BY <1>5, <1>6, <1>8, <1>9, <1>10 DEF IInv

\* So does one of the concatenation.
LEMMA ConcatFrame ==
    ASSUME IInv, NEW jb \in JobRecord, NEW o \in IO, NEW c \in Concatenation, NEW in \in IO,
           job' = [job EXCEPT ![0] = jb], io' = [io EXCEPT ![0] = o], concat' = c, input' = in,
           UNCHANGED <<encoder, svt_lock, cancelled>>,
           ErrorOK(0, jb, o, in), FileOK(0, jb, o), ConcatOK(jb, o, c, in),
           jb.pc \in {"output", "packets"} => \A e \in Episodes : Succeeded(e)
    PROVE  IInv'
<1>1. 0 \in Jobs /\ \A e \in Episodes : e # 0 /\ e \in Jobs
  BY EpisodesType
<1>2. /\ job' \in [Jobs -> JobRecord] /\ job'[0] = jb /\ \A j \in Jobs : j # 0 => job'[j] = job[j]
      /\ io' \in [Jobs -> IO] /\ io'[0] = o /\ \A j \in Jobs : j # 0 => io'[j] = io[j]
  BY <1>1 DEF IInv, Types
<1>3. encoder' = encoder /\ svt_lock' = svt_lock /\ cancelled' = cancelled
  OBVIOUS
<1>4. Types'
  BY <1>2, <1>3 DEF IInv, Types
<1>5. ASSUME NEW j \in Jobs PROVE ErrorOK(j, job'[j], io'[j], input') /\ FileOK(j, job'[j], io'[j])
  <2>1. CASE j = 0
    BY <1>2, <2>1
  <2>2. CASE j # 0
    <3>1. job'[j] = job[j] /\ io'[j] = io[j] /\ ErrorOK(j, job[j], io[j], input) /\ FileOK(j, job[j], io[j])
      BY <1>2, <2>2 DEF IInv
    <3> QED
      BY <2>2, <3>1 DEF ErrorOK
  <2> QED
    BY <2>1, <2>2
<1>6. \A e \in Episodes : job'[e] = job[e] /\ io'[e] = io[e]
  BY <1>1, <1>2
<1>7. \A e \in Episodes : EncodeOK(e, job'[e], encoder'[e], io'[e]) /\ LockOK(e, job'[e], encoder'[e], svt_lock')
  BY <1>3, <1>6 DEF IInv
<1>8. jb.pc \in {"output", "packets"} => \A e \in Episodes : Succeeded(e)'
  BY <1>6 DEF Succeeded
<1> QED
  BY <1>2, <1>4, <1>5, <1>7, <1>8 DEF IInv

\* What follows on a call: the next step, or an exception for the error of the file.
Failed(jb, o) ==
    /\ jb \in JobRecord /\ jb.pc = "unwind" /\ jb.thrown # "none"
    /\ jb.thrown \in Errors \ {"interrupted", "open"} => jb.thrown = o.error
Passed(jb, step, o) == jb = [pc |-> step, thrown |-> "none"] /\ o.error = "none"

LEMMA StepsAre ==
    ASSUME Types, NEW j \in Jobs, job[j].thrown = "none"
    PROVE  /\ \A step \in JobSteps : Goto(j, step) => job' = [job EXCEPT ![j] = [pc |-> step, thrown |-> "none"]]
           /\ \A why : Throw(j, why) => job' = [job EXCEPT ![j] = [pc |-> "unwind", thrown |-> why]]
<1>1. job[j] \in JobRecord /\ job \in [Jobs -> JobRecord]
  BY DEF Types
<1>2. ASSUME NEW step, Goto(j, step) PROVE job' = [job EXCEPT ![j] = [pc |-> step, thrown |-> "none"]]
  <2>1. job' = [job EXCEPT ![j] = [job[j] EXCEPT !.pc = step]]
    BY <1>1, <1>2 DEF Goto
  <2>2. [job[j] EXCEPT !.pc = step] = [pc |-> step, thrown |-> "none"]
    BY <1>1 DEF JobRecord
  <2> QED
    BY <2>1, <2>2
<1> QED
  BY <1>2 DEF Throw

LEMMA FailedIs ==
    \A why \in Thrown \ {"none"} : \A o : (why \in Errors \ {"interrupted", "open"} => why = o.error) =>
       Failed([pc |-> "unwind", thrown |-> why], o)
  BY DEF Failed, JobRecord, JobSteps

LEMMA Going ==
    ASSUME Types, NEW j \in Jobs, job[j].thrown = "none", NEW o, GoodIO(o), NEW step \in JobSteps,
           ThrowIfError(j, o, step) \/ ThrowOnFFmpegError(j, o, step)
    PROVE  \E jb \in JobRecord : /\ job' = [job EXCEPT ![j] = jb]
                                 /\ Passed(jb, step, o) \/ Failed(jb, o)
<1>1. cancelled \in BOOLEAN
  BY DEF Types
<1>2. CASE Check(o, cancelled) = "none" /\ Goto(j, step)
  <2>1. job' = [job EXCEPT ![j] = [pc |-> step, thrown |-> "none"]] /\ o.error = "none"
    BY <1>1, <1>2, StepsAre, CheckIO
  <2>2. [pc |-> step, thrown |-> "none"] \in JobRecord
    BY DEF JobRecord, Thrown
  <2> QED
    BY <2>1, <2>2 DEF Passed
<1>3. ASSUME NEW why \in Thrown \ {"none"}, Throw(j, why),
             why \in Errors \ {"interrupted", "open"} => why = o.error
      PROVE  \E jb \in JobRecord : job' = [job EXCEPT ![j] = jb] /\ Failed(jb, o)
  <2>1. Failed([pc |-> "unwind", thrown |-> why], o)
    BY <1>3, FailedIs
  <2>2. job' = [job EXCEPT ![j] = [pc |-> "unwind", thrown |-> why]]
    BY <1>3, StepsAre
  <2> QED
    BY <2>1, <2>2 DEF Failed
<1>4. CASE Check(o, cancelled) # "none" /\ Throw(j, Check(o, cancelled))
  <2>1. Check(o, cancelled) \in Errors
    BY <1>1, <1>4, CheckIO
  <2>2. Check(o, cancelled) \in Thrown \ {"none"}
    BY <1>4, <2>1 DEF Thrown
  <2>3. Check(o, cancelled) \in Errors \ {"interrupted", "open"} => Check(o, cancelled) = o.error
    BY <1>1, CheckIO
  <2> QED
    BY <1>3, <1>4, <2>2, <2>3
<1>5. CASE Throw(j, "ffmpeg")
  <2>1. "ffmpeg" \in Thrown \ {"none"} /\ "ffmpeg" \notin Errors
    BY DEF Thrown, Errors
  <2> QED
    BY <1>3, <1>5, <2>1
<1> QED
  BY <1>2, <1>4, <1>5 DEF ThrowIfError, ThrowOnFFmpegError

\* What the invariant says of job j.
LEMMA JobFacts ==
    ASSUME IInv, NEW j \in Jobs
    PROVE  /\ job[j] \in JobRecord /\ io[j] \in IO /\ GoodIO(io[j]) /\ input \in IO
           /\ ErrorOK(j, job[j], io[j], input) /\ FileOK(j, job[j], io[j])
           /\ job[j].pc \in Running => job[j].thrown = "none" /\ io[j].error = "none"
  BY DEF IInv, Types, ErrorOK, GoodIO

LEMMA EpisodeFacts ==
    ASSUME IInv, NEW e \in Episodes
    PROVE  /\ e \in Jobs /\ encoder[e] \in Encoder /\ svt_lock \in Jobs
           /\ EncodeOK(e, job[e], encoder[e], io[e]) /\ CodecOK(e, encoder[e])
           /\ LockOK(e, job[e], encoder[e], svt_lock)
           /\ job[e].pc \in Running \ {"encoder"} => svt_lock # e
  BY EpisodesType DEF IInv, Types, EncodeOK, LockOK, Running

LEMMA FailedOK ==
    ASSUME NEW j, NEW jb, NEW o, GoodIO(o), NEW in, Failed(jb, o)
    PROVE  ErrorOK(j, jb, o, in) /\ FileOK(j, jb, o)
  BY DEF ErrorOK, FileOK, Failed, GoodIO, Running

LEMMA PassedOK ==
    ASSUME NEW j, NEW jb, NEW o, GoodIO(o), NEW in, NEW step \in JobSteps, Passed(jb, step, o)
    PROVE  /\ jb \in JobRecord /\ ErrorOK(j, jb, o, in)
           /\ step \in Running \ {"trailer", "moving", "close"} => FileOK(j, jb, o)
<1>1. jb.pc = step /\ jb.thrown = "none" /\ jb \in JobRecord
  BY DEF Passed, JobRecord, Thrown
<1>2. "none" \notin Errors
  BY DEF Errors
<1>3. ErrorOK(j, jb, o, in)
  BY <1>1, <1>2 DEF ErrorOK, GoodIO, Passed
<1>4. step \in Running \ {"trailer", "moving", "close"} => FileOK(j, jb, o)
  BY <1>1 DEF FileOK, Running
<1> QED
  BY <1>1, <1>3, <1>4

\* A step that throws in the job of an episode ...
LEMMA EpisodeThrows ==
    ASSUME IInv, NEW e \in Episodes, job[e].pc # "ended",
           NEW jb, NEW x \in Encoder, NEW o, GoodIO(o), NEW lock \in {svt_lock, 0, e},
           Failed(jb, o), CodecOK(e, x), lock = e => e \in Svt /\ x.allocated,
           job' = [job EXCEPT ![e] = jb], encoder' = [encoder EXCEPT ![e] = x],
           io' = [io EXCEPT ![e] = o], svt_lock' = lock, UNCHANGED <<concat, input, cancelled>>
    PROVE  IInv'
<1>1. ErrorOK(e, jb, o, input) /\ FileOK(e, jb, o) /\ jb \in JobRecord /\ o \in IO /\ jb.pc = "unwind"
  BY FailedOK DEF Failed, GoodIO
<1>2. EncodeOK(e, jb, x, o) /\ LockOK(e, jb, x, lock)
  BY <1>1 DEF EncodeOK, LockOK
<1> QED
  BY <1>1, <1>2, EncodeFrame

\* ... and one that goes on.
LEMMA EpisodeGoes ==
    ASSUME IInv, NEW e \in Episodes, job[e].pc # "ended",
           NEW step \in Running, NEW jb, NEW x \in Encoder, NEW o, GoodIO(o), NEW lock \in {svt_lock, 0, e},
           Passed(jb, step, o), CodecOK(e, x), step = "start" => ~x.allocated,
           lock = e => e \in Svt /\ step = "encoder", step = "encoder" => x.allocated,
           EncodeOK(e, jb, x, o), FileOK(e, jb, o),
           job' = [job EXCEPT ![e] = jb], encoder' = [encoder EXCEPT ![e] = x],
           io' = [io EXCEPT ![e] = o], svt_lock' = lock, UNCHANGED <<concat, input, cancelled>>
    PROVE  IInv'
<1>1. step \in JobSteps
  BY DEF JobSteps
<1>2. ErrorOK(e, jb, o, input) /\ jb \in JobRecord /\ o \in IO /\ jb.pc = step
  BY <1>1, PassedOK DEF Passed, GoodIO
<1>3. LockOK(e, jb, x, lock)
  BY <1>2 DEF LockOK, Running
<1> QED
  BY <1>2, <1>3, EncodeFrame

LEMMA SameState ==
    ASSUME IInv
    PROVE  /\ \A e \in Episodes : encoder = [encoder EXCEPT ![e] = encoder[e]]
           /\ \A j \in Jobs : io = [io EXCEPT ![j] = io[j]] /\ job = [job EXCEPT ![j] = job[j]]
  BY Same DEF IInv, Types

LEMMA ThrowIs ==
    ASSUME IInv, NEW j \in Jobs, job[j].pc \in Running, NEW why \in {"interrupted", "open", "spool", "encoder"},
           Throw(j, why), NEW o
    PROVE  \E jb : job' = [job EXCEPT ![j] = jb] /\ Failed(jb, o)
<1>1. job[j].thrown = "none" /\ Types
  BY JobFacts DEF IInv
<1>2. job' = [job EXCEPT ![j] = [pc |-> "unwind", thrown |-> why]]
  BY <1>1, StepsAre
<1>3. why \in Thrown \ {"none"} /\ (why \in Errors \ {"interrupted", "open"} => why = o.error)
  BY DEF Thrown, Errors
<1> QED
  BY <1>2, <1>3, FailedIs

LEMMA GotoIs ==
    ASSUME IInv, NEW j \in Jobs, job[j].pc \in Running, NEW step \in JobSteps, Goto(j, step)
    PROVE  \E jb : job' = [job EXCEPT ![j] = jb] /\ Passed(jb, step, io[j])
<1>1. job[j].thrown = "none" /\ Types /\ io[j].error = "none"
  BY JobFacts DEF IInv
<1>2. job' = [job EXCEPT ![j] = [pc |-> step, thrown |-> "none"]]
  BY <1>1, StepsAre
<1> QED
  BY <1>1, <1>2 DEF Passed

-----------------------------------------------------------------------------
(* The encoding of an episode *)

LEMMA StartStep == ASSUME IInv, NEW e \in Episodes, Start(e) PROVE IInv'
<1>0. job[e].pc = "start" /\ job[e].pc \in Running /\ e \in Jobs /\ "encoder" \in JobSteps
  BY EpisodeFacts DEF Start, Running, JobSteps
<1>1. /\ encoder[e] \in Encoder /\ GoodIO(io[e]) /\ CodecOK(e, encoder[e]) /\ svt_lock # e
      /\ io[e] = NewIO /\ encoder[e].sent = 0 /\ encoder[e].codec = <<>> /\ ~encoder[e].draining
  BY <1>0, JobFacts, EpisodeFacts DEF EncodeOK
<1>2. UNCHANGED <<concat, input, cancelled>> /\ svt_lock' = svt_lock /\ io' = [io EXCEPT ![e] = io[e]]
  BY <1>0, SameState DEF Start
<1>3. CASE Goto(e, "encoder") /\ encoder' = [encoder EXCEPT ![e].allocated = TRUE]
  <2> DEFINE x == [encoder[e] EXCEPT !.allocated = TRUE]
  <2>1. PICK jb : job' = [job EXCEPT ![e] = jb] /\ Passed(jb, "encoder", io[e])
    BY <1>0, <1>3, GotoIs
  <2>2. /\ x \in Encoder /\ x.allocated /\ x.sent = 0 /\ x.codec = <<>> /\ ~x.draining
        /\ encoder' = [encoder EXCEPT ![e] = x]
    BY <1>1, <1>3 DEF Encoder
  <2> HIDE DEF x
  <2>3. CodecOK(e, x) /\ "encoder" \in Running /\ jb.pc = "encoder"
    BY <1>1, <2>1, <2>2 DEF CodecOK, Muxed, Running, Passed
  <2>4. EncodeOK(e, jb, x, io[e]) /\ FileOK(e, jb, io[e])
    BY <1>1, <2>2, <2>3 DEF EncodeOK, FileOK
  <2> QED
    BY <1>0, <1>1, <1>2, <2>1, <2>2, <2>3, <2>4, EpisodeGoes
<1>4. CASE (Throw(e, "interrupted") \/ Throw(e, "spool")) /\ encoder' = encoder
  <2>1. PICK jb : job' = [job EXCEPT ![e] = jb] /\ Failed(jb, io[e])
    BY <1>0, <1>4, ThrowIs
  <2>2. encoder' = [encoder EXCEPT ![e] = encoder[e]]
    BY <1>4, SameState
  <2> QED
    BY <1>0, <1>1, <1>2, <2>1, <2>2, EpisodeThrows
<1> QED
  BY <1>3, <1>4 DEF Start

LEMMA LockSvtStep == ASSUME IInv, NEW e \in Episodes, LockSvt(e) PROVE IInv'
<1>0. /\ e \in Jobs /\ job[e] \in JobRecord /\ io[e] \in IO /\ encoder[e] \in Encoder
      /\ ErrorOK(e, job[e], io[e], input) /\ FileOK(e, job[e], io[e])
      /\ EncodeOK(e, job[e], encoder[e], io[e]) /\ LockOK(e, job[e], encoder[e], svt_lock)
  BY EpisodeFacts, JobFacts
<1>1. /\ job' = [job EXCEPT ![e] = job[e]] /\ encoder' = [encoder EXCEPT ![e] = encoder[e]]
      /\ io' = [io EXCEPT ![e] = io[e]]
  BY <1>0, SameState DEF LockSvt
<1>2. LockOK(e, job[e], encoder[e], e) /\ job[e].pc # "ended"
  BY <1>0 DEF LockOK, LockSvt
<1>3. svt_lock' = e /\ UNCHANGED <<concat, input, cancelled>>
  BY DEF LockSvt
<1> QED
  BY <1>0, <1>1, <1>2, <1>3, EncodeFrame

\* Whoever may change the encoder leaves the lock to others.
LEMMA UnlockedIs ==
    ASSUME IInv, NEW e \in Episodes, svt_lock' = Unlocked(e)
    PROVE  svt_lock' \in {svt_lock, 0} /\ svt_lock' # e
  BY EpisodeFacts, EpisodesType DEF Unlocked, LockOK

LEMMA OpenEncoderStep == ASSUME IInv, NEW e \in Episodes, OpenEncoder(e) PROVE IInv'
<1>0. job[e].pc = "encoder" /\ job[e].pc \in Running /\ e \in Jobs /\ "open" \in JobSteps
  BY EpisodeFacts DEF OpenEncoder, Running, JobSteps
<1>1. /\ encoder[e] \in Encoder /\ GoodIO(io[e]) /\ CodecOK(e, encoder[e])
      /\ io[e] = NewIO /\ encoder[e].sent = 0 /\ encoder[e].codec = <<>> /\ ~encoder[e].draining
  BY <1>0, JobFacts, EpisodeFacts DEF EncodeOK
<1>2. /\ UNCHANGED <<concat, input, cancelled>> /\ io' = [io EXCEPT ![e] = io[e]]
      /\ encoder' = [encoder EXCEPT ![e] = encoder[e]]
      /\ svt_lock' \in {svt_lock, 0} /\ svt_lock' # e
  BY <1>0, SameState, UnlockedIs DEF OpenEncoder
<1>3. CASE Goto(e, "open")
  <2>1. PICK jb : job' = [job EXCEPT ![e] = jb] /\ Passed(jb, "open", io[e])
    BY <1>0, <1>3, GotoIs
  <2>2. "open" \in Running /\ jb.pc = "open"
    BY <2>1 DEF Running, Passed
  <2>3. EncodeOK(e, jb, encoder[e], io[e]) /\ FileOK(e, jb, io[e])
    BY <1>1, <2>2 DEF EncodeOK, FileOK
  <2> QED
    BY <1>0, <1>1, <1>2, <2>1, <2>2, <2>3, EpisodeGoes
<1>4. CASE Throw(e, "encoder")
  <2>1. PICK jb : job' = [job EXCEPT ![e] = jb] /\ Failed(jb, io[e])
    BY <1>0, <1>4, ThrowIs
  <2> QED
    BY <1>0, <1>1, <1>2, <2>1, EpisodeThrows
<1> QED
  BY <1>3, <1>4 DEF OpenEncoder

\* What a container puts into the buffer of its file.
LEMMA BufferedIO ==
    ASSUME NEW o, GoodIO(o), NEW d \in Datum
    PROVE  LET p == Buffered(o, d)
           IN GoodIO(p) /\ p.error = o.error /\ p.handles = o.handles /\ All(p) = Append(All(o), d)
<1> DEFINE p == Buffered(o, d)
<1>1. o \in IO /\ o.error = o.first /\ o.buffered \in Seq(Datum) /\ o.written \in Seq(Datum)
  BY DEF GoodIO, IO
<1>2. Append(o.buffered, d) \in Seq(Datum)
  BY <1>1
<1>3. /\ p \in IO /\ p.error = o.error /\ p.first = o.first /\ p.handles = o.handles
      /\ p.written = o.written /\ p.buffered = Append(o.buffered, d)
  BY <1>1, <1>2 DEF Buffered, IO
<1> HIDE DEF p
<1>4. o.written \o Append(o.buffered, d) = Append(o.written \o o.buffered, d)
  <2>1. \A q, r \in Seq(Datum) : q \o Append(r, d) = Append(q \o r, d)
    BY AppendJoined
  <2>2. o.written \in Seq(Datum) /\ o.buffered \in Seq(Datum)
    BY <1>1
  <2> QED
    BY <2>1, <2>2, Zenon
<1>5. All(p) = Append(All(o), d)
  BY <1>3, <1>4 DEF All
<1> QED
  BY <1>1, <1>3, <1>5 DEF GoodIO, p

LEMMA PerhapsWrittenIO ==
    ASSUME NEW o, GoodIO(o), cancelled \in BOOLEAN, NEW p \in PerhapsWritten(o)
    PROVE  Follows(o, p) /\ p.handles = o.handles
  BY WriteIO, SameIO DEF PerhapsWritten

\* A step that buffers d in the file of job j.
LEMMA MuxIO ==
    ASSUME NEW o, GoodIO(o), NEW d \in Datum, cancelled \in BOOLEAN, NEW p \in PerhapsWritten(Buffered(o, d))
    PROVE  GoodIO(p) /\ p.handles = o.handles /\ (p.error = "none" => All(p) = Append(All(o), d))
<1>1. GoodIO(Buffered(o, d)) /\ Buffered(o, d).handles = o.handles /\ All(Buffered(o, d)) = Append(All(o), d)
  BY BufferedIO
<1>2. Follows(Buffered(o, d), p) /\ p.handles = Buffered(o, d).handles
  BY <1>1, PerhapsWrittenIO
<1> QED
  BY <1>1, <1>2 DEF Follows

LEMMA OpenOutputIs ==
    ASSUME IInv, NEW j \in Jobs, job[j].pc \in Running, io[j] = NewIO, NEW step \in JobSteps, OpenOutput(j, step)
    PROVE  \E jb, o : /\ job' = [job EXCEPT ![j] = jb] /\ io' = [io EXCEPT ![j] = o] /\ GoodIO(o)
                      /\ \/ Failed(jb, o)
                         \/ Passed(jb, step, o) /\ o.handles = {"main"} /\ All(o) = <<Header>>
<1>0. cancelled \in BOOLEAN /\ Types /\ job[j].thrown = "none" /\ GoodIO(io[j])
  BY JobFacts DEF IInv, Types
<1>1. PICK error \in OpenErrors(io[j], cancelled) :
             \/ error # "none" /\ Throw(j, error) /\ io' = io
             \/ error = "none" /\ \E o \in PerhapsWritten(Buffered(Opened(io[j], "main"), Header)) :
                                     io' = [io EXCEPT ![j] = o] /\ ThrowOnFFmpegError(j, o, step)
  BY DEF OpenOutput
<1>2. CASE error # "none" /\ Throw(j, error) /\ io' = io
  <2>1. error \in {"interrupted", "open"}
    BY <1>0, <1>2, NewIOType, OrIn DEF OpenErrors, Check
  <2>2. PICK jb : job' = [job EXCEPT ![j] = jb] /\ Failed(jb, io[j])
    BY <1>2, <2>1, ThrowIs
  <2>3. io' = [io EXCEPT ![j] = io[j]]
    BY <1>2, SameState
  <2> QED
    BY <1>0, <2>2, <2>3
<1>3. ASSUME NEW o \in PerhapsWritten(Buffered(Opened(io[j], "main"), Header)),
             io' = [io EXCEPT ![j] = o], ThrowOnFFmpegError(j, o, step)
      PROVE  \E jb : /\ job' = [job EXCEPT ![j] = jb] /\ GoodIO(o)
                     /\ \/ Failed(jb, o)
                        \/ Passed(jb, step, o) /\ o.handles = {"main"} /\ All(o) = <<Header>>
  <2> DEFINE new == Opened(io[j], "main")
  <2>0. /\ NewIO \in IO /\ NewIO.error = NewIO.first /\ NewIO.handles = {}
        /\ NewIO.written = <<>> /\ NewIO.buffered = <<>>
    BY NewIOType
  <2>1. /\ new \in IO /\ new.error = new.first /\ new.handles = {"main"}
        /\ new.written = <<>> /\ new.buffered = <<>>
    <3> HIDE DEF NewIO
    <3> QED
      BY <2>0 DEF Opened, IO, Handles
  <2> HIDE DEF new
  <2>5. <<>> \o <<>> = <<>>
    OBVIOUS
  <2>6. GoodIO(new) /\ new.handles = {"main"} /\ All(new) = <<>>
    BY <2>1, <2>5 DEF GoodIO, All
  <2>2. GoodIO(o) /\ o.handles = {"main"} /\ (o.error = "none" => All(o) = Append(<<>>, Header))
    BY <1>0, <1>3, <2>6, Marks, MuxIO DEF new
  <2>3. Append(<<>>, Header) = <<Header>>
    OBVIOUS
  <2>4. PICK jb \in JobRecord : job' = [job EXCEPT ![j] = jb] /\ (Passed(jb, step, o) \/ Failed(jb, o))
    BY <1>0, <1>3, <2>2, Going
  <2> QED
    BY <2>2, <2>3, <2>4 DEF Passed
<1>4. CASE \E o \in PerhapsWritten(Buffered(Opened(io[j], "main"), Header)) :
              io' = [io EXCEPT ![j] = o] /\ ThrowOnFFmpegError(j, o, step)
  BY <1>3, <1>4
<1> QED
  BY <1>1, <1>2, <1>4

LEMMA HeaderOnly == ASSUME NEW e \in Nat, NEW start \in Int
                    PROVE  <<Header>> \o Part(e, start, 0) = <<Header>> /\ <<Header>> \o <<>> = <<Header>>
  BY PartSteps, Marks, ConcatEmptySeq

LEMMA WriteHeaderStep == ASSUME IInv, NEW e \in Episodes, WriteHeader(e) PROVE IInv'
<1>0. job[e].pc = "open" /\ job[e].pc \in Running /\ e \in Jobs /\ "frame" \in JobSteps /\ "frame" \in Running
  BY EpisodeFacts DEF WriteHeader, Running, JobSteps
<1>1. /\ encoder[e] \in Encoder /\ CodecOK(e, encoder[e]) /\ svt_lock # e
      /\ io[e] = NewIO /\ encoder[e].sent = 0 /\ encoder[e].codec = <<>> /\ ~encoder[e].draining
  BY <1>0, EpisodeFacts DEF EncodeOK
<1>2. /\ UNCHANGED <<concat, input, cancelled>> /\ svt_lock' = svt_lock
      /\ encoder' = [encoder EXCEPT ![e] = encoder[e]] /\ OpenOutput(e, "frame")
  BY SameState DEF WriteHeader
<1>3. PICK jb, o : /\ job' = [job EXCEPT ![e] = jb] /\ io' = [io EXCEPT ![e] = o] /\ GoodIO(o)
                   /\ \/ Failed(jb, o)
                      \/ Passed(jb, "frame", o) /\ o.handles = {"main"} /\ All(o) = <<Header>>
  BY <1>0, <1>1, <1>2, OpenOutputIs
<1>4. CASE Failed(jb, o)
  BY <1>0, <1>1, <1>2, <1>3, <1>4, EpisodeThrows
<1>5. CASE Passed(jb, "frame", o) /\ o.handles = {"main"} /\ All(o) = <<Header>>
  <2>0. encoder[e].sent = 0 /\ Len(encoder[e].codec) = 0
    BY <1>1
  <2>1. jb.pc = "frame" /\ Muxed(encoder[e]) = 0
    BY <1>5, <2>0 DEF Passed, Muxed
  <2>2. All(o) = <<Header>> \o Part(e, StartTimes[e], 0)
    BY <1>5, HeaderOnly, EpisodesType
  <2>3. EncodeOK(e, jb, encoder[e], o) /\ FileOK(e, jb, o)
    BY <1>1, <1>5, <2>1, <2>2 DEF EncodeOK, FileOK
  <2> QED
    BY <1>0, <1>1, <1>2, <1>3, <1>5, <2>3, EpisodeGoes
<1> QED
  BY <1>3, <1>4, <1>5

LEMMA SendFrameStep == ASSUME IInv, NEW e \in Episodes, SendFrame(e) PROVE IInv'
<1>0. job[e].pc = "frame" /\ job[e].pc \in Running /\ e \in Jobs /\ "drain" \in JobSteps /\ "drain" \in Running
  BY EpisodeFacts DEF SendFrame, Running, JobSteps
<1>1. /\ encoder[e] \in Encoder /\ CodecOK(e, encoder[e]) /\ svt_lock # e /\ GoodIO(io[e])
      /\ ~encoder[e].draining /\ io[e].handles = {"main"}
      /\ All(io[e]) = <<Header>> \o Part(e, StartTimes[e], Muxed(encoder[e]))
  BY <1>0, JobFacts, EpisodeFacts DEF EncodeOK
<1>2. /\ UNCHANGED <<concat, input, cancelled>> /\ svt_lock' = svt_lock
      /\ io' = [io EXCEPT ![e] = io[e]]
  BY <1>0, SameState DEF SendFrame
<1>3. ASSUME Goto(e, "drain"),
             encoder' = [encoder EXCEPT ![e].sent = @ + 1, ![e].codec = Append(@, encoder[e].sent)]
      PROVE  IInv'
  <2> DEFINE sent == encoder[e].sent
             codec == encoder[e].codec
             x == [encoder[e] EXCEPT !.sent = sent + 1, !.codec = Append(codec, sent)]
  <2>1. PICK jb : job' = [job EXCEPT ![e] = jb] /\ Passed(jb, "drain", io[e])
    BY <1>0, <1>3, GotoIs
  <2>2. encoder \in [Episodes -> Encoder] /\ sent \in Nat /\ codec \in Seq(Nat)
    BY <1>1 DEF IInv, Types, Encoder
  <2>3. encoder' = [encoder EXCEPT ![e] = x]
    BY <1>3, <2>2
  <2>4. /\ Append(codec, sent) \in Seq(Nat) /\ Len(Append(codec, sent)) = Len(codec) + 1
        /\ \A i \in 1..Len(codec) : Append(codec, sent)[i] = codec[i]
        /\ Append(codec, sent)[Len(codec) + 1] = sent
    BY <2>2
  <2>5. x \in Encoder /\ x.sent = sent + 1 /\ x.codec = Append(codec, sent) /\ x.draining = encoder[e].draining
    <3>1. sent + 1 \in Nat /\ Append(codec, sent) \in Seq(Nat)
      BY <2>2
    <3> HIDE DEF sent, codec
    <3> DEFINE y == [encoder[e] EXCEPT !.sent = sent + 1]
    <3>2. y \in Encoder /\ y.sent = sent + 1 /\ y.draining = encoder[e].draining
      BY <1>1, <3>1 DEF Encoder
    <3>3. x = [y EXCEPT !.codec = Append(codec, sent)]
      BY Zenon
    <3> HIDE DEF x, y
    <3> QED
      BY <3>1, <3>2, <3>3 DEF Encoder
  <2>6. /\ sent <= FrameCounts[e] /\ Len(codec) <= sent /\ Len(codec) \in Nat
        /\ \A i \in 1..Len(codec) : codec[i] = (sent - Len(codec)) + i - 1
    BY <1>1, <2>2 DEF CodecOK, Muxed
  <2>7. sent + 1 <= FrameCounts[e] /\ FrameCounts[e] \in Nat
    BY <2>2, <2>6, EpisodesType DEF SendFrame
  <2>8. Muxed(x) = sent - Len(codec) /\ Muxed(x) = Muxed(encoder[e])
    <3> HIDE DEF x
    <3> QED
      BY <2>2, <2>4, <2>5, <2>6 DEF Muxed
  <2> HIDE DEF x
  <2>9. \A i \in 1..Len(x.codec) : x.codec[i] = Muxed(x) + i - 1
    <3> SUFFICES ASSUME NEW i \in 1..Len(x.codec) PROVE x.codec[i] = Muxed(x) + i - 1
      OBVIOUS
    <3> HIDE DEF sent, codec
    <3>1. CASE i \in 1..Len(codec)
      BY <2>4, <2>5, <2>6, <2>8, <3>1
    <3>2. CASE i = Len(codec) + 1
      BY <2>2, <2>4, <2>5, <2>6, <2>8, <3>2
    <3> QED
      BY <2>4, <2>5, <2>6, <3>1, <3>2
  <2>10. CodecOK(e, x) /\ ~x.draining
    <3> HIDE DEF sent, codec
    <3> QED
      BY <1>1, <2>2, <2>4, <2>5, <2>6, <2>7, <2>9 DEF CodecOK
  <2>11. jb.pc = "drain"
    BY <2>1 DEF Passed
  <2>12. EncodeOK(e, jb, x, io[e]) /\ FileOK(e, jb, io[e])
    BY <1>1, <2>8, <2>10, <2>11 DEF EncodeOK, FileOK
  <2> QED
    BY <1>0, <1>1, <1>2, <2>1, <2>3, <2>5, <2>10, <2>12, EpisodeGoes
<1>4. ASSUME Throw(e, "interrupted") \/ Throw(e, "spool"), encoder' = encoder PROVE IInv'
  <2>1. PICK jb : job' = [job EXCEPT ![e] = jb] /\ Failed(jb, io[e])
    BY <1>0, <1>4, ThrowIs
  <2>2. encoder' = [encoder EXCEPT ![e] = encoder[e]]
    BY <1>4, SameState
  <2> QED
    BY <1>0, <1>1, <1>2, <2>1, <2>2, EpisodeThrows
<1> QED
  BY <1>3, <1>4 DEF SendFrame

LEMMA FlushEncoderStep == ASSUME IInv, NEW e \in Episodes, FlushEncoder(e) PROVE IInv'
<1>0. job[e].pc = "frame" /\ job[e].pc \in Running /\ e \in Jobs /\ "drain" \in JobSteps /\ "drain" \in Running
  BY EpisodeFacts DEF FlushEncoder, Running, JobSteps
<1>1. /\ encoder[e] \in Encoder /\ CodecOK(e, encoder[e]) /\ svt_lock # e /\ GoodIO(io[e])
      /\ ~encoder[e].draining /\ io[e].handles = {"main"}
      /\ All(io[e]) = <<Header>> \o Part(e, StartTimes[e], Muxed(encoder[e]))
  BY <1>0, JobFacts, EpisodeFacts DEF EncodeOK
<1>2. /\ UNCHANGED <<concat, input, cancelled>> /\ svt_lock' = svt_lock
      /\ io' = [io EXCEPT ![e] = io[e]]
  BY <1>0, SameState DEF FlushEncoder
<1>3. ASSUME Goto(e, "drain"), encoder' = [encoder EXCEPT ![e].draining = TRUE] PROVE IInv'
  <2> DEFINE x == [encoder[e] EXCEPT !.draining = TRUE]
  <2>1. PICK jb : job' = [job EXCEPT ![e] = jb] /\ Passed(jb, "drain", io[e])
    BY <1>0, <1>3, GotoIs
  <2>2. encoder \in [Episodes -> Encoder]
    BY DEF IInv, Types
  <2>3. encoder' = [encoder EXCEPT ![e] = x]
    BY <1>3, <2>2
  <2>4. x \in Encoder /\ x.sent = encoder[e].sent /\ x.codec = encoder[e].codec
    BY <1>1 DEF Encoder
  <2> HIDE DEF x
  <2>5. CodecOK(e, x) /\ Muxed(x) = Muxed(encoder[e])
    BY <1>1, <2>4 DEF CodecOK, Muxed, FlushEncoder
  <2>6. jb.pc = "drain"
    BY <2>1 DEF Passed
  <2>7. EncodeOK(e, jb, x, io[e]) /\ FileOK(e, jb, io[e])
    BY <1>1, <2>5, <2>6 DEF EncodeOK, FileOK
  <2> QED
    BY <1>0, <1>1, <1>2, <2>1, <2>3, <2>4, <2>5, <2>7, EpisodeGoes
<1>4. ASSUME Throw(e, "interrupted") \/ Throw(e, "encoder"), encoder' = encoder PROVE IInv'
  <2>1. PICK jb : job' = [job EXCEPT ![e] = jb] /\ Failed(jb, io[e])
    BY <1>0, <1>4, ThrowIs
  <2>2. encoder' = [encoder EXCEPT ![e] = encoder[e]]
    BY <1>4, SameState
  <2> QED
    BY <1>0, <1>1, <1>2, <2>1, <2>2, EpisodeThrows
<1> QED
  BY <1>3, <1>4 DEF FlushEncoder

\* One more frame in the file.
LEMMA OneMore ==
    ASSUME NEW e \in Nat, NEW n \in Nat, NEW start \in Int, NEW q \in Seq(Datum)
    PROVE  Append(q \o Part(e, start, n), Frame(e, n, start + n)) = q \o Part(e, start, n + 1)
<1>1. Part(e, start, n) \in Seq(Datum) /\ Part(e, start, n + 1) = Append(Part(e, start, n), Frame(e, n, start + n))
  BY PartSteps
<1>2. Frame(e, n, start + n) \in Datum
  BY FrameType
<1>3. \A r \in Seq(Datum), d \in Datum : q \o Append(r, d) = Append(q \o r, d)
  BY AppendJoined
<1> QED
  BY <1>1, <1>2, <1>3, Zenon

LEMMA MuxPacketStep == ASSUME IInv, NEW e \in Episodes, MuxPacket(e) PROVE IInv'
<1>0. job[e].pc = "drain" /\ job[e].pc \in Running /\ e \in Jobs /\ "drain" \in JobSteps /\ "drain" \in Running
  BY EpisodeFacts DEF MuxPacket, Running, JobSteps
<1>1. /\ encoder[e] \in Encoder /\ CodecOK(e, encoder[e]) /\ svt_lock # e /\ GoodIO(io[e])
      /\ io[e].handles = {"main"}
      /\ All(io[e]) = <<Header>> \o Part(e, StartTimes[e], Muxed(encoder[e]))
  BY <1>0, JobFacts, EpisodeFacts DEF EncodeOK
<1>2. UNCHANGED <<concat, input, cancelled>> /\ svt_lock' = svt_lock
  BY DEF MuxPacket
<1> DEFINE sent == encoder[e].sent
           codec == encoder[e].codec
           x == [encoder[e] EXCEPT !.codec = Tail(codec)]
           n == Head(codec)
<1>3. encoder \in [Episodes -> Encoder] /\ sent \in Nat /\ codec \in Seq(Nat) /\ codec # <<>>
  BY <1>1 DEF IInv, Types, Encoder, MuxPacket, HasPacket
<1>4. encoder' = [encoder EXCEPT ![e] = x]
  BY <1>3 DEF MuxPacket
<1>5. /\ Tail(codec) \in Seq(Nat) /\ Len(codec) \in Nat \ {0} /\ Len(Tail(codec)) = Len(codec) - 1
      /\ \A i \in 1..Len(Tail(codec)) : Tail(codec)[i] = codec[i + 1]
      /\ n = codec[1]
  BY <1>3
<1>6. x \in Encoder /\ x.sent = sent /\ x.codec = Tail(codec) /\ x.draining = encoder[e].draining
  BY <1>1, <1>3, <1>5 DEF Encoder
<1>7. /\ sent <= FrameCounts[e] /\ Len(codec) <= sent
      /\ encoder[e].draining => sent = FrameCounts[e]
      /\ \A i \in 1..Len(codec) : codec[i] = (sent - Len(codec)) + i - 1
  BY <1>1, <1>3 DEF CodecOK, Muxed
<1>8. Muxed(encoder[e]) = sent - Len(codec)
  BY DEF Muxed
<1> HIDE DEF x, sent, codec, n
<1>9. n = sent - Len(codec) /\ n \in Nat /\ Muxed(x) = n + 1
  BY <1>3, <1>5, <1>6, <1>7 DEF Muxed
<1>10. CodecOK(e, x)
  <2>1. \A i \in 1..Len(x.codec) : x.codec[i] = Muxed(x) + i - 1
    BY <1>3, <1>5, <1>6, <1>7, <1>9
  <2>2. Len(x.codec) <= x.sent
    BY <1>3, <1>5, <1>6, <1>7
  <2> QED
    BY <1>6, <1>7, <2>1, <2>2 DEF CodecOK
<1> DEFINE d == Frame(e, n, n + StartTimes[e])
<1>11. e \in Nat /\ StartTimes[e] \in Int
  BY EpisodesType
<1>12. d \in Datum /\ d = Frame(e, n, StartTimes[e] + n)
  <2>1. n + StartTimes[e] \in Int /\ n + StartTimes[e] = StartTimes[e] + n
    BY <1>9, <1>11
  <2> QED
    BY <1>9, <1>11, <2>1, FrameType
<1>13. PICK o \in PerhapsWritten(Buffered(io[e], d)) :
              io' = [io EXCEPT ![e] = o] /\ ThrowOnFFmpegError(e, o, "drain")
  BY DEF MuxPacket, n, codec
<1> HIDE DEF d
<1>14. cancelled \in BOOLEAN /\ Types /\ job[e].thrown = "none"
  BY <1>0, JobFacts DEF IInv, Types
<1>15. GoodIO(o) /\ o.handles = {"main"} /\ (o.error = "none" => All(o) = Append(All(io[e]), d))
  BY <1>1, <1>12, <1>13, <1>14, MuxIO
<1>16. PICK jb \in JobRecord : job' = [job EXCEPT ![e] = jb] /\ (Passed(jb, "drain", o) \/ Failed(jb, o))
  BY <1>0, <1>13, <1>14, <1>15, Going
<1>17. CASE Failed(jb, o)
  BY <1>0, <1>1, <1>2, <1>4, <1>6, <1>10, <1>13, <1>15, <1>16, <1>17, EpisodeThrows
<1>18. CASE Passed(jb, "drain", o)
  <2>1. jb.pc = "drain" /\ o.error = "none"
    BY <1>18 DEF Passed
  <2>2. All(o) = <<Header>> \o Part(e, StartTimes[e], Muxed(x))
    <3>1. All(o) = Append(<<Header>> \o Part(e, StartTimes[e], n), Frame(e, n, StartTimes[e] + n))
      BY <1>1, <1>8, <1>9, <1>12, <1>15, <2>1
    <3>2. Append(<<Header>> \o Part(e, StartTimes[e], n), Frame(e, n, StartTimes[e] + n))
             = <<Header>> \o Part(e, StartTimes[e], n + 1)
      BY <1>9, <1>11, Marks, OneMore
    <3> QED
      BY <1>9, <3>1, <3>2
  <2>3. EncodeOK(e, jb, x, o) /\ FileOK(e, jb, o)
    BY <1>10, <1>15, <2>1, <2>2 DEF EncodeOK, FileOK
  <2> QED
    BY <1>0, <1>1, <1>2, <1>4, <1>6, <1>10, <1>13, <1>15, <1>16, <1>18, <2>3, EpisodeGoes
<1> QED
  BY <1>16, <1>17, <1>18

LEMMA DrainedStep == ASSUME IInv, NEW e \in Episodes, Drained(e) PROVE IInv'
<1>0. /\ job[e].pc = "drain" /\ job[e].pc \in Running /\ e \in Jobs
      /\ {"trailer", "frame"} \subseteq JobSteps \cap Running
  BY EpisodeFacts DEF Drained, Running, JobSteps
<1>1. /\ encoder[e] \in Encoder /\ CodecOK(e, encoder[e]) /\ svt_lock # e /\ GoodIO(io[e])
      /\ io[e].handles = {"main"}
      /\ All(io[e]) = <<Header>> \o Part(e, StartTimes[e], Muxed(encoder[e]))
  BY <1>0, JobFacts, EpisodeFacts DEF EncodeOK
<1>2. /\ UNCHANGED <<concat, input, cancelled>> /\ svt_lock' = svt_lock
      /\ io' = [io EXCEPT ![e] = io[e]] /\ encoder' = [encoder EXCEPT ![e] = encoder[e]]
  BY <1>0, SameState DEF Drained
<1>3. CASE Throw(e, "interrupted") \/ Throw(e, "encoder")
  <2>1. PICK jb : job' = [job EXCEPT ![e] = jb] /\ Failed(jb, io[e])
    BY <1>0, <1>3, ThrowIs
  <2> QED
    BY <1>0, <1>1, <1>2, <2>1, EpisodeThrows
<1>4. CASE encoder[e].draining /\ Goto(e, "trailer")
  <2>1. PICK jb : job' = [job EXCEPT ![e] = jb] /\ Passed(jb, "trailer", io[e])
    BY <1>0, <1>4, GotoIs
  <2>2. encoder[e].sent = FrameCounts[e] /\ encoder[e].codec = <<>>
    BY <1>1, <1>4 DEF CodecOK, Drained, HasPacket
  <2>3. Len(encoder[e].codec) = 0 /\ FrameCounts[e] \in Nat /\ e # 0
    BY <2>2, EpisodesType
  <2>4. Muxed(encoder[e]) = FrameCounts[e]
    BY <2>2, <2>3 DEF Muxed
  <2>5. All(io[e]) = <<Header>> \o Content(e)
    BY <1>1, <2>3, <2>4 DEF Content
  <2>6. jb.pc = "trailer"
    BY <2>1 DEF Passed
  <2>7. EncodeOK(e, jb, encoder[e], io[e]) /\ FileOK(e, jb, io[e])
    BY <1>1, <2>5, <2>6 DEF EncodeOK, FileOK
  <2> QED
    BY <1>0, <1>1, <1>2, <2>1, <2>7, EpisodeGoes
<1>5. CASE ~encoder[e].draining /\ Goto(e, "frame")
  <2>1. PICK jb : job' = [job EXCEPT ![e] = jb] /\ Passed(jb, "frame", io[e])
    BY <1>0, <1>5, GotoIs
  <2>2. jb.pc = "frame"
    BY <2>1 DEF Passed
  <2>3. EncodeOK(e, jb, encoder[e], io[e]) /\ FileOK(e, jb, io[e])
    BY <1>1, <1>5, <2>2 DEF EncodeOK, FileOK
  <2> QED
    BY <1>0, <1>1, <1>2, <2>1, <2>3, EpisodeGoes
<1> QED
  BY <1>3, <1>4, <1>5 DEF Drained

LEMMA FreeEncoderStep == ASSUME IInv, NEW e \in Episodes, FreeEncoder(e) PROVE IInv'
<1>0. /\ e \in Jobs /\ job[e] \in JobRecord /\ io[e] \in IO /\ encoder[e] \in Encoder
      /\ ErrorOK(e, job[e], io[e], input) /\ FileOK(e, job[e], io[e])
      /\ EncodeOK(e, job[e], encoder[e], io[e]) /\ job[e].pc = "unwind"
  BY EpisodeFacts, JobFacts DEF FreeEncoder
<1> DEFINE x == [encoder[e] EXCEPT !.allocated = FALSE]
<1>1. /\ x \in Encoder /\ ~x.allocated /\ x.sent = encoder[e].sent /\ x.codec = encoder[e].codec
      /\ x.draining = encoder[e].draining
  BY <1>0 DEF Encoder
<1>2. /\ job' = [job EXCEPT ![e] = job[e]] /\ io' = [io EXCEPT ![e] = io[e]]
      /\ UNCHANGED <<concat, input, cancelled>> /\ svt_lock' \in {svt_lock, 0} /\ svt_lock' # e
  BY <1>0, SameState, UnlockedIs DEF FreeEncoder
<1>3. encoder' = [encoder EXCEPT ![e] = x]
  <2>1. encoder \in [Episodes -> Encoder]
    BY DEF IInv, Types
  <2> QED
    BY <2>1 DEF FreeEncoder
<1> HIDE DEF x
<1>4. EncodeOK(e, job[e], x, io[e]) /\ LockOK(e, job[e], x, svt_lock')
  BY <1>0, <1>1, <1>2 DEF EncodeOK, CodecOK, Muxed, LockOK
<1>5. svt_lock' \in {svt_lock, 0, e}
  BY <1>2
<1>6. PICK lock \in {svt_lock, 0, e} : svt_lock' = lock
  BY <1>5
<1> QED
  BY <1>0, <1>1, <1>2, <1>3, <1>4, <1>6, EncodeFrame

-----------------------------------------------------------------------------
(* The end of a file *)

\* A step at the end of job j, which may be the concatenation.
LEMMA EndFrame ==
    ASSUME IInv, NEW j \in Jobs, job[j].pc \in {"trailer", "moving", "close", "unwind"},
           NEW jb \in JobRecord, jb.pc \in {"moving", "close", "unwind", "ended"}, NEW o \in IO, NEW in \in IO,
           job' = [job EXCEPT ![j] = jb], io' = [io EXCEPT ![j] = o], input' = in,
           UNCHANGED <<encoder, concat, svt_lock, cancelled>>,
           ErrorOK(j, jb, o, in), FileOK(j, jb, o), job[j].pc = "unwind" => jb.pc = "ended",
           j # 0 => in = input,
           j = 0 => /\ in.error = in.first
                    /\ jb.pc \in Running => in.error = "none"
                    /\ jb.pc = "ended" => in.handles = {},
           j \in Episodes /\ jb.pc = "ended" => ~encoder[j].allocated
    PROVE  IInv'
<1>1. CASE j = 0
  <2>1. concat \in Concatenation /\ concat' = concat
    BY DEF IInv, Types
  <2>2. ConcatOK(jb, o, concat, in)
    BY <1>1 DEF ConcatOK
  <2> QED
    BY <1>1, <2>1, <2>2, ConcatFrame
<1>2. CASE j \in Episodes
  <2>1. j # 0
    BY <1>2, EpisodesType
  <2>2. encoder[j] \in Encoder /\ CodecOK(j, encoder[j]) /\ LockOK(j, job[j], encoder[j], svt_lock)
    BY <1>2, EpisodeFacts
  <2>3. EncodeOK(j, jb, encoder[j], o)
    BY <2>2 DEF EncodeOK
  <2>4. LockOK(j, jb, encoder[j], svt_lock)
    BY <1>2, <2>2 DEF LockOK
  <2>5. encoder' = [encoder EXCEPT ![j] = encoder[j]] /\ UNCHANGED <<concat, input, cancelled>>
    BY <1>2, <2>1, SameState
  <2>6. ErrorOK(j, jb, o, input)
    BY <2>1
  <2> QED
    BY <1>2, <2>2, <2>3, <2>4, <2>5, <2>6, EncodeFrame
<1> QED
  BY <1>1, <1>2, EpisodesType

LEMMA EndStep ==
    ASSUME IInv, NEW j \in Jobs, job[j].pc \in {"trailer", "moving", "close"},
           NEW jb \in JobRecord, NEW o, GoodIO(o), NEW step \in {"moving", "close", "unwind"},
           Failed(jb, o) \/ (Passed(jb, step, o) /\ FileOK(j, jb, o)),
           job' = [job EXCEPT ![j] = jb], io' = [io EXCEPT ![j] = o],
           UNCHANGED <<encoder, concat, input, svt_lock, cancelled>>
    PROVE  IInv'
<1>1. step \in JobSteps /\ jb.pc \in {step, "unwind"}
  BY DEF JobSteps, Running, Failed, Passed
<1>2. ErrorOK(j, jb, o, input) /\ FileOK(j, jb, o)
  BY <1>1, FailedOK, PassedOK
<1>3. j = 0 => input.error = input.first /\ input.error = "none"
  BY DEF IInv, ConcatOK, Running
<1>4. o \in IO /\ input \in IO /\ jb.pc \in {"moving", "close", "unwind", "ended"} /\ jb.pc # "ended"
  BY <1>1 DEF GoodIO, IInv, Types
<1>5. input' = input /\ job[j].pc # "unwind"
  OBVIOUS
<1> QED
  BY <1>2, <1>3, <1>4, <1>5, EndFrame

LEMMA OpenedByFFmpegIO ==
    ASSUME NEW o, GoodIO(o), NEW c \in BOOLEAN, NEW p \in OpenedByFFmpeg(o, c)
    PROVE  Follows(o, p) /\ (p.error = "none" => p.handles = o.handles \cup {"second"})
<1>1. PICK e \in OpenErrors(o, c) : p = IF e = "none" THEN Opened(o, "second") ELSE Fails(o, e)
  BY DEF OpenedByFFmpeg
<1>2. CASE e = "none"
  <2>1. o \in IO /\ o.error = o.first
    BY DEF GoodIO
  <2>2. p = [o EXCEPT !.handles = o.handles \cup {"second"}]
    BY <1>1, <1>2, <2>1 DEF Opened, IO
  <2>3. /\ p \in IO /\ p.error = o.error /\ p.first = o.first /\ p.handles = o.handles \cup {"second"}
        /\ p.written = o.written /\ p.buffered = o.buffered
    BY <2>1, <2>2 DEF IO, Handles
  <2> QED
    BY <2>1, <2>3 DEF Follows, GoodIO, All
<1>3. CASE e # "none"
  <2>1. e \in Errors
    <3>1. "open" \in Errors
      BY DEF Errors
    <3> QED
      BY <1>3, <3>1, CheckIO, OrIn DEF OpenErrors
  <2> QED
    BY <1>1, <1>3, <2>1, FailsIO
<1> QED
  BY <1>2, <1>3

LEMMA TrailerStep == ASSUME IInv, NEW j \in Jobs, Trailer(j) PROVE IInv'
<1>0. /\ job[j].pc = "trailer" /\ job[j].pc \in Running /\ "moving" \in JobSteps
      /\ UNCHANGED <<encoder, concat, input, svt_lock, cancelled>>
  BY DEF Trailer, Running, JobSteps
<1>1. /\ GoodIO(io[j]) /\ io[j].handles = {"main"} /\ All(io[j]) = <<Header>> \o Content(j)
      /\ job[j].thrown = "none" /\ Types /\ cancelled \in BOOLEAN
  BY <1>0, JobFacts DEF FileOK, IInv, Types
<1>2. PICK p \in Write(io[j], cancelled) : \E o \in OpenedByFFmpeg(p, cancelled) :
             io' = [io EXCEPT ![j] = o] /\ ThrowOnFFmpegError(j, o, "moving")
  BY DEF Trailer
<1>3. PICK o \in OpenedByFFmpeg(p, cancelled) : io' = [io EXCEPT ![j] = o] /\ ThrowOnFFmpegError(j, o, "moving")
  BY <1>2
<1>4. Follows(io[j], p) /\ p.handles = {"main"} /\ GoodIO(p)
  BY <1>1, WriteIO DEF Follows
<1>5. Follows(p, o) /\ (o.error = "none" => o.handles = {"main"} \cup {"second"})
  BY <1>1, <1>4, OpenedByFFmpegIO
<1>6. Follows(io[j], o) /\ GoodIO(o) /\ {"main"} \cup {"second"} = Handles
  BY <1>4, <1>5, FollowsOn DEF Follows, Handles
<1>7. PICK jb \in JobRecord : job' = [job EXCEPT ![j] = jb] /\ (Passed(jb, "moving", o) \/ Failed(jb, o))
  BY <1>0, <1>1, <1>3, <1>6, Going
<1>8. Passed(jb, "moving", o) => FileOK(j, jb, o)
  <2> SUFFICES ASSUME Passed(jb, "moving", o) PROVE FileOK(j, jb, o)
    OBVIOUS
  <2>1. jb.pc = "moving" /\ o.error = "none"
    BY DEF Passed
  <2>2. o.handles = Handles /\ All(o) = <<Header>> \o Content(j)
    BY <1>1, <1>5, <1>6, <2>1 DEF Follows
  <2> QED
    BY <2>1, <2>2 DEF FileOK
<1> QED
  BY <1>0, <1>3, <1>6, <1>7, <1>8, EndStep

LEMMA MoveIndexStep == ASSUME IInv, NEW j \in Jobs, MoveIndex(j) PROVE IInv'
<1>0. /\ job[j].pc = "moving" /\ job[j].pc \in Running /\ "close" \in JobSteps
      /\ UNCHANGED <<encoder, concat, input, svt_lock, cancelled>>
  BY DEF MoveIndex, Running, JobSteps
<1>1. /\ GoodIO(io[j]) /\ io[j].handles = Handles /\ All(io[j]) = <<Header>> \o Content(j)
      /\ job[j].thrown = "none" /\ Types /\ cancelled \in BOOLEAN
  BY <1>0, JobFacts DEF FileOK, IInv, Types
<1>2. PICK o \in UNION {CloseHandle(p, "second", TRUE, cancelled) :
                          p \in UNION {PerhapsWritten(Buffered(q, Index)) : q \in MovedBy(io[j])}} :
             io' = [io EXCEPT ![j] = o] /\ ThrowOnFFmpegError(j, o, "close")
  BY DEF MoveIndex
<1>3. PICK p \in UNION {PerhapsWritten(Buffered(q, Index)) : q \in MovedBy(io[j])} :
             o \in CloseHandle(p, "second", TRUE, cancelled)
  BY <1>2, Zenon
<1>4. PICK q \in MovedBy(io[j]) : p \in PerhapsWritten(Buffered(q, Index))
  BY <1>3, Zenon
<1>5. PICK r \in Read(io[j], cancelled) : q \in Seek(r, cancelled)
  BY <1>4, Zenon DEF MovedBy
<1>6. Follows(io[j], r) /\ r.handles = Handles /\ GoodIO(r)
  BY <1>1, <1>5, ReadIO DEF Follows
<1>7. Follows(r, q) /\ q.handles = Handles /\ GoodIO(q)
  BY <1>1, <1>5, <1>6, ReadIO DEF Follows
<1>8. /\ GoodIO(Buffered(q, Index)) /\ Buffered(q, Index).error = q.error
      /\ All(Buffered(q, Index)) = Append(All(q), Index) /\ Buffered(q, Index).handles = Handles
  BY <1>7, Marks, BufferedIO
<1>9. Follows(Buffered(q, Index), p) /\ p.handles = Handles /\ GoodIO(p)
  BY <1>1, <1>4, <1>8, PerhapsWrittenIO DEF Follows
<1>10. Follows(p, o) /\ o.handles = Handles \ {"second"} /\ GoodIO(o)
  <2>1. "second" \in Handles
    BY DEF Handles
  <2>2. ClosedOK(p, "second", TRUE, o)
    BY <1>1, <1>3, <1>9, <2>1, CloseWritten, Zenon
  <2> QED
    BY <1>9, <2>2 DEF ClosedOK, Follows
<1>11. PICK jb \in JobRecord : job' = [job EXCEPT ![j] = jb] /\ (Passed(jb, "close", o) \/ Failed(jb, o))
  BY <1>0, <1>1, <1>2, <1>10, Going
<1>12. Passed(jb, "close", o) => FileOK(j, jb, o)
  <2> SUFFICES ASSUME Passed(jb, "close", o) PROVE FileOK(j, jb, o)
    OBVIOUS
  <2>1. jb.pc = "close" /\ o.error = "none"
    BY DEF Passed
  <2>2. p.error = "none" /\ All(o) = All(p)
    BY <1>10, <2>1 DEF Follows, GoodIO, IO
  <2>3. q.error = "none" /\ All(p) = Append(All(q), Index)
    BY <1>8, <1>9, <2>2 DEF Follows
  <2>4. r.error = "none" /\ All(q) = All(r)
    BY <1>7, <2>3 DEF Follows
  <2>5. All(r) = All(io[j])
    BY <1>6, <2>4 DEF Follows
  <2>6. o.handles = {"main"}
    BY <1>10 DEF Handles
  <2>7. All(o) = Append(<<Header>> \o Content(j), Index)
    BY <1>1, <2>2, <2>3, <2>4, <2>5
  <2> QED
    BY <2>1, <2>6, <2>7 DEF FileOK
<1> QED
  BY <1>0, <1>2, <1>10, <1>11, <1>12, EndStep

LEMMA CloseOutputStep == ASSUME IInv, NEW j \in Jobs, CloseOutput(j) PROVE IInv'
<1>0. /\ job[j].pc = "close" /\ job[j].pc \in Running /\ "unwind" \in JobSteps
      /\ UNCHANGED <<encoder, concat, input, svt_lock, cancelled>>
  BY DEF CloseOutput, Running, JobSteps
<1>1. /\ GoodIO(io[j]) /\ io[j].handles = {"main"} /\ All(io[j]) = Append(<<Header>> \o Content(j), Index)
      /\ job[j].thrown = "none" /\ Types /\ cancelled \in BOOLEAN
  BY <1>0, JobFacts DEF FileOK, IInv, Types
<1>2. PICK o \in CloseHandle(io[j], "main", TRUE, cancelled) :
             io' = [io EXCEPT ![j] = o] /\ ThrowIfError(j, o, "unwind")
  BY DEF CloseOutput
<1>3. /\ Follows(io[j], o) /\ o.handles = {} /\ GoodIO(o)
      /\ o.error = "none" => o.buffered = <<>> /\ o.written = All(io[j]) /\ o.synced = Len(o.written)
  <2>1. "main" \in Handles /\ {"main"} \ {"main"} = {} /\ "main" \in io[j].handles
    BY <1>1 DEF Handles
  <2>2. ClosedOK(io[j], "main", TRUE, o)
    BY <1>1, <1>2, <2>1, CloseWritten, Zenon
  <2> QED
    BY <1>1, <2>1, <2>2 DEF ClosedOK, Follows
<1>4. PICK jb \in JobRecord : job' = [job EXCEPT ![j] = jb] /\ (Passed(jb, "unwind", o) \/ Failed(jb, o))
  BY <1>0, <1>1, <1>2, <1>3, Going
<1>5. Passed(jb, "unwind", o) => FileOK(j, jb, o)
  BY <1>1, <1>3 DEF Passed, FileOK, Complete
<1> QED
  BY <1>0, <1>2, <1>3, <1>4, <1>5, EndStep

LEMMA UnwindStep == ASSUME IInv, NEW j \in Jobs, Unwind(j) PROVE IInv'
<1>0. /\ job[j].pc = "unwind" /\ (j \in Episodes => ~encoder[j].allocated)
      /\ UNCHANGED <<encoder, concat, svt_lock, cancelled>>
  BY DEF Unwind
<1>1. /\ GoodIO(io[j]) /\ cancelled \in BOOLEAN /\ job[j] \in JobRecord /\ input \in IO
      /\ ErrorOK(j, job[j], io[j], input) /\ FileOK(j, job[j], io[j])
  BY JobFacts DEF IInv, Types
<1>2. PICK o \in Destroy(io[j], TRUE, cancelled) : io' = [io EXCEPT ![j] = o]
  BY DEF Unwind
<1>3. Follows(io[j], o) /\ o.handles = {} /\ (io[j].handles = {} => o = io[j]) /\ o \in IO /\ o.error = o.first
  <2>1. Follows(io[j], o) /\ o.handles = {} /\ (io[j].handles = {} => o = io[j])
    BY <1>1, <1>2, DestroyWritten, Zenon
  <2> QED
    BY <2>1 DEF Follows, GoodIO
<1> DEFINE jb == [pc |-> "ended", thrown |-> job[j].thrown]
<1>4. jb \in JobRecord /\ job' = [job EXCEPT ![j] = jb]
  <2>1. job \in [Jobs -> JobRecord] /\ job' = [job EXCEPT ![j] = [job[j] EXCEPT !.pc = "ended"]]
    BY DEF IInv, Types, Unwind, Goto
  <2>2. [job[j] EXCEPT !.pc = "ended"] = jb
    BY <1>1 DEF JobRecord
  <2> QED
    BY <1>1, <2>1, <2>2 DEF JobRecord, JobSteps
<1>5. jb.pc = "ended" /\ jb.thrown = job[j].thrown
  OBVIOUS
<1> HIDE DEF jb
<1>6. PICK in \in IO : /\ input' = in /\ (Follows(input, in) \/ j # 0)
                       /\ j # 0 => in = input
                       /\ j = 0 => in.error = in.first /\ in.handles = {}
  <2>1. CASE j = 0
    <3>1. GoodIO(input)
      BY <1>1, <2>1 DEF IInv, ConcatOK, GoodIO
    <3>2. input' \in Destroy(input, FALSE, cancelled)
      BY <2>1 DEF Unwind
    <3>3. Follows(input, input') /\ input'.handles = {}
      BY <1>1, <3>1, <3>2, DestroyRead
    <3> QED
      BY <2>1, <3>3 DEF Follows, GoodIO
  <2>2. CASE j # 0
    BY <1>1, <2>2 DEF Unwind
  <2> QED
    BY <2>1, <2>2
<1>7. "none" \notin Errors
  BY DEF Errors
<1>8. ErrorOK(j, jb, o, in)
  <2>1. jb.pc \notin Running
    BY <1>5 DEF Running
  <2>2. ASSUME jb.thrown \in Errors \ {"interrupted", "open"}
        PROVE  jb.thrown = o.error \/ (j = 0 /\ jb.thrown = in.error)
    <3>1. jb.thrown = io[j].error \/ (j = 0 /\ jb.thrown = input.error)
      BY <1>1, <1>5, <2>2 DEF ErrorOK
    <3>2. jb.thrown # "none"
      BY <1>7, <2>2
    <3> QED
      BY <1>3, <1>6, <3>1, <3>2 DEF Follows
  <2> QED
    BY <1>3, <2>1, <2>2 DEF ErrorOK
<1>9. FileOK(j, jb, o)
  BY <1>0, <1>1, <1>3, <1>5 DEF FileOK, Complete
<1>10. input' = in /\ jb.pc \notin Running
  BY <1>5, <1>6 DEF Unwind, Running
<1> QED
  BY <1>0, <1>2, <1>3, <1>4, <1>5, <1>6, <1>8, <1>9, <1>10, EndFrame

-----------------------------------------------------------------------------
(* The concatenation *)

LEMMA ConcatFacts ==
    ASSUME IInv
    PROVE  /\ 0 \in Jobs /\ ConcatOK(job[0], io[0], concat, input) /\ concat \in Concatenation
           /\ GoodIO(io[0]) /\ GoodIO(input) /\ Types /\ cancelled \in BOOLEAN
           /\ job[0].pc \in Running => job[0].thrown = "none" /\ io[0].error = "none" /\ input.error = "none"
<1>1. 0 \in Jobs
  BY EpisodesType
<1>2. ConcatOK(job[0], io[0], concat, input) /\ concat \in Concatenation /\ Types /\ cancelled \in BOOLEAN
  BY DEF IInv, Types
<1>3. GoodIO(io[0]) /\ input \in IO /\ (job[0].pc \in Running => job[0].thrown = "none" /\ io[0].error = "none")
  BY <1>1, JobFacts
<1>4. input.error = input.first /\ (job[0].pc \in Running => input.error = "none")
  BY <1>2 DEF ConcatOK
<1> QED
  BY <1>1, <1>2, <1>3, <1>4 DEF GoodIO

LEMMA ConcatThrows ==
    ASSUME IInv, NEW jb, NEW o, GoodIO(o), NEW c \in Concatenation, NEW in, GoodIO(in),
           Failed(jb, o) \/ Failed(jb, in),
           job' = [job EXCEPT ![0] = jb], io' = [io EXCEPT ![0] = o], concat' = c, input' = in,
           UNCHANGED <<encoder, svt_lock, cancelled>>
    PROVE  IInv'
<1>1. jb \in JobRecord /\ jb.pc = "unwind" /\ jb.thrown # "none"
  BY DEF Failed
<1>2. ErrorOK(0, jb, o, in)
  BY <1>1 DEF Failed, ErrorOK, GoodIO, Running
<1>3. FileOK(0, jb, o) /\ ConcatOK(jb, o, c, in)
  BY <1>1 DEF FileOK, ConcatOK, GoodIO, Running
<1> QED
  BY <1>1, <1>2, <1>3, ConcatFrame DEF GoodIO

LEMMA ConcatGoes ==
    ASSUME IInv, NEW jb, NEW o, GoodIO(o), NEW c \in Concatenation, NEW in, GoodIO(in),
           NEW step \in Running, Passed(jb, step, o), FileOK(0, jb, o), ConcatOK(jb, o, c, in),
           step \in {"output", "packets"} => \A e \in Episodes : Succeeded(e),
           job' = [job EXCEPT ![0] = jb], io' = [io EXCEPT ![0] = o], concat' = c, input' = in,
           UNCHANGED <<encoder, svt_lock, cancelled>>
    PROVE  IInv'
<1>1. step \in JobSteps /\ jb.pc = step
  BY DEF JobSteps, Passed
<1>2. jb \in JobRecord /\ ErrorOK(0, jb, o, in)
  BY <1>1, PassedOK
<1> QED
  BY <1>1, <1>2, ConcatFrame DEF GoodIO

LEMMA OpenFragmentStep == ASSUME IInv, OpenFragment PROVE IInv'
<1>0. /\ job[0].pc = "start" /\ job[0].pc \in Running /\ \A e \in Episodes : Succeeded(e)
      /\ UNCHANGED <<encoder, concat, io, svt_lock, cancelled>>
      /\ {"output", "packets"} \subseteq JobSteps \cap Running
  BY DEF OpenFragment, Running, JobSteps
<1>1. /\ 0 \in Jobs /\ ConcatOK(job[0], io[0], concat, input) /\ concat \in Concatenation
      /\ GoodIO(io[0]) /\ Types /\ cancelled \in BOOLEAN
      /\ job[0].thrown = "none" /\ io[0].error = "none" /\ input.error = "none"
  BY <1>0, ConcatFacts
<1>2. io' = [io EXCEPT ![0] = io[0]]
  BY <1>0, <1>1, SameState
<1>3. NewIO \in IO /\ NewIO.error = NewIO.first /\ NewIO.handles = {} /\ GoodIO(NewIO) /\ NewIO.error = "none"
  BY NewIOType DEF GoodIO
<1> DEFINE next == IF concat.fragment = 1 THEN "output" ELSE "packets"
           new == Opened(NewIO, "main")
<1>4. PICK error \in OpenErrors(NewIO, cancelled) :
             \/ error # "none" /\ Throw(0, error) /\ input' = NewIO
             \/ error = "none" /\ \E i \in Read(new, cancelled) : input' = i /\ ThrowOnFFmpegError(0, i, next)
  BY DEF OpenFragment
<1>5. CASE error # "none" /\ Throw(0, error) /\ input' = NewIO
  <2>1. error \in {"interrupted", "open"}
    BY <1>3, <1>5, OrIn DEF OpenErrors, Check
  <2>2. PICK jb : job' = [job EXCEPT ![0] = jb] /\ Failed(jb, io[0])
    BY <1>0, <1>1, <1>5, <2>1, ThrowIs
  <2>3. concat' = concat
    BY <1>0
  <2> QED
    BY <1>0, <1>1, <1>2, <1>3, <1>5, <2>2, <2>3, ConcatThrows
<1>6. ASSUME NEW i \in Read(new, cancelled), input' = i, ThrowOnFFmpegError(0, i, next) PROVE IInv'
  <2>1. GoodIO(new)
    <3> HIDE DEF NewIO
    <3>1. new \in IO /\ new.error = new.first
      BY <1>3 DEF Opened, IO, Handles
    <3> HIDE DEF new
    <3> QED
      BY <3>1 DEF GoodIO
  <2> HIDE DEF new
  <2>2. GoodIO(i)
    BY <1>1, <1>6, <2>1, ReadIO DEF Follows
  <2>3. next \in JobSteps /\ next \in Running
    BY <1>0
  <2>4. PICK jb \in JobRecord : job' = [job EXCEPT ![0] = jb] /\ (Passed(jb, next, i) \/ Failed(jb, i))
    BY <1>1, <1>6, <2>2, <2>3, Going
  <2>5. CASE Failed(jb, i)
    BY <1>0, <1>1, <1>2, <1>6, <2>2, <2>4, <2>5, ConcatThrows
  <2>6. CASE Passed(jb, next, i)
    <3>1. jb.pc = next /\ i.error = "none" /\ Passed(jb, next, io[0]) /\ i.error = i.first
      BY <1>1, <2>2, <2>6 DEF Passed, GoodIO
    <3>2. FileOK(0, jb, io[0])
      BY <3>1 DEF FileOK
    <3>3. ConcatOK(jb, io[0], concat, i)
      BY <1>0, <1>1, <3>1 DEF ConcatOK
    <3> HIDE DEF next
    <3> QED
      BY <1>0, <1>1, <1>2, <1>6, <2>2, <2>3, <2>4, <3>1, <3>2, <3>3, ConcatGoes
  <2> QED
    BY <2>4, <2>5, <2>6
<1> QED
  BY <1>4, <1>5, <1>6

LEMMA OpenConcatenatedStep == ASSUME IInv, OpenConcatenated PROVE IInv'
<1>0. /\ job[0].pc = "output" /\ job[0].pc \in Running /\ OpenOutput(0, "packets")
      /\ UNCHANGED <<encoder, concat, input, svt_lock, cancelled>>
      /\ "packets" \in JobSteps /\ "packets" \in Running
  BY DEF OpenConcatenated, Running, JobSteps
<1>1. /\ 0 \in Jobs /\ ConcatOK(job[0], io[0], concat, input) /\ concat \in Concatenation
      /\ GoodIO(io[0]) /\ GoodIO(input) /\ input.error = "none"
  BY <1>0, ConcatFacts
<1>2. /\ io[0] = NewIO /\ concat.fragment = 1 /\ ~concat.read /\ concat.packets = <<>>
      /\ 1 \in Episodes /\ concat.offset = StartOf[1]
  BY <1>0, <1>1 DEF ConcatOK
<1>3. PICK jb, o : /\ job' = [job EXCEPT ![0] = jb] /\ io' = [io EXCEPT ![0] = o] /\ GoodIO(o)
                   /\ \/ Failed(jb, o)
                      \/ Passed(jb, "packets", o) /\ o.handles = {"main"} /\ All(o) = <<Header>>
  BY <1>0, <1>1, <1>2, OpenOutputIs
<1>4. CASE Failed(jb, o)
  BY <1>0, <1>1, <1>3, <1>4, ConcatThrows
<1>5. CASE Passed(jb, "packets", o) /\ o.handles = {"main"} /\ All(o) = <<Header>>
  <2>1. jb.pc = "packets" /\ FileOK(0, jb, o)
    BY <1>5 DEF Passed, FileOK
  <2>2. <<Header>> \o <<>> = <<Header>> /\ Joined[0] = <<>> /\ 1 - 1 = 0
    BY JoinedIs, Marks, ConcatEmptySeq
  <2>3. All(o) = <<Header>> \o Joined[concat.fragment - 1]
    BY <1>2, <1>5, <2>2
  <2>4. ConcatOK(jb, o, concat, input)
    BY <1>0, <1>1, <1>2, <1>5, <2>1, <2>3 DEF ConcatOK, GoodIO
  <2>5. \A e \in Episodes : Succeeded(e)
    BY <1>0 DEF IInv
  <2> QED
    BY <1>0, <1>1, <1>3, <1>5, <2>1, <2>4, <2>5, ConcatGoes
<1> QED
  BY <1>3, <1>4, <1>5

\* A demuxer reads the frames of a complete file.
LEMMA MiddleIs ==
    ASSUME NEW q \in Seq(Datum)
    PROVE  LET w == Append(<<Header>> \o q, Index) IN SubSeq(w, 2, Len(w) - 1) = q
<1> DEFINE h == <<Header>> \o q
           w == Append(h, Index)
<1>1. Header \in Datum /\ Index \in Datum /\ <<Header>> \in Seq(Datum) /\ Len(<<Header>>) = 1
  BY Marks
<1>2. /\ h \in Seq(Datum) /\ Len(h) = Len(q) + 1 /\ Len(q) \in Nat
      /\ \A i \in 1..Len(q) : h[i + 1] = q[i]
  <2>1. /\ h \in Seq(Datum) /\ Len(h) = Len(<<Header>>) + Len(q)
        /\ \A i \in 1..(Len(<<Header>>) + Len(q)) :
              h[i] = IF i <= Len(<<Header>>) THEN <<Header>>[i] ELSE q[i - Len(<<Header>>)]
    BY <1>1, ConcatProperties
  <2>2. Len(q) \in Nat /\ Len(h) = Len(q) + 1
    BY <1>1, <2>1
  <2>3. ASSUME NEW i \in 1..Len(q) PROVE h[i + 1] = q[i]
    <3>1. i + 1 \in 1..(1 + Len(q)) /\ ~(i + 1 <= 1) /\ (i + 1) - 1 = i
      BY <2>2
    <3> HIDE DEF h
    <3> QED
      BY <1>1, <2>1, <3>1
  <2> QED
    BY <2>1, <2>2, <2>3
<1> HIDE DEF h
<1>3. /\ w \in Seq(Datum) /\ Len(w) = Len(q) + 2
      /\ \A i \in 1..Len(q) : w[i + 1] = q[i]
  <2>1. w \in Seq(Datum) /\ Len(w) = Len(h) + 1 /\ \A i \in 1..Len(h) : w[i] = h[i]
    BY <1>1, <1>2
  <2>2. \A i \in 1..Len(q) : i + 1 \in 1..Len(h)
    BY <1>2
  <2> HIDE DEF w
  <2> QED
    BY <1>2, <2>1, <2>2
<1> HIDE DEF w
<1> DEFINE m == SubSeq(w, 2, Len(w) - 1)
<1>4. m \in Seq(Datum) /\ Len(m) = Len(q) /\ \A i \in 1..Len(q) : m[i] = w[i + 1]
  BY <1>2, <1>3
<1> HIDE DEF m
<1>5. m = q
  <2>1. \A i \in 1..Len(m) : m[i] = q[i]
    BY <1>3, <1>4
  <2> QED
    BY <1>4, <2>1, SeqEqual
<1> QED
  BY <1>5 DEF m, w, h

LEMMA ReadPacketsStep == ASSUME IInv, ReadPackets PROVE IInv'
<1>0. /\ job[0].pc = "packets" /\ job[0].pc \in Running /\ ~concat.read /\ "packets" \in JobSteps
      /\ UNCHANGED <<encoder, io, svt_lock, cancelled>>
  BY DEF ReadPackets, Running, JobSteps
<1>1. /\ 0 \in Jobs /\ ConcatOK(job[0], io[0], concat, input) /\ concat \in Concatenation
      /\ GoodIO(io[0]) /\ GoodIO(input) /\ Types /\ cancelled \in BOOLEAN
      /\ job[0].thrown = "none" /\ io[0].error = "none" /\ input.error = "none"
  BY <1>0, ConcatFacts
<1> DEFINE k == concat.fragment
           P == Part(k, StartTimes[k], FrameCounts[k])
           c == [concat EXCEPT !.packets = Packets(io[k]), !.read = TRUE]
<1>2. /\ k \in Episodes /\ concat.offset = StartOf[k] /\ io[0].handles = {"main"}
      /\ All(io[0]) = <<Header>> \o Joined[k - 1]
  BY <1>0, <1>1 DEF ConcatOK
<1>3. /\ k \in Nat /\ k \in Jobs /\ k # 0 /\ FrameCounts[k] \in Nat /\ StartTimes[k] \in Int
      /\ StartOf[k] \in Int /\ k - 1 \in 0..Len(FrameCounts)
  BY <1>2, EpisodesType, StartOfIs
<1>4. P \in Seq(Datum) /\ Len(P) = FrameCounts[k]
  BY <1>3, PartSteps
<1>5. Packets(io[k]) = P
  <2>1. \A e \in Episodes : Succeeded(e)
    BY <1>0 DEF IInv
  <2>2. job[k].pc = "ended" /\ job[k].thrown = "none" /\ FileOK(k, job[k], io[k])
    BY <1>2, <1>3, <2>1, JobFacts DEF Succeeded
  <2>3. io[k].written = Append(<<Header>> \o Content(k), Index)
    BY <2>2 DEF FileOK, Complete
  <2>4. Content(k) = P
    BY <1>3 DEF Content
  <2> HIDE DEF P, k
  <2> QED
    BY <1>4, <2>3, <2>4, MiddleIs DEF Packets
<1>6. /\ c \in Concatenation /\ c.fragment = k /\ c.packets = P /\ c.read = TRUE /\ c.offset = concat.offset
  <2> HIDE DEF P
  <2>1. P \in Seq(Datum) /\ c = [concat EXCEPT !.packets = P, !.read = TRUE]
    BY <1>4, <1>5
  <2> HIDE DEF c
  <2> QED
    BY <1>1, <2>1 DEF Concatenation
<1>7. concat' = c
  BY DEF ReadPackets
<1> HIDE DEF c
<1>8. PICK i \in Read(input, cancelled) : input' = i /\ ThrowOnFFmpegError(0, i, "packets")
  BY DEF ReadPackets
<1>9. GoodIO(i)
  BY <1>1, <1>8, ReadIO DEF Follows
<1>10. PICK jb \in JobRecord : job' = [job EXCEPT ![0] = jb] /\ (Passed(jb, "packets", i) \/ Failed(jb, i))
  BY <1>0, <1>1, <1>8, <1>9, Going
<1>11. io' = [io EXCEPT ![0] = io[0]]
  BY <1>0, <1>1, SameState
<1>12. CASE Failed(jb, i)
  BY <1>0, <1>1, <1>6, <1>7, <1>8, <1>9, <1>10, <1>11, <1>12, ConcatThrows
<1>13. CASE Passed(jb, "packets", i)
  <2>1. jb.pc = "packets" /\ i.error = "none" /\ Passed(jb, "packets", io[0]) /\ i.error = i.first
    BY <1>1, <1>9, <1>13 DEF Passed, GoodIO
  <2>2. FileOK(0, jb, io[0])
    BY <2>1 DEF FileOK
  <2>3. FrameCounts[k] - Len(c.packets) = 0 /\ Len(c.packets) <= FrameCounts[k]
    BY <1>3, <1>4, <1>6
  <2>4. \A n \in 1..Len(c.packets) : c.packets[n] = Frame(k, 0 + n - 1, StartTimes[k] + (0 + n - 1))
    <3> SUFFICES ASSUME NEW n \in 1..Len(c.packets)
                 PROVE  c.packets[n] = Frame(k, 0 + n - 1, StartTimes[k] + (0 + n - 1))
      OBVIOUS
    <3>1. n \in 1..FrameCounts[k] /\ c.packets[n] = P[n]
      BY <1>4, <1>6
    <3>2. P[n] = Frame(k, n - 1, StartTimes[k] + n - 1)
      BY <3>1 DEF Part
    <3>3. 0 + n - 1 = n - 1 /\ StartTimes[k] + (0 + n - 1) = StartTimes[k] + n - 1
      BY <1>3, <3>1
    <3> HIDE DEF P, k
    <3> QED
      BY <3>1, <3>2, <3>3
  <2>5. All(io[0]) = <<Header>> \o (Joined[k - 1] \o Part(k, StartOf[k], 0))
    <3>1. Part(k, StartOf[k], 0) = <<>> /\ Joined[k - 1] \in Seq(Datum)
      BY <1>3, PartSteps, JoinedIs
    <3>2. Joined[k - 1] \o <<>> = Joined[k - 1]
      BY <3>1, ConcatEmptySeq
    <3> HIDE DEF k
    <3> QED
      BY <1>2, <3>1, <3>2
  <2> HIDE DEF P
  <2>6. ConcatOK(jb, io[0], c, i)
    BY <1>2, <1>6, <2>1, <2>3, <2>4, <2>5 DEF ConcatOK
  <2>7. \A e \in Episodes : Succeeded(e)
    BY <1>0 DEF IInv
  <2> QED
    BY <1>0, <1>1, <1>6, <1>7, <1>8, <1>9, <1>10, <1>11, <2>1, <2>2, <2>6, <2>7, ConcatGoes
<1> QED
  BY <1>10, <1>12, <1>13

LEMMA CopyPacketStep == ASSUME IInv, CopyPacket PROVE IInv'
<1>0. /\ job[0].pc = "packets" /\ job[0].pc \in Running /\ concat.packets # <<>> /\ "packets" \in JobSteps
      /\ UNCHANGED <<encoder, input, svt_lock, cancelled>>
  BY DEF CopyPacket, Running, JobSteps
<1>1. /\ 0 \in Jobs /\ ConcatOK(job[0], io[0], concat, input) /\ concat \in Concatenation
      /\ GoodIO(io[0]) /\ GoodIO(input) /\ Types /\ cancelled \in BOOLEAN
      /\ job[0].thrown = "none" /\ io[0].error = "none" /\ input.error = "none"
  BY <1>0, ConcatFacts
<1> DEFINE k == concat.fragment
           packets == concat.packets
           count == FrameCounts[k]
           copied == count - Len(packets)
           c == [concat EXCEPT !.packets = Tail(packets)]
           d == Shifted(Head(packets))
<1>2. /\ k \in Episodes /\ concat.offset = StartOf[k] /\ io[0].handles = {"main"} /\ concat.read
      /\ Len(packets) <= count
      /\ \A i \in 1..Len(packets) :
            packets[i] = Frame(k, copied + i - 1, StartTimes[k] + (copied + i - 1))
      /\ All(io[0]) = <<Header>> \o (Joined[k - 1] \o Part(k, StartOf[k], copied))
  BY <1>0, <1>1 DEF ConcatOK
<1>3. /\ k \in Nat /\ k \in Jobs /\ k # 0 /\ count \in Nat /\ StartTimes[k] \in Int
      /\ StartOf[k] \in Int /\ k - 1 \in 0..Len(FrameCounts)
  BY <1>2, EpisodesType, StartOfIs
<1>4. packets \in Seq(Datum) /\ packets # <<>>
  BY <1>0, <1>1 DEF Concatenation
<1>5. /\ Tail(packets) \in Seq(Datum) /\ Len(packets) \in Nat \ {0} /\ Len(Tail(packets)) = Len(packets) - 1
      /\ \A i \in 1..Len(Tail(packets)) : Tail(packets)[i] = packets[i + 1]
      /\ Head(packets) = packets[1]
  BY <1>4
<1>6. c \in Concatenation /\ c.fragment = k /\ c.packets = Tail(packets) /\ c.read /\ c.offset = concat.offset
  BY <1>1, <1>2, <1>5 DEF Concatenation
<1>7. concat' = c
  BY DEF CopyPacket
<1>8. copied \in Nat /\ packets[1] = Frame(k, copied, StartTimes[k] + copied)
  <2> HIDE DEF k, packets, count
  <2>1. copied \in Nat /\ 1 \in 1..Len(packets) /\ copied + 1 - 1 = copied
    BY <1>2, <1>3, <1>5
  <2> HIDE DEF copied
  <2> QED
    BY <1>2, <2>1
<1>9. d = Frame(k, copied, StartOf[k] + copied) /\ d \in Datum
  <2>1. d = [Head(packets) EXCEPT !.pts = @ + concat.offset - StartTimes[k]]
    BY DEF Shifted
  <2> HIDE DEF d, k, packets, count, copied
  <2>2. Head(packets) = [frame |-> <<k, copied>>, pts |-> StartTimes[k] + copied]
    BY <1>5, <1>8 DEF Frame
  <2>3. (StartTimes[k] + copied) + StartOf[k] - StartTimes[k] = StartOf[k] + copied
    BY <1>3, <1>8
  <2>4. d = [frame |-> <<k, copied>>, pts |-> (StartTimes[k] + copied) + StartOf[k] - StartTimes[k]]
    BY <1>2, <2>1, <2>2
  <2>5. StartOf[k] + copied \in Int
    BY <1>3, <1>8
  <2> QED
    BY <1>3, <1>8, <2>3, <2>4, <2>5, FrameType DEF Frame
<1>10. PICK o \in PerhapsWritten(Buffered(io[0], d)) :
              io' = [io EXCEPT ![0] = o] /\ ThrowOnFFmpegError(0, o, "packets")
  BY DEF CopyPacket
<1> HIDE DEF c, d
<1>11. GoodIO(o) /\ o.handles = {"main"} /\ (o.error = "none" => All(o) = Append(All(io[0]), d))
  BY <1>1, <1>2, <1>9, <1>10, MuxIO
<1>12. PICK jb \in JobRecord : job' = [job EXCEPT ![0] = jb] /\ (Passed(jb, "packets", o) \/ Failed(jb, o))
  BY <1>0, <1>1, <1>10, <1>11, Going
<1>13. input' = input
  BY <1>0
<1>14. CASE Failed(jb, o)
  BY <1>0, <1>1, <1>6, <1>7, <1>10, <1>11, <1>12, <1>13, <1>14, ConcatThrows
<1>15. CASE Passed(jb, "packets", o)
  <2>1. jb.pc = "packets" /\ o.error = "none" /\ input.error = input.first
    BY <1>1, <1>15 DEF Passed, GoodIO
  <2>2. FileOK(0, jb, o)
    BY <2>1 DEF FileOK
  <2> HIDE DEF k, packets, count, copied
  <2>3. /\ count - Len(c.packets) = copied + 1 /\ Len(c.packets) <= count
        /\ \A i \in 1..Len(c.packets) : c.packets[i] = packets[i + 1] /\ i + 1 \in 1..Len(packets)
    BY <1>2, <1>3, <1>5, <1>6 DEF copied
  <2>4. \A i \in 1..Len(c.packets) :
           c.packets[i] = Frame(k, (copied + 1) + i - 1, StartTimes[k] + ((copied + 1) + i - 1))
    <3> SUFFICES ASSUME NEW i \in 1..Len(c.packets)
                 PROVE  c.packets[i] = Frame(k, (copied + 1) + i - 1, StartTimes[k] + ((copied + 1) + i - 1))
      OBVIOUS
    <3>1. c.packets[i] = packets[i + 1] /\ i + 1 \in 1..Len(packets)
      BY <2>3
    <3>2. packets[i + 1] = Frame(k, copied + (i + 1) - 1, StartTimes[k] + (copied + (i + 1) - 1))
      BY <1>2, <3>1
    <3>3. copied + (i + 1) - 1 = (copied + 1) + i - 1
      BY <1>8
    <3> QED
      BY <3>1, <3>2, <3>3
  <2>5. All(o) = <<Header>> \o (Joined[k - 1] \o Part(k, StartOf[k], copied + 1))
    <3> DEFINE J == Joined[k - 1]
               P == Part(k, StartOf[k], copied)
    <3>1. J \in Seq(Datum) /\ P \in Seq(Datum) /\ <<Header>> \in Seq(Datum) /\ J \o P \in Seq(Datum)
      BY <1>3, <1>8, JoinedIs, PartSteps, Marks, ConcatProperties
    <3>2. Append(J \o P, d) = J \o Part(k, StartOf[k], copied + 1)
      BY <1>3, <1>8, <1>9, <3>1, OneMore
    <3>3. \A q \in Seq(Datum) : <<Header>> \o Append(q, d) = Append(<<Header>> \o q, d)
      BY <1>9, <3>1, AppendJoined
    <3>4. All(o) = Append(<<Header>> \o (J \o P), d)
      BY <1>2, <1>11, <2>1
    <3> HIDE DEF J, P
    <3>5. Append(<<Header>> \o (J \o P), d) = <<Header>> \o Append(J \o P, d)
      BY <3>1, <3>3, Zenon
    <3> QED
      BY <3>2, <3>4, <3>5, Zenon DEF J
  <2>6. \A e \in Episodes : Succeeded(e)
    BY <1>0 DEF IInv
  <2>7. ConcatOK(jb, o, c, input)
    <3>1. /\ c.fragment \in Episodes /\ c.offset = StartOf[c.fragment] /\ c.read /\ c.fragment = k
          /\ count = FrameCounts[c.fragment]
      BY <1>2, <1>6 DEF k, count
    <3> QED
      BY <1>1, <1>11, <2>1, <2>3, <2>4, <2>5, <3>1 DEF ConcatOK
  <2> QED
    BY <1>0, <1>1, <1>6, <1>7, <1>10, <1>11, <1>12, <1>13, <1>15, <2>2, <2>6, <2>7, ConcatGoes
<1> QED
  BY <1>12, <1>14, <1>15

LEMMA EndFragmentStep == ASSUME IInv, EndFragment PROVE IInv'
<1>0. /\ job[0].pc = "packets" /\ job[0].pc \in Running /\ concat.packets = <<>> /\ concat.read
      /\ UNCHANGED <<encoder, io, svt_lock, cancelled>> /\ {"trailer", "start"} \subseteq JobSteps \cap Running
  BY DEF EndFragment, Running, JobSteps
<1>1. /\ 0 \in Jobs /\ ConcatOK(job[0], io[0], concat, input) /\ concat \in Concatenation
      /\ GoodIO(io[0]) /\ GoodIO(input) /\ Types /\ cancelled \in BOOLEAN
      /\ job[0].thrown = "none" /\ io[0].error = "none" /\ input.error = "none"
  BY <1>0, ConcatFacts
<1> DEFINE k == concat.fragment
           count == FrameCounts[k]
           next == IF k = Len(FrameCounts) THEN "trailer" ELSE "start"
           c == [fragment |-> k + 1, packets |-> <<>>, read |-> FALSE, offset |-> concat.offset + count]
<1>2. /\ k \in Episodes /\ concat.offset = StartOf[k] /\ io[0].handles = {"main"}
      /\ All(io[0]) = <<Header>> \o (Joined[k - 1] \o Part(k, StartOf[k], count - Len(<<>>)))
  BY <1>0, <1>1 DEF ConcatOK
<1>3. /\ k \in 1..Len(FrameCounts) /\ Len(FrameCounts) \in Nat /\ count \in Nat /\ StartOf[k] \in Int
      /\ Episodes = 1..Len(FrameCounts)
  BY <1>2, EpisodesType, StartOfIs
<1>4. All(io[0]) = <<Header>> \o Joined[k]
  <2>1. count - Len(<<>>) = count
    BY <1>3
  <2>2. Joined[k] = Joined[k - 1] \o Part(k, StartOf[k], count)
    BY <1>2, JoinedIs
  <2> HIDE DEF k, count
  <2> QED
    BY <1>2, <2>1, <2>2
<1>5. c \in Concatenation
  <2>1. k + 1 \in Nat /\ concat.offset + count \in Int /\ <<>> \in Seq(Datum)
    BY <1>2, <1>3
  <2> QED
    BY <2>1 DEF Concatenation
<1>6. concat' = c
  BY DEF EndFragment
<1>7. PICK i \in CloseHandle(input, "main", FALSE, cancelled) : input' = i /\ ThrowIfError(0, i, next)
  BY DEF EndFragment
<1>8. c.fragment = k + 1 /\ c.packets = <<>> /\ ~c.read /\ c.offset = concat.offset + count
  OBVIOUS
<1> HIDE DEF c
<1>9. GoodIO(i)
  <2>1. "main" \in Handles
    BY DEF Handles
  <2>2. ClosedOK(input, "main", FALSE, i)
    BY <1>1, <1>7, <2>1, CloseRead, Zenon
  <2> QED
    BY <2>2 DEF ClosedOK, Follows
<1>10. next \in JobSteps /\ next \in Running
  BY <1>0
<1>11. PICK jb \in JobRecord : job' = [job EXCEPT ![0] = jb] /\ (Passed(jb, next, i) \/ Failed(jb, i))
  BY <1>1, <1>7, <1>9, <1>10, Going
<1>12. io' = [io EXCEPT ![0] = io[0]]
  BY <1>0, <1>1, SameState
<1>13. CASE Failed(jb, i)
  BY <1>0, <1>1, <1>5, <1>6, <1>7, <1>9, <1>11, <1>12, <1>13, ConcatThrows
<1>14. CASE Passed(jb, next, i)
  <2>1. jb.pc = next /\ i.error = "none" /\ Passed(jb, next, io[0]) /\ i.error = i.first
    BY <1>1, <1>9, <1>14 DEF Passed, GoodIO
  <2>2. next \notin {"output", "packets"}
    OBVIOUS
  <2>3. FileOK(0, jb, io[0])
    <3>1. next = "trailer" => k = Len(FrameCounts)
      OBVIOUS
    <3>2. next = "trailer" => All(io[0]) = <<Header>> \o Content(0)
      BY <1>4, <3>1 DEF Content
    <3>3. next \notin {"moving", "close", "unwind", "ended"}
      OBVIOUS
    <3> HIDE DEF next, k, count
    <3> QED
      BY <1>2, <2>1, <3>2, <3>3 DEF FileOK
  <2>4. ConcatOK(jb, io[0], c, i)
    <3>1. CASE k = Len(FrameCounts)
      BY <2>1, <3>1 DEF ConcatOK
    <3>2. CASE k # Len(FrameCounts)
      <4>1. next = "start" /\ k + 1 \in Episodes /\ k + 1 # 1 /\ (k + 1) - 1 = k
        BY <1>3, <3>2
      <4>2. c.offset = StartOf[k + 1]
        <5>1. StartOf[k + 1] = StartOf[(k + 1) - 1] + FrameCounts[(k + 1) - 1]
          BY <4>1, StartOfIs
        <5> HIDE DEF k
        <5> QED
          BY <1>2, <1>8, <4>1, <5>1
      <4>3. All(io[0]) = <<Header>> \o Joined[c.fragment - 1]
        <5> HIDE DEF k
        <5> QED
          BY <1>4, <1>8, <4>1
      <4> HIDE DEF next, k, count
      <4> QED
        BY <1>2, <1>8, <2>1, <4>1, <4>2, <4>3 DEF ConcatOK
    <3> QED
      BY <3>1, <3>2
  <2> HIDE DEF next
  <2> QED
    BY <1>0, <1>1, <1>5, <1>6, <1>7, <1>9, <1>10, <1>11, <1>12, <2>1, <2>2, <2>3, <2>4, ConcatGoes
<1> QED
  BY <1>11, <1>13, <1>14

-----------------------------------------------------------------------------
(* All steps *)

LEMMA CancelStep == ASSUME IInv, Cancel PROVE IInv'
<1>1. UNCHANGED <<job, encoder, concat, io, input, svt_lock>> /\ cancelled' \in BOOLEAN
  BY DEF Cancel
<1> QED
  BY <1>1 DEF IInv, Types, Succeeded

LEMMA InitInv == ASSUME Init PROVE IInv
<1>0. /\ job = [j \in Jobs |-> [pc |-> "start", thrown |-> "none"]]
      /\ encoder = [e \in Episodes |-> [sent |-> 0, codec |-> <<>>, draining |-> FALSE, allocated |-> FALSE]]
      /\ concat = [fragment |-> 1, packets |-> <<>>, read |-> FALSE, offset |-> 0]
      /\ io = [j \in Jobs |-> NewIO] /\ input = NewIO /\ svt_lock = 0 /\ cancelled = FALSE
  BY DEF Init, WriterInit
<1>1. 0 \in Jobs /\ 1 \in Episodes /\ \A e \in Episodes : e \in Jobs /\ e # 0 /\ FrameCounts[e] \in Nat
  BY EpisodesType
<1>2. /\ NewIO \in IO /\ NewIO.error = "none" /\ NewIO.first = "none" /\ NewIO.handles = {}
  BY NewIOType
<1> DEFINE jb == [pc |-> "start", thrown |-> "none"]
           x == [sent |-> 0, codec |-> <<>>, draining |-> FALSE, allocated |-> FALSE]
<1>3. jb \in JobRecord /\ jb.pc = "start" /\ jb.thrown = "none" /\ "start" \in Running /\ "none" \notin Errors
  BY DEF JobRecord, JobSteps, Running, Thrown, Errors
<1>4. /\ x \in Encoder /\ x.sent = 0 /\ x.codec = <<>> /\ ~x.draining /\ ~x.allocated /\ Len(x.codec) = 0
  BY EmptySeq DEF Encoder
<1>5. /\ concat \in Concatenation /\ concat.fragment = 1 /\ concat.packets = <<>> /\ ~concat.read /\ concat.offset = 0
  BY <1>0, EmptySeq DEF Concatenation
<1>6. /\ \A j \in Jobs : job[j] = jb /\ io[j] = NewIO
      /\ \A e \in Episodes : encoder[e] = x
  BY <1>0
<1>7. Types
  BY <1>0, <1>1, <1>2, <1>3, <1>4, <1>5 DEF Types
<1> HIDE DEF jb, x, NewIO
<1>8. ErrorOK(0, jb, NewIO, NewIO) /\ \A j \in Jobs : ErrorOK(j, jb, NewIO, NewIO) /\ FileOK(j, jb, NewIO)
  BY <1>2, <1>3 DEF ErrorOK, FileOK
<1>9. ASSUME NEW e \in Episodes PROVE EncodeOK(e, jb, x, NewIO) /\ LockOK(e, jb, x, 0)
  <2>1. CodecOK(e, x)
    BY <1>1, <1>4 DEF CodecOK
  <2>2. EncodeOK(e, jb, x, NewIO)
    BY <1>3, <1>4, <2>1 DEF EncodeOK
  <2> QED
    BY <1>1, <1>3, <1>4, <2>2 DEF LockOK
<1>10. StartOf[1] = 0
  BY <1>1, StartOfIs
<1>11. ConcatOK(jb, NewIO, concat, NewIO)
  BY <1>1, <1>2, <1>3, <1>5, <1>10 DEF ConcatOK
<1> QED
  BY <1>0, <1>1, <1>3, <1>6, <1>7, <1>8, <1>9, <1>11 DEF IInv

LEMMA WriterInv == ASSUME IInv, WriterNext PROVE IInv'
<1>1. ASSUME NEW e \in Episodes, Encode(e) PROVE IInv'
  BY <1>1, StartStep, LockSvtStep, OpenEncoderStep, WriteHeaderStep, SendFrameStep, FlushEncoderStep,
     MuxPacketStep, DrainedStep, FreeEncoderStep DEF Encode
<1>2. CASE Concatenate
  BY <1>2, OpenFragmentStep, OpenConcatenatedStep, ReadPacketsStep, CopyPacketStep, EndFragmentStep DEF Concatenate
<1>3. ASSUME NEW j \in Jobs, Trailer(j) \/ MoveIndex(j) \/ CloseOutput(j) \/ Unwind(j) PROVE IInv'
  BY <1>3, TrailerStep, MoveIndexStep, CloseOutputStep, UnwindStep
<1> QED
  BY <1>1, <1>2, <1>3, CancelStep DEF WriterNext

LEMMA NextInv == ASSUME IInv, [Next]_vars PROVE IInv'
<1>1. CASE WriterNext
  BY <1>1, WriterInv
<1>2. CASE UNCHANGED writerVars
  BY <1>2 DEF writerVars, IInv, Types, Succeeded
<1> QED
  BY <1>1, <1>2 DEF Next, Copy, Publish, CopyFailed, Query, vars

THEOREM Invariant == Spec => []IInv
<1>1. IInv /\ [Next]_vars => IInv'
  BY NextInv
<1>2. Init => IInv
  BY InitInv
<1> QED
  BY <1>1, <1>2, PTL DEF Spec

\* EncodeVideo and ConcatenateVideos: a job that succeeds leaves a complete file, with each
\* frame of its episodes at its time and synced after the last write, whatever else failed or
\* was cancelled meanwhile.
THEOREM CompleteFiles == Spec => []FilesComplete
<1>1. ASSUME IInv PROVE FilesComplete
  <2> SUFFICES ASSUME NEW j \in Jobs, Succeeded(j)
               PROVE  /\ io[j].written = <<Header>> \o
                            (IF j = 0 THEN FramesOf([e \in Episodes |-> e], [e \in Episodes |-> ShownAt(e, 0)])
                             ELSE FramesOf(<<j>>, StartTimes))
                            \o <<Index>>
                      /\ io[j].synced = Len(io[j].written) /\ io[j].first = "none"
    BY DEF FilesComplete
  <2> DEFINE frames1 == IF j = 0 THEN FramesOf([e \in Episodes |-> e], [e \in Episodes |-> ShownAt(e, 0)])
                        ELSE FramesOf(<<j>>, StartTimes)
  <2>1. Complete(io[j], Append(<<Header>> \o Content(j), Index)) /\ io[j].error = io[j].first
    BY <1>1, JobFacts DEF FileOK, Succeeded, ErrorOK
  <2>2. frames1 = Content(j) /\ Content(j) \in Seq(Datum)
    <3>1. CASE j = 0
      BY <3>1, AllFrames, JoinedIs, EpisodesType DEF Content
    <3>2. CASE j # 0
      <4>1. j \in Episodes /\ j \in Nat /\ FrameCounts[j] \in Nat /\ StartTimes[j] \in Int
        BY <3>2, EpisodesType
      <4>2. Part(j, StartTimes[j], FrameCounts[j]) \in Seq(Datum)
        BY <4>1, PartSteps
      <4> QED
        BY <3>2, <4>1, <4>2, EpisodeFrames DEF Content
    <3> QED
      BY <3>1, <3>2
  <2>3. Append(<<Header>> \o Content(j), Index) = <<Header>> \o Content(j) \o <<Index>>
    <3>1. <<Header>> \o Content(j) \in Seq(Datum) /\ Index \in Datum
      BY <2>2, Marks, ConcatProperties
    <3> QED
      BY <3>1, AppendIsConcat, Zenon
  <2>4. io[j].written = <<Header>> \o frames1 \o <<Index>>
    <3> HIDE DEF frames1
    <3> QED
      BY <2>1, <2>2, <2>3 DEF Complete
  <2> QED
    BY <2>1, <2>4 DEF Complete
<1> QED
  BY <1>1, Invariant, PTL

\* RecordError and ThrowIfError: what a job throws for a file is the first thing that went
\* wrong with it, also when the flush, the Sync and the close that follow fail too.
THEOREM FirstErrors == Spec => []FirstErrorThrown
<1>1. ASSUME IInv PROVE FirstErrorThrown
  <2>1. {"read", "write", "seek", "sync", "close"} \subseteq Errors \ {"interrupted", "open"}
    BY DEF Errors
  <2>2. ASSUME NEW j \in Jobs, job[j].thrown \in Errors \ {"interrupted", "open"}
        PROVE  job[j].thrown = io[j].first \/ (j = 0 /\ job[j].thrown = input.first)
    <3>1. ErrorOK(j, job[j], io[j], input) /\ input.error = input.first
      BY <1>1, JobFacts, ConcatFacts DEF GoodIO
    <3> QED
      BY <2>2, <3>1 DEF ErrorOK
  <2> QED
    BY <2>1, <2>2 DEF FirstErrorThrown
<1> QED
  BY <1>1, Invariant, PTL

\* The destructors: a job that has ended, wherever it threw, holds no open file, no encoder
\* and not the lock that keeps other jobs from SVT-AV1.
THEOREM NothingHeld == Spec => []EndedJobsHoldNothing
<1>1. ASSUME IInv PROVE EndedJobsHoldNothing
  <2>1. \A j \in Jobs : job[j].pc = "ended" => io[j].handles = {}
    BY <1>1, JobFacts DEF FileOK
  <2>2. \A e \in Episodes : job[e].pc = "ended" => ~encoder[e].allocated /\ svt_lock # e
    BY <1>1, EpisodeFacts DEF LockOK
  <2>3. job[0].pc = "ended" => input.handles = {}
    BY <1>1, ConcatFacts DEF ConcatOK
  <2> QED
    BY <2>1, <2>2, <2>3 DEF EndedJobsHoldNothing
<1> QED
  BY <1>1, Invariant, PTL

-----------------------------------------------------------------------------
(* The decoder: where it is in the file *)

Places == {"closed", "ready", "failed", "next", "read", "eof"}
Working == {"next", "read", "eof"}

DecoderTypes ==
    /\ IsVideo(video) /\ pc \in Places /\ outcome \in {"ok", "fault", "budget", "unmatched"}
    /\ stream \in [packet : Nat, codec : Seq(Nat), draining : BOOLEAN, demux_eof : BOOLEAN,
                   flush_sent : BOOLEAN, decoder_eof : BOOLEAN]
    /\ frames \in [previous : Nat, current : Nat] /\ converted \in {0} \cup DOMAIN video.pts
    /\ place \in [cluster : Nat, target : Nat]
    /\ seek \in [last : Nat \cup {-1}, start : Nat \cup {-1}, decoded : Nat, budget : Nat]

\* The frame that the codec returns next.
NextFrame == stream.packet - Len(stream.codec)

\* The codec holds the frames before the next packet, and it is told of the end of the file
\* after the last one.
StreamOK ==
    /\ NextFrame >= 1 /\ stream.packet <= Len(video.pts) + 1
    /\ \A i \in 1..Len(stream.codec) : stream.codec[i] = NextFrame + i - 1
    /\ stream.draining = stream.flush_sent /\ (stream.draining => stream.demux_eof)
    /\ stream.demux_eof => stream.packet = Len(video.pts) + 1
    /\ stream.decoder_eof => stream.draining /\ stream.codec = <<>>

\* The frames in hand are the last ones of the codec, and all frames since the seek were counted.
FramesOK ==
    /\ frames.current # 0 => frames.current = NextFrame - 1
    /\ frames.previous # 0 => frames.previous = NextFrame - (IF frames.current = 0 THEN 1 ELSE 2)
    /\ frames.previous = 0 => seek.decoded = IF frames.current = 0 THEN 0 ELSE 1
    /\ seek.start = -1 => seek.decoded = 0
    /\ seek.start # -1 => NextFrame - seek.decoded = SeekKeyframe(SeekTick(seek.start))

-----------------------------------------------------------------------------
(* The decoder: its targets *)

\* The clusters are the targets 1 to n in their order, cut into pieces.
Piece(q, n) ==
    /\ Len(q) # 0 /\ q[1] \in 1..n /\ q[1] + Len(q) - 1 <= n
    /\ \A i \in 1..Len(q) : q[i] = q[1] + i - 1
Pieces(clusters, n) ==
    /\ clusters \in Seq(Seq(Nat)) /\ (Len(clusters) = 0 <=> n = 0)
    /\ \A c \in 1..Len(clusters) :
          /\ Piece(clusters[c], n)
          /\ c < Len(clusters) => clusters[c + 1][1] = clusters[c][1] + Len(clusters[c])
          /\ c = Len(clusters) => clusters[c][1] + Len(clusters[c]) - 1 = n
          /\ c = 1 => clusters[c][1] = 1
BufferOK(buf) ==
    /\ buf.targets \in Seq(Nat) /\ Len(buf.targets) # 0
    /\ \A i, k \in 1..Len(buf.targets) : i <= k => buf.targets[i] <= buf.targets[k]
    /\ Pieces(buf.clusters, Len(buf.targets))

PlaceOK ==
    /\ outcome # "ok" => pc \in {"failed", "closed"}
    /\ pc = "failed" => outcome # "ok"
    /\ buffer = NoBuffer \/ BufferOK(buffer)
    /\ pc \in Working => /\ buffer # NoBuffer
                         /\ place.cluster + 1 \in 1..Len(buffer.clusters) /\ place.target <= Len(Cluster)
    /\ outcome = "ok" /\ pc \notin Working => buffer = NoBuffer
    /\ pc \in {"read", "eof"} => frames.current = 0 /\ place.target < Len(Cluster)
    /\ pc = "read" => ~stream.decoder_eof
    /\ pc = "eof" => stream.decoder_eof

\* The frame before the current one lies before t, and so does the start of the cluster.
Behind(t) ==
    /\ frames.previous # 0 => video.pts[frames.previous] < t
    /\ seek.start # -1 /\ seek.start <= t

\* No target that is left lies before the frames in hand, in this buffer or in the next one.
TargetsOK ==
    /\ pc \in Working =>
          /\ \A i \in 1..Len(Cluster) : i > place.target => Behind(buffer.targets[Cluster[i]])
          /\ seek.budget = DecodeFrameBudget(seek.start, buffer.targets[Last(Cluster)])
          /\ place.target = Len(Cluster) => Behind(seek.last)
    /\ pc = "ready" /\ seek.last # -1 /\ seek.start # -1 => Behind(seek.last)

AnswerOK ==
    answer.frame # 0 =>
       /\ answer.frame \in DOMAIN video.pts /\ answer.pixels = answer.frame
       /\ answer.target \in Nat /\ Promise!IsNearest(answer.frame, answer.target)

DecoderOK == DecoderTypes /\ StreamOK /\ FramesOK /\ PlaceOK /\ TargetsOK /\ AnswerOK

\* The file that COPY writes.
FileOf(packets) ==
    [pts |-> [k \in DOMAIN packets |-> packets[k].pts * FrameDuration],
     keyframes |-> {k \in DOMAIN packets : packets[k].frame[2] % Gop = 0},
     delay |-> Lag,
     shows |-> [k \in DOMAIN packets |-> packets[k].frame]]
QueryOK ==
    /\ query \in {"COPY", "SELECT"}
    /\ query = "COPY" => DecoderInit /\ video = NoVideo
    /\ query = "SELECT" => video \in Videos \/ video = FileOf(Joined[Len(FrameCounts)])

DecoderInv == DecoderOK /\ QueryOK

-----------------------------------------------------------------------------
(* The targets of a buffer *)

Orders(request, p) ==
    \A i, k \in DOMAIN request : i <= k => request[p[i]] <= request[p[k]]

\* Every request can be sorted: the last target goes before the first larger one.
LEMMA Sorting ==
    ASSUME NEW n \in Nat, NEW s \in [1..n -> Nat]
    PROVE  \E p \in Injection(1..n, 1..n) : Orders(s, p)
<1> DEFINE Good(m, t, p) == /\ p \in [1..m -> 1..m] /\ \A i, k \in 1..m : p[i] = p[k] => i = k
                            /\ \A i, k \in 1..m : i <= k => t[p[i]] <= t[p[k]]
           T == {m \in Nat : \A t \in [1..m -> Nat] : \E p : Good(m, t, p)}
<1>1. 0 \in T
  <2>1. SUFFICES ASSUME NEW t \in [1..0 -> Nat] PROVE \E p : Good(0, t, p)
    OBVIOUS
  <2>2. Good(0, t, [i \in 1..0 |-> i])
    OBVIOUS
  <2> QED
    BY <2>2
<1>2. ASSUME NEW m \in Nat, m \in T PROVE m + 1 \in T
  <2>1. SUFFICES ASSUME NEW t \in [1..(m + 1) -> Nat] PROVE \E p : Good(m + 1, t, p)
    <3> HIDE DEF Good
    <3>1. (\A t \in [1..(m + 1) -> Nat] : \E p : Good(m + 1, t, p)) => m + 1 \in T
      OBVIOUS
    <3> QED
      BY <3>1
  <2> DEFINE first == [i \in 1..m |-> t[i]]
  <2>2. first \in [1..m -> Nat]
    OBVIOUS
  <2>3. PICK q : Good(m, first, q)
    BY <1>2, <2>2
  <2>t. /\ m + 1 \in 1..(m + 1) /\ t[m + 1] \in Nat
        /\ \A i \in 1..m : q[i] \in 1..m /\ q[i] # m + 1 /\ t[q[i]] \in Nat /\ q[i] \in 1..(m + 1)
    <3>1. m \in Nat /\ t \in [1..(m + 1) -> Nat] /\ q \in [1..m -> 1..m]
      BY <1>2, <2>3
    <3> HIDE DEF first, Good, T
    <3>2. \A i \in 1..m : q[i] \in 1..m
      BY <3>1, Zenon
    <3>3. 1..m \subseteq 1..(m + 1) /\ m + 1 \in 1..(m + 1) /\ m + 1 \notin 1..m
      BY <3>1
    <3>4. \A i \in 1..(m + 1) : t[i] \in Nat
      BY <3>1, Zenon
    <3> QED
      BY <3>2, <3>3, <3>4
  <2> DEFINE K == {k \in 1..(m + 1) : k = m + 1 \/ t[q[k]] > t[m + 1]}
  <2>4. K \subseteq Nat /\ m + 1 \in K
    OBVIOUS
  <2>5. PICK k \in K : \A other \in K : k <= other
    BY <2>4, NatLeast
  <2> DEFINE p == [i \in 1..(m + 1) |-> IF i < k THEN q[i] ELSE IF i = k THEN m + 1 ELSE q[i - 1]]
  <2>6. k \in 1..(m + 1) /\ (k = m + 1 \/ t[q[k]] > t[m + 1])
    BY <2>5
  <2>7. \A i \in 1..m : i < k => t[q[i]] <= t[m + 1]
    <3>1. SUFFICES ASSUME NEW i \in 1..m, i < k, ~(t[q[i]] <= t[m + 1]) PROVE FALSE
      OBVIOUS
    <3>2. q[i] \in 1..m /\ t[q[i]] \in Nat /\ t[m + 1] \in Nat
      BY <2>t
    <3>3. i \in K
      BY <3>1, <3>2
    <3> QED
      BY <2>5, <2>6, <3>1, <3>3
  <2>8. /\ q \in [1..m -> 1..m] /\ \A i, j \in 1..m : q[i] = q[j] => i = j
        /\ \A i, j \in 1..m : i <= j => t[q[i]] <= t[q[j]]
    BY <2>3
  <2>9. \A i \in 1..m : i >= k => t[m + 1] <= t[q[i]]
    <3>1. SUFFICES ASSUME NEW i \in 1..m, i >= k PROVE t[m + 1] <= t[q[i]]
      OBVIOUS
    <3>2. k \in 1..m /\ k # m + 1
      BY <2>6, <3>1
    <3>3. t[q[i]] \in Nat /\ t[q[k]] \in Nat /\ t[m + 1] \in Nat /\ t[q[k]] > t[m + 1] /\ t[q[k]] <= t[q[i]]
      BY <2>t, <2>6, <2>8, <3>1, <3>2
    <3> QED
      BY <3>3
  <2>10. /\ \A i \in 1..(m + 1) : i < k => i \in 1..m /\ p[i] = q[i]
         /\ p[k] = m + 1
         /\ \A i \in 1..(m + 1) : i > k => i - 1 \in 1..m /\ i - 1 >= k /\ p[i] = q[i - 1]
    BY <2>6
  <2> HIDE DEF K, first
  <2>11. p \in [1..(m + 1) -> 1..(m + 1)]
    <3>1. \A i \in 1..(m + 1) : p[i] \in 1..(m + 1)
      BY <2>t, <2>10, <2>6
    <3> QED
      BY <3>1
  <2> HIDE DEF p
  <2>12. ASSUME NEW i \in 1..(m + 1), NEW j \in 1..(m + 1), p[i] = p[j] PROVE i = j
    <3>1. \A x \in 1..m : q[x] \in 1..m /\ q[x] # m + 1
      BY <2>t
    <3>2. CASE i = k
      BY <2>6, <2>10, <2>12, <3>1, <3>2
    <3>3. CASE j = k
      BY <2>6, <2>10, <2>12, <3>1, <3>3
    <3>4. CASE i # k /\ j # k
      <4> DEFINE a == IF i < k THEN i ELSE i - 1
                 b == IF j < k THEN j ELSE j - 1
      <4>1. a \in 1..m /\ b \in 1..m /\ p[i] = q[a] /\ p[j] = q[b]
        BY <2>6, <2>10, <3>4
      <4>2. a = b
        BY <2>8, <2>12, <4>1
      <4> QED
        BY <2>6, <3>4, <4>2
    <3> QED
      BY <3>2, <3>3, <3>4
  <2>13. ASSUME NEW i \in 1..(m + 1), NEW j \in 1..(m + 1), i <= j PROVE t[p[i]] <= t[p[j]]
    <3>0. \A x \in 1..(m + 1) : t[p[x]] \in Nat
      <4>1. \A x \in 1..(m + 1) : p[x] \in 1..(m + 1)
        BY <2>11, Zenon
      <4>2. \A x \in 1..(m + 1) : t[x] \in Nat
        BY Zenon
      <4> QED
        BY <4>1, <4>2
    <3>1. CASE i = j
      BY <3>0, <3>1
    <3>2. CASE i < k /\ j < k
      BY <2>8, <2>10, <2>13, <3>2
    <3>3. CASE i < k /\ j = k
      BY <2>7, <2>10, <3>3
    <3>4. CASE i < k /\ j > k
      <4>1. i \in 1..m /\ j - 1 \in 1..m /\ i <= j - 1 /\ p[i] = q[i] /\ p[j] = q[j - 1]
        BY <2>6, <2>10, <3>4
      <4> QED
        BY <2>8, <4>1
    <3>5. CASE i = k /\ j > k
      <4>1. j - 1 \in 1..m /\ j - 1 >= k /\ p[j] = q[j - 1] /\ p[i] = m + 1
        BY <2>10, <3>5
      <4> QED
        BY <2>9, <4>1
    <3>6. CASE i > k /\ j > k
      <4>1. i - 1 \in 1..m /\ j - 1 \in 1..m /\ i - 1 <= j - 1 /\ p[i] = q[i - 1] /\ p[j] = q[j - 1]
        BY <2>10, <2>13, <3>6
      <4> QED
        BY <2>8, <4>1
    <3>7. i = j \/ (i < k /\ j < k) \/ (i < k /\ j = k) \/ (i < k /\ j > k) \/ (i = k /\ j > k) \/ (i > k /\ j > k)
      BY <2>6, <2>13
    <3> QED
      BY <3>1, <3>2, <3>3, <3>4, <3>5, <3>6, <3>7
  <2> QED
    BY <2>11, <2>12, <2>13
<1>3. n \in T
  <2> HIDE DEF T
  <2> QED
    BY <1>1, <1>2, NatInd
<1>4. PICK p : Good(n, s, p)
  BY <1>3
<1>5. p \in Injection(1..n, 1..n)
  BY <1>4 DEF Injection, IsInjective
<1>6. Orders(s, p)
  BY <1>4 DEF Orders
<1> QED
  BY <1>5, <1>6

LEMMA SortedIs ==
    ASSUME NEW request \in Seq(Nat)
    PROVE  LET targets == Sorted(request)
           IN /\ targets \in Seq(Nat) /\ Len(targets) = Len(request)
              /\ \A i, k \in DOMAIN targets : i <= k => targets[i] <= targets[k]
<1> DEFINE n == Len(request)
           order == CHOOSE p \in Injection(1..n, 1..n) : Orders(request, p)
<1>1. n \in Nat /\ DOMAIN request = 1..n /\ request \in [1..n -> Nat]
  OBVIOUS
<1>2. \E p \in Injection(1..n, 1..n) : Orders(request, p)
  BY <1>1, Sorting
<1>3. order \in Injection(1..n, 1..n) /\ Orders(request, order)
  BY <1>2, Zenon
<1>4. Sorted(request) = [i \in 1..n |-> request[order[i]]]
  BY <1>1 DEF Sorted, Orders
<1> HIDE DEF n, order
<1>5. order \in [1..n -> 1..n] /\ \A i, k \in 1..n : i <= k => request[order[i]] <= request[order[k]]
  BY <1>1, <1>3 DEF Injection, IsInjective, Orders
<1>6. Sorted(request) \in [1..n -> Nat]
  BY <1>1, <1>4, <1>5
<1>7. Sorted(request) \in Seq(Nat) /\ Len(Sorted(request)) = n /\ DOMAIN Sorted(request) = 1..n
  BY <1>1, <1>6, ListIs
<1> QED
  BY <1>1, <1>4, <1>5, <1>7 DEF n

LEMMA PieceGrows == \A n \in Nat \ {0} : \A q \in Seq(Nat) : Piece(q, n - 1) => Piece(q, n)
<1> SUFFICES ASSUME NEW n \in Nat \ {0}, NEW q \in Seq(Nat), Piece(q, n - 1) PROVE Piece(q, n)
  OBVIOUS
<1>1. Len(q) \in Nat /\ n - 1 \in Nat /\ q[1] \in 1..(n - 1) /\ q[1] + Len(q) - 1 <= n - 1
  BY DEF Piece
<1>2. q[1] \in 1..n /\ q[1] + Len(q) - 1 <= n
  BY <1>1
<1> QED
  BY <1>2 DEF Piece

LEMMA PieceAppended ==
    ASSUME NEW n \in Nat \ {0}, NEW q \in Seq(Nat), Piece(q, n - 1), q[1] + Len(q) - 1 = n - 1
    PROVE  LET r == Append(q, n)
           IN r \in Seq(Nat) /\ Piece(r, n) /\ r[1] = q[1] /\ r[1] + Len(r) - 1 = n
<1> DEFINE r == Append(q, n)
<1>1. /\ Len(q) \in Nat /\ Len(q) # 0 /\ q[1] \in 1..(n - 1) /\ q[1] + Len(q) - 1 = n - 1
      /\ \A i \in 1..Len(q) : q[i] = q[1] + i - 1
  BY DEF Piece
<1>2. /\ r \in Seq(Nat) /\ Len(r) = Len(q) + 1 /\ r[Len(q) + 1] = n
      /\ \A i \in 1..Len(q) : r[i] = q[i]
  BY <1>1, AppendProperties
<1> HIDE DEF r
<1>3. r[1] = q[1]
  BY <1>1, <1>2
<1>4. ASSUME NEW i \in 1..(Len(q) + 1) PROVE r[i] = q[1] + i - 1
  <2>1. CASE i = Len(q) + 1
    <3>1. r[i] = n
      BY <1>2, <2>1
    <3>2. q[1] \in Int /\ Len(q) \in Int /\ n \in Int /\ q[1] + Len(q) - 1 = n - 1
      BY <1>1
    <3>3. n = q[1] + (Len(q) + 1) - 1
      BY <3>2
    <3> QED
      BY <2>1, <3>1, <3>3
  <2>2. CASE i # Len(q) + 1
    <3>1. i \in 1..Len(q)
      BY <1>1, <2>2
    <3> QED
      BY <1>1, <1>2, <3>1
  <2> QED
    BY <2>1, <2>2
<1>5. r[1] \in 1..n /\ r[1] + Len(r) - 1 = n /\ Len(r) # 0
  BY <1>1, <1>2, <1>3
<1>6. \A i \in 1..Len(r) : r[i] = r[1] + i - 1
  BY <1>2, <1>3, <1>4
<1>7. Piece(r, n)
  BY <1>5, <1>6 DEF Piece
<1> QED
  BY <1>2, <1>3, <1>5, <1>7 DEF r

\* AddTarget: the next target goes to the end of the last cluster, or starts one.
LEMMA AddsTarget ==
    ASSUME NEW n \in Nat \ {0}, NEW clusters, Pieces(clusters, n - 1), NEW targets
    PROVE  Pieces(AddTarget(targets, clusters, n), n)
<1> DEFINE N == Len(clusters)
           r == AddTarget(targets, clusters, n)
<1>1. /\ clusters \in Seq(Seq(Nat)) /\ N \in Nat /\ n - 1 \in Nat /\ (N = 0 <=> n = 1)
      /\ \A c \in 1..N : clusters[c] \in Seq(Nat)
  <2>1. clusters \in Seq(Seq(Nat)) /\ n - 1 \in Nat /\ (N = 0 <=> n - 1 = 0)
    BY DEF Pieces
  <2>2. N \in Nat /\ \A c \in 1..N : clusters[c] \in Seq(Nat)
    BY <2>1
  <2> QED
    BY <2>1, <2>2
<1>2. \A c \in 1..N : /\ Piece(clusters[c], n - 1) /\ Piece(clusters[c], n)
                      /\ c < N => clusters[c + 1][1] = clusters[c][1] + Len(clusters[c])
                      /\ c = N => clusters[c][1] + Len(clusters[c]) - 1 = n - 1
                      /\ c = 1 => clusters[c][1] = 1
  BY <1>1, PieceGrows DEF Pieces
<1>3. CASE r = Append(clusters, <<n>>)
  <2>1. /\ r \in Seq(Seq(Nat)) /\ Len(r) = N + 1 /\ r[N + 1] = <<n>>
        /\ \A c \in 1..N : r[c] = clusters[c]
    <3>1. <<n>> \in Seq(Nat)
      OBVIOUS
    <3> HIDE DEF r
    <3> QED
      BY <1>1, <1>3, <3>1, AppendProperties
  <2>2. Len(<<n>>) = 1 /\ <<n>>[1] = n
    OBVIOUS
  <2>3. Piece(<<n>>, n)
    BY <2>2 DEF Piece
  <2> HIDE DEF r
  <2>4. ASSUME NEW c \in 1..(N + 1)
        PROVE  /\ Piece(r[c], n)
               /\ c < N + 1 => r[c + 1][1] = r[c][1] + Len(r[c])
               /\ c = N + 1 => r[c][1] + Len(r[c]) - 1 = n
               /\ c = 1 => r[c][1] = 1
    <3>1. CASE c = N + 1
      <4>1. r[c] = <<n>> /\ (c = 1 => n = 1)
        BY <1>1, <2>1, <3>1
      <4> HIDE DEF N
      <4> QED
        BY <1>1, <2>2, <2>3, <3>1, <4>1
    <3>2. CASE c = N
      <4>1. c \in 1..N /\ r[c] = clusters[c] /\ r[c + 1] = <<n>> /\ N # 0 /\ Len(clusters[c]) \in Nat
            /\ clusters[c][1] \in Nat
        BY <1>1, <1>2, <2>1, <3>2 DEF Piece
      <4>2. /\ Piece(clusters[c], n) /\ clusters[c][1] + Len(clusters[c]) - 1 = n - 1
            /\ (c = 1 => clusters[c][1] = 1)
        BY <1>2, <3>2, <4>1
      <4>3. n = clusters[c][1] + Len(clusters[c])
        BY <4>1, <4>2
      <4> HIDE DEF N
      <4> QED
        BY <1>1, <2>2, <3>2, <4>1, <4>2, <4>3
    <3>3. CASE c < N
      <4>1. c \in 1..N /\ r[c] = clusters[c] /\ c + 1 \in 1..N /\ r[c + 1] = clusters[c + 1] /\ c # N + 1
        <5> HIDE DEF N
        <5>1. c \in 1..N /\ c + 1 \in 1..N /\ c # N + 1
          BY <1>1, <3>3
        <5> QED
          BY <2>1, <5>1
      <4> HIDE DEF N
      <4> QED
        BY <1>2, <3>3, <4>1
    <3> QED
      BY <1>1, <3>1, <3>2, <3>3
  <2>5. N + 1 # 0 /\ n # 0
    BY <1>1
  <2>6. Pieces(r, n)
    <3> HIDE DEF N
    <3> QED
      BY <2>1, <2>4, <2>5 DEF Pieces
  <2> QED
    BY <2>6 DEF r
<1>4. CASE clusters # <<>> /\ r = [clusters EXCEPT ![N] = Append(@, n)]
  <2>1. N # 0 /\ N \in 1..N
    BY <1>1, <1>4
  <2> DEFINE last == Append(clusters[N], n)
  <2>2. last \in Seq(Nat) /\ Piece(last, n) /\ last[1] = clusters[N][1] /\ last[1] + Len(last) - 1 = n
    BY <1>1, <1>2, <2>1, PieceAppended
  <2>3. /\ r \in Seq(Seq(Nat)) /\ Len(r) = N /\ r[N] = last
        /\ \A c \in 1..N : c # N => r[c] = clusters[c]
    <3> HIDE DEF r
    <3> QED
      BY <1>1, <1>4, <2>1, <2>2
  <2> HIDE DEF r, last
  <2>4. ASSUME NEW c \in 1..N
        PROVE  /\ Piece(r[c], n)
               /\ c < N => r[c + 1][1] = r[c][1] + Len(r[c])
               /\ c = N => r[c][1] + Len(r[c]) - 1 = n
               /\ c = 1 => r[c][1] = 1
    <3>1. CASE c = N
      <4> HIDE DEF N
      <4>1. r[c] = last /\ ~(c < N)
        BY <1>1, <2>3, <3>1
      <4>2. c = 1 => clusters[c][1] = 1
        BY <1>2
      <4> QED
        BY <2>2, <3>1, <4>1, <4>2
    <3>2. CASE c < N
      <4>1. c # N /\ c + 1 \in 1..N /\ r[c] = clusters[c]
        BY <1>1, <2>3, <3>2
      <4>2. r[c + 1][1] = clusters[c + 1][1]
        <5>1. CASE c + 1 = N
          BY <2>2, <2>3, <5>1
        <5>2. CASE c + 1 # N
          BY <2>3, <4>1, <5>2
        <5> QED
          BY <5>1, <5>2
      <4> HIDE DEF N
      <4> QED
        BY <1>2, <3>2, <4>1, <4>2
    <3> QED
      BY <1>1, <3>1, <3>2
  <2>5. N = 0 <=> n = 0
    BY <1>1, <2>1
  <2>6. Pieces(r, n)
    <3> HIDE DEF N
    <3> QED
      BY <2>3, <2>4, <2>5 DEF Pieces
  <2> QED
    BY <2>6 DEF r
<1>5. r = Append(clusters, <<n>>) \/ (clusters # <<>> /\ r = [clusters EXCEPT ![N] = Append(@, n)])
  BY DEF AddTarget, StartsCluster
<1> QED
  BY <1>3, <1>4, <1>5

LEMMA ClustersAre ==
    ASSUME NEW targets \in Seq(Nat)
    PROVE  Pieces(ClustersOf(targets), Len(targets))
<1> DEFINE N == Len(targets)
           D == Seq(Seq(Nat))
           G == [p \in D \X (1..N) |-> AddTarget(targets, p[1], p[2])]
           Step1(f, i) == IF i = 0 THEN <<>> ELSE AddTarget(targets, f[i - 1], i)
           upTo == CHOOSE f : f = [i \in 0..N |-> Step1(f, i)]
<1>1. N \in Nat
  OBVIOUS
<1>2. \A i \in 1..N : \A x \in D : G[<<x, i>>] = AddTarget(targets, x, i)
  OBVIOUS
<1>3. \A i \in 1..N : \A x \in D : AddTarget(targets, x, i) \in D
  <2>1. SUFFICES ASSUME NEW i \in 1..N, NEW x \in D PROVE AddTarget(targets, x, i) \in D
    OBVIOUS
  <2>2. <<i>> \in Seq(Nat) /\ i \in Nat /\ Len(x) \in Nat
    OBVIOUS
  <2>3. Append(x, <<i>>) \in D
    BY <2>2, AppendProperties
  <2>4. x # <<>> => [x EXCEPT ![Len(x)] = Append(@, i)] \in D
    <3>1. SUFFICES ASSUME x # <<>> PROVE [x EXCEPT ![Len(x)] = Append(@, i)] \in D
      OBVIOUS
    <3>2. Len(x) \in 1..Len(x) /\ x[Len(x)] \in Seq(Nat)
      BY <2>2, <3>1
    <3>3. Append(x[Len(x)], i) \in Seq(Nat)
      BY <2>2, <3>2, AppendProperties
    <3> QED
      BY <3>2, <3>3
  <2>5. AddTarget(targets, x, i) = Append(x, <<i>>) \/ (x # <<>> /\ AddTarget(targets, x, i) = [x EXCEPT ![Len(x)] = Append(@, i)])
    BY DEF AddTarget, StartsCluster
  <2> QED
    BY <2>3, <2>4, <2>5
<1>4. PICK f \in [0..N -> D] : f[0] = <<>> /\ \A i \in 1..N : f[i] = G[<<f[i - 1], i>>]
  <2> HIDE DEF G, N
  <2>1. N \in Nat /\ <<>> \in D /\ Closed(D, N, G)
    BY <1>1, <1>2, <1>3 DEF Closed
  <2> HIDE DEF D
  <2>2. Unfolds(D, N, <<>>, G)
    BY <2>1, Recursion
  <2> QED
    BY <2>2 DEF Unfolds
<1> HIDE DEF D, G
<1>5. \A i \in 0..N : f[i] = Step1(f, i)
  <2>1. SUFFICES ASSUME NEW i \in 0..N PROVE f[i] = Step1(f, i)
    OBVIOUS
  <2>2. CASE i = 0
    BY <1>4, <2>2
  <2>3. CASE i # 0
    <3> HIDE DEF N
    <3>1. i \in 1..N /\ i - 1 \in 0..N
      BY <1>1, <2>3
    <3>2. f[i - 1] \in D
      BY <1>4, <3>1
    <3>3. f[i] = G[<<f[i - 1], i>>] /\ G[<<f[i - 1], i>>] = AddTarget(targets, f[i - 1], i)
      BY <1>2, <1>4, <3>1, <3>2
    <3> QED
      BY <2>3, <3>3
  <2> QED
    BY <2>2, <2>3
<1>6. f = [i \in 0..N |-> Step1(f, i)]
  <2>1. f = [i \in 0..N |-> f[i]]
    BY <1>4
  <2> HIDE DEF Step1
  <2> QED
    BY <1>5, <2>1
<1>7. upTo = [i \in 0..N |-> Step1(upTo, i)]
  <2>1. \E h : h = [i \in 0..N |-> Step1(h, i)]
    <3> HIDE DEF Step1
    <3> QED
      BY <1>6
  <2> HIDE DEF Step1, N
  <2> QED
    BY <2>1
<1>8. \A i \in 0..N : upTo[i] = Step1(upTo, i)
  <2> HIDE DEF Step1, upTo
  <2> QED
    BY <1>7
<1>9. ClustersOf(targets) = upTo[N]
  BY DEF ClustersOf
<1> HIDE DEF upTo
<1> DEFINE T == {i \in Nat : i <= N => Pieces(upTo[i], i)}
<1>10. 0 \in T
  <2>1. upTo[0] = <<>>
    BY <1>1, <1>8
  <2>2. <<>> \in Seq(Seq(Nat)) /\ Len(<<>>) = 0
    OBVIOUS
  <2>3. Pieces(<<>>, 0)
    BY <2>2 DEF Pieces
  <2> QED
    BY <2>1, <2>3
<1>11. ASSUME NEW i \in Nat, i \in T PROVE i + 1 \in T
  <2>1. SUFFICES ASSUME i + 1 <= N PROVE Pieces(upTo[i + 1], i + 1)
    OBVIOUS
  <2>2. Pieces(upTo[i], i) /\ i + 1 \in 0..N /\ i + 1 # 0 /\ (i + 1) - 1 = i /\ i + 1 \in Nat \ {0}
    BY <1>1, <1>11, <2>1
  <2>3. upTo[i + 1] = AddTarget(targets, upTo[i], i + 1)
    BY <1>8, <2>2
  <2> HIDE DEF T, N
  <2> QED
    BY <2>2, <2>3, AddsTarget
<1>12. N \in T
  <2> HIDE DEF T
  <2> QED
    BY <1>1, <1>10, <1>11, NatInd
<1> QED
  BY <1>9, <1>12

\* A buffer is its targets by timestamp, cut into pieces.
LEMMA BufferIs ==
    ASSUME NEW request \in Requests
    PROVE  BufferOK(FinalizeDecodeBuffer(request))
<1> DEFINE targets == Sorted(request)
<1>1. request \in Seq(Nat) /\ Len(request) # 0 /\ Len(request) \in Nat
  BY RequestsAssumption
<1>2. /\ targets \in Seq(Nat) /\ Len(targets) = Len(request)
      /\ \A i, k \in DOMAIN targets : i <= k => targets[i] <= targets[k]
  BY <1>1, SortedIs
<1>3. /\ DOMAIN targets = 1..Len(targets) /\ Len(targets) # 0
      /\ \A i, k \in 1..Len(targets) : i <= k => targets[i] <= targets[k]
  <2>1. DOMAIN targets = 1..Len(targets)
    BY <1>2
  <2> HIDE DEF targets
  <2> QED
    BY <1>1, <1>2, <2>1
<1>4. Pieces(ClustersOf(targets), Len(targets))
  BY <1>2, ClustersAre
<1>5. FinalizeDecodeBuffer(request) = [targets |-> targets, clusters |-> ClustersOf(targets)]
  BY DEF FinalizeDecodeBuffer
<1> HIDE DEF targets
<1> QED
  BY <1>1, <1>2, <1>3, <1>4, <1>5 DEF BufferOK

LEMMA PieceFacts ==
    ASSUME NEW buf, BufferOK(buf), NEW c \in 1..Len(buf.clusters)
    PROVE  LET q == buf.clusters[c]
           IN /\ q \in Seq(Nat) /\ Len(q) \in Nat \ {0} /\ Head(q) = q[1] /\ Last(q) = q[Len(q)]
              /\ q[1] \in 1..Len(buf.targets) /\ Len(buf.targets) \in Nat
              /\ \A i \in 1..Len(q) : /\ q[i] = q[1] + i - 1 /\ q[i] \in 1..Len(buf.targets)
                                      /\ buf.targets[q[i]] \in Nat
              /\ \A i, k \in 1..Len(q) : i <= k => buf.targets[q[i]] <= buf.targets[q[k]]
              /\ c < Len(buf.clusters) => buf.clusters[c + 1][1] = q[1] + Len(q)
              /\ c = Len(buf.clusters) => q[1] + Len(q) - 1 = Len(buf.targets)
              /\ c = 1 => q[1] = 1
<1> DEFINE q == buf.clusters[c]
           n == Len(buf.targets)
<1>1. /\ n \in Nat /\ buf.clusters \in Seq(Seq(Nat)) /\ buf.targets \in Seq(Nat)
      /\ \A i, k \in 1..n : i <= k => buf.targets[i] <= buf.targets[k]
      /\ Pieces(buf.clusters, n)
  <2>1. buf.targets \in Seq(Nat) /\ Pieces(buf.clusters, n)
    BY DEF BufferOK
  <2>2. n \in Nat
    BY <2>1
  <2> QED
    BY <2>1, <2>2 DEF BufferOK, Pieces
<1>2. /\ q \in Seq(Nat) /\ Piece(q, n)
      /\ c < Len(buf.clusters) => buf.clusters[c + 1][1] = q[1] + Len(q)
      /\ c = Len(buf.clusters) => q[1] + Len(q) - 1 = n
      /\ c = 1 => q[1] = 1
  <2>1. q \in Seq(Nat)
    BY <1>1
  <2> HIDE DEF n
  <2> QED
    BY <1>1, <2>1 DEF Pieces
<1> HIDE DEF q, n
<1>3. /\ Len(q) \in Nat \ {0} /\ q[1] \in 1..n /\ q[1] + Len(q) - 1 <= n
      /\ \A i \in 1..Len(q) : q[i] = q[1] + i - 1
  BY <1>2 DEF Piece
<1>4. Head(q) = q[1] /\ Last(q) = q[Len(q)]
  BY <1>2, <1>3 DEF Last
<1>5. \A i \in 1..Len(q) : q[i] \in 1..n
  <2> SUFFICES ASSUME NEW i \in 1..Len(q) PROVE q[i] \in 1..n
    OBVIOUS
  <2>1. q[i] = q[1] + i - 1 /\ q[1] \in Nat /\ q[1] >= 1 /\ i \in Nat /\ i >= 1 /\ i <= Len(q) /\ Len(q) \in Nat /\ n \in Nat
    BY <1>1, <1>3
  <2>2. q[1] + i - 1 \in 1..n
    BY <1>3, <2>1
  <2> QED
    BY <2>1, <2>2
<1>6. \A k \in 1..n : buf.targets[k] \in Nat
  BY <1>1 DEF n
<1>7. \A i \in 1..Len(q) : buf.targets[q[i]] \in Nat
  BY <1>5, <1>6
<1>8. ASSUME NEW i \in 1..Len(q), NEW k \in 1..Len(q), i <= k PROVE buf.targets[q[i]] <= buf.targets[q[k]]
  <2>1. q[i] = q[1] + i - 1 /\ q[k] = q[1] + k - 1 /\ q[1] \in Nat
    BY <1>3
  <2>2. q[i] <= q[k]
    BY <1>8, <2>1
  <2> QED
    BY <1>1, <1>5, <2>2
<1>9. \A i \in 1..Len(q) : q[i] = q[1] + i - 1 /\ q[i] \in 1..n /\ buf.targets[q[i]] \in Nat
  BY <1>3, <1>5, <1>7
<1>10. n \in Nat
  BY <1>1
<1> QED
  BY <1>2, <1>3, <1>4, <1>8, <1>9, <1>10 DEF q, n

\* The targets that are left after t targets of cluster c.
Left(buf, c, t) ==
    [i \in 1..(Len(buf.targets) - (Head(buf.clusters[c]) - 1) - t) |->
        buf.targets[Head(buf.clusters[c]) - 1 + t + i]]

LEMMA RemainingIs ==
    Remaining = IF buffer = NoBuffer THEN <<>> ELSE Left(buffer, place.cluster + 1, place.target)
  BY DEF Remaining, Left, Cluster

LEMMA LeftFirst == \A buf : BufferOK(buf) => /\ Left(buf, 1, 0) = buf.targets /\ buf # NoBuffer
                                             /\ 1 \in 1..Len(buf.clusters)
<1> SUFFICES ASSUME NEW buf, BufferOK(buf)
             PROVE  Left(buf, 1, 0) = buf.targets /\ buf # NoBuffer /\ 1 \in 1..Len(buf.clusters)
  OBVIOUS
<1>1. buf.targets \in Seq(Nat) /\ Len(buf.targets) # 0 /\ buf # NoBuffer
  BY DEF BufferOK, NoBuffer
<1>2. Len(buf.clusters) # 0 /\ Len(buf.clusters) \in Nat
  BY <1>1 DEF BufferOK, Pieces
<1>3. 1 \in 1..Len(buf.clusters)
  BY <1>2
<1>4. Head(buf.clusters[1]) = 1
  BY <1>3, PieceFacts
<1>5. Left(buf, 1, 0) = [i \in 1..Len(buf.targets) |-> buf.targets[i]]
  BY <1>1, <1>4 DEF Left
<1> QED
  BY <1>1, <1>3, <1>5

LEMMA LeftNext ==
    ASSUME NEW buf, BufferOK(buf), NEW c \in 1..Len(buf.clusters)
    PROVE  /\ c < Len(buf.clusters) =>
                 c + 1 \in 1..Len(buf.clusters) /\ Left(buf, c + 1, 0) = Left(buf, c, Len(buf.clusters[c]))
           /\ c = Len(buf.clusters) => Left(buf, c, Len(buf.clusters[c])) = <<>>
<1> DEFINE q == buf.clusters[c]
           n == Len(buf.targets)
<1>1. /\ Len(q) \in Nat /\ n \in Nat /\ q[1] \in 1..n /\ Head(q) = q[1]
      /\ c < Len(buf.clusters) => buf.clusters[c + 1][1] = q[1] + Len(q)
      /\ c = Len(buf.clusters) => q[1] + Len(q) - 1 = n
  BY PieceFacts
<1>2. CASE c < Len(buf.clusters)
  <2>1. c + 1 \in 1..Len(buf.clusters) /\ c # Len(buf.clusters)
    <3>1. Len(buf.clusters) \in Nat
      BY DEF BufferOK, Pieces
    <3> QED
      BY <1>2, <3>1
  <2>2. Head(buf.clusters[c + 1]) = q[1] + Len(q)
    <3>1. Head(buf.clusters[c + 1]) = buf.clusters[c + 1][1]
      BY <2>1, PieceFacts
    <3> QED
      BY <1>1, <1>2, <3>1
  <2> HIDE DEF q, n
  <2>3. /\ n - ((q[1] + Len(q)) - 1) - 0 = n - (q[1] - 1) - Len(q)
        /\ \A i \in Int : (q[1] + Len(q)) - 1 + 0 + i = q[1] - 1 + Len(q) + i
    BY <1>1
  <2>4. Left(buf, c + 1, 0) = [i \in 1..(n - (q[1] - 1) - Len(q)) |-> buf.targets[q[1] - 1 + Len(q) + i]]
    <3>1. Left(buf, c + 1, 0) = [i \in 1..(n - ((q[1] + Len(q)) - 1) - 0) |->
                                    buf.targets[(q[1] + Len(q)) - 1 + 0 + i]]
      BY <2>2 DEF Left, n
    <3>2. n - ((q[1] + Len(q)) - 1) - 0 = n - (q[1] - 1) - Len(q)
      BY <2>3
    <3>3. \A i \in 1..(n - (q[1] - 1) - Len(q)) : (q[1] + Len(q)) - 1 + 0 + i = q[1] - 1 + Len(q) + i
      BY <2>3
    <3> QED
      BY <3>1, <3>2, <3>3
  <2>5. Left(buf, c, Len(q)) = [i \in 1..(n - (q[1] - 1) - Len(q)) |-> buf.targets[q[1] - 1 + Len(q) + i]]
    BY <1>1 DEF Left, q, n
  <2> QED
    BY <2>1, <2>4, <2>5 DEF q
<1>3. CASE c = Len(buf.clusters)
  <2>1. n - (q[1] - 1) - Len(q) = 0
    BY <1>1, <1>3
  <2>2. Left(buf, c, Len(q)) = <<>>
    BY <1>1, <2>1 DEF Left
  <2>3. ~(c < Len(buf.clusters))
    BY <1>3
  <2> QED
    BY <2>2, <2>3
<1>4. c < Len(buf.clusters) \/ c = Len(buf.clusters)
  <2>1. Len(buf.clusters) \in Nat
    BY DEF BufferOK, Pieces
  <2> QED
    BY <2>1
<1> QED
  BY <1>2, <1>3, <1>4

LEMMA SeqIsFunction == \A S : \A s \in Seq(S) : s = [i \in 1..Len(s) |-> s[i]]
  OBVIOUS

LEMMA LeftArithmetic ==
    ASSUME NEW a \in Nat \ {0}, NEW n \in Nat, NEW t \in Nat, NEW m, m = n - (a - 1) - t, a + t <= n
    PROVE  /\ m \in Nat \ {0} /\ m - 1 = n - (a - 1) - (t + 1)
           /\ \A i \in 1..m : a - 1 + t + i \in 1..n
           /\ \A i \in 1..(m - 1) : i + 1 \in 1..m /\ a - 1 + t + (i + 1) = a - 1 + (t + 1) + i
  OBVIOUS

LEMMA LeftTarget ==
    ASSUME NEW buf, BufferOK(buf), NEW c \in 1..Len(buf.clusters), NEW t \in Nat, t < Len(buf.clusters[c])
    PROVE  LET left == Left(buf, c, t)
           IN /\ left # <<>> /\ Head(left) = buf.targets[buf.clusters[c][t + 1]]
              /\ Tail(left) = Left(buf, c, t + 1)
<1> DEFINE q == buf.clusters[c]
           n == Len(buf.targets)
           m == n - (q[1] - 1) - t
<1>1. /\ Len(q) \in Nat /\ n \in Nat /\ q[1] \in 1..n /\ Head(q) = q[1]
      /\ q[t + 1] = q[1] + (t + 1) - 1 /\ q[t + 1] \in 1..n
  <2>1. t + 1 \in 1..Len(q)
    BY PieceFacts
  <2> QED
    BY <2>1, PieceFacts
<1> HIDE DEF q
<1>2. q[1] + t <= n /\ m \in Nat \ {0} /\ m - 1 = n - (q[1] - 1) - (t + 1) /\ q[1] \in Nat \ {0} /\ n \in Nat
  <2> HIDE DEF n
  <2>1. q[1] \in Nat \ {0} /\ q[1] + (t + 1) - 1 <= n
    BY <1>1
  <2>2. q[1] + t <= n /\ t \in Nat /\ n \in Nat
    BY <1>1, <2>1
  <2> QED
    BY <2>1, <2>2, LeftArithmetic
<1>3. Left(buf, c, t) = [i \in 1..m |-> buf.targets[q[1] - 1 + t + i]]
  BY <1>1 DEF Left, q
<1>4. Left(buf, c, t + 1) = [i \in 1..(m - 1) |-> buf.targets[q[1] - 1 + (t + 1) + i]]
  <2>1. Left(buf, c, t + 1) = [i \in 1..(n - (q[1] - 1) - (t + 1)) |-> buf.targets[q[1] - 1 + (t + 1) + i]]
    BY <1>1 DEF Left, q
  <2> HIDE DEF m, n
  <2> QED
    BY <1>2, <2>1
<1>5. \A k \in 1..n : buf.targets[k] \in Nat
  BY DEF BufferOK
<1>6. /\ \A i \in 1..m : q[1] - 1 + t + i \in 1..n
      /\ \A i \in 1..(m - 1) : i + 1 \in 1..m /\ q[1] - 1 + t + (i + 1) = q[1] - 1 + (t + 1) + i
  <2> DEFINE a == q[1]
  <2>1. a \in Nat \ {0} /\ n \in Nat /\ t \in Nat /\ m = n - (a - 1) - t /\ a + t <= n
    BY <1>2
  <2> HIDE DEF a, n, m
  <2>2. /\ \A i \in 1..m : a - 1 + t + i \in 1..n
        /\ \A i \in 1..(m - 1) : i + 1 \in 1..m /\ a - 1 + t + (i + 1) = a - 1 + (t + 1) + i
    BY <2>1, LeftArithmetic
  <2> QED
    BY <2>2 DEF a
<1> HIDE DEF m, n
<1> DEFINE left == [i \in 1..m |-> buf.targets[q[1] - 1 + t + i]]
<1>7. left \in [1..m -> Nat]
  BY <1>5, <1>6
<1>8. left \in Seq(Nat) /\ Len(left) = m
  BY <1>2, <1>7, ListIs
<1>9. left # <<>> /\ Head(left) = left[1]
  <2> HIDE DEF left
  <2>1. Len(left) # 0
    BY <1>2, <1>8
  <2>2. left # <<>>
    BY <2>1
  <2> QED
    BY <1>8, <2>2, HeadTailProperties
<1>10. left[1] = buf.targets[q[t + 1]]
  <2>1. left[1] = buf.targets[q[1] - 1 + t + 1]
    BY <1>2
  <2>2. q[1] - 1 + t + 1 = q[t + 1]
    BY <1>1
  <2> QED
    BY <2>1, <2>2
<1>11. Tail(left) = [i \in 1..(m - 1) |-> left[i + 1]]
  <2> HIDE DEF left
  <2>1. /\ Tail(left) \in Seq(Nat) /\ Len(Tail(left)) = m - 1
        /\ \A i \in 1..(m - 1) : Tail(left)[i] = left[i + 1]
    BY <1>8, <1>9, HeadTailProperties
  <2>2. Tail(left) = [i \in 1..(m - 1) |-> Tail(left)[i]]
    BY <2>1, SeqIsFunction
  <2> QED
    BY <2>1, <2>2
<1>12. \A i \in 1..(m - 1) : left[i + 1] = buf.targets[q[1] - 1 + (t + 1) + i]
  <2> SUFFICES ASSUME NEW i \in 1..(m - 1) PROVE left[i + 1] = buf.targets[q[1] - 1 + (t + 1) + i]
    OBVIOUS
  <2>1. i + 1 \in 1..m /\ q[1] - 1 + t + (i + 1) = q[1] - 1 + (t + 1) + i
    BY <1>6, Zenon
  <2>2. left[i + 1] = buf.targets[q[1] - 1 + t + (i + 1)]
    BY <2>1
  <2> QED
    BY <2>1, <2>2
<1>13. Tail(left) = Left(buf, c, t + 1)
  BY <1>4, <1>11, <1>12
<1> QED
  BY <1>3, <1>9, <1>10, <1>13 DEF q

-----------------------------------------------------------------------------
(* The video *)

LEMMA Division ==
    \A a \in Nat : \A d \in Nat \ {0} :
       (a \div d) \in Nat /\ d * (a \div d) <= a /\ a < d * (a \div d) + d
  OBVIOUS

LEMMA Ticks ==
    ASSUME NEW a \in Nat, NEW b \in Nat, a % Tick = 0, b % Tick = 0, a < b
    PROVE  a + Tick <= b
<1>1. Tick \in Nat \ {0}
  BY TimeAssumption
<1>2. \A x \in Nat : \A d \in Nat \ {0} : x % d = 0 => x = d * (x \div d) /\ (x \div d) \in Nat
  OBVIOUS
<1> DEFINE i == a \div Tick
           k == b \div Tick
<1>3. a = Tick * i /\ b = Tick * k /\ i \in Nat /\ k \in Nat
  BY <1>1, <1>2
<1> HIDE DEF i, k
<1>4. \A x, y \in Nat : \A d \in Nat \ {0} : d * x < d * y => d * x + d <= d * y
  OBVIOUS
<1> QED
  BY <1>1, <1>3, <1>4

LEMMA VideoIs ==
    ASSUME IsVideo(video)
    PROVE  LET n == Len(video.pts)
           IN /\ n \in Nat /\ DOMAIN video.pts = 1..n /\ video.pts \in Seq(Nat)
              /\ \A f \in 1..n : video.pts[f] \in Nat /\ video.pts[f] % Tick = 0
              /\ \A f, g \in 1..n : f < g => video.pts[f] < video.pts[g] /\ video.pts[f] + Tick <= video.pts[g]
              /\ video.keyframes \subseteq 1..n /\ video.delay \in Nat
<1> DEFINE n == Len(video.pts)
           p == video.pts
           T == {d \in Nat : \A f \in 1..n : f + d + 1 <= n => p[f] < p[f + d + 1]}
<1>1. /\ n \in Nat /\ DOMAIN p = 1..n /\ p \in Seq(Nat) /\ \A f \in 1..n : p[f] \in Nat
      /\ \A f \in 2..n : p[f - 1] < p[f]
  BY DEF IsVideo
<1>2. /\ \A f \in 1..n : p[f] % Tick = 0
      /\ video.keyframes \subseteq 1..n /\ video.delay \in Nat
  BY <1>1 DEF IsVideo
<1> HIDE DEF n, p
<1>3. 0 \in T
  <2> SUFFICES ASSUME NEW f \in 1..n, f + 0 + 1 <= n PROVE p[f] < p[f + 0 + 1]
    OBVIOUS
  <2>1. f + 1 \in 2..n /\ (f + 1) - 1 = f /\ f + 0 + 1 = f + 1
    BY <1>1
  <2>2. p[(f + 1) - 1] < p[f + 1]
    BY <1>1, <2>1
  <2> QED
    BY <2>1, <2>2
<1>4. ASSUME NEW d \in Nat, d \in T PROVE d + 1 \in T
  <2> SUFFICES ASSUME NEW f \in 1..n, f + (d + 1) + 1 <= n PROVE p[f] < p[f + (d + 1) + 1]
    OBVIOUS
  <2>1. f + d + 1 \in 1..n /\ f + (d + 1) + 1 \in 2..n /\ (f + (d + 1) + 1) - 1 = f + d + 1
    BY <1>1
  <2>2. p[f] < p[f + d + 1]
    BY <1>4, <2>1
  <2>3. p[f + d + 1] < p[f + (d + 1) + 1]
    <3>1. p[(f + (d + 1) + 1) - 1] < p[f + (d + 1) + 1]
      BY <1>1, <2>1
    <3> QED
      BY <2>1, <3>1
  <2>4. p[f] \in Nat /\ p[f + d + 1] \in Nat /\ p[f + (d + 1) + 1] \in Nat
    <3>1. f + (d + 1) + 1 \in 1..n
      BY <2>1
    <3> QED
      BY <1>1, <2>1, <3>1
  <2> QED
    BY <2>2, <2>3, <2>4
<1>5. Nat \subseteq T
  <2> HIDE DEF T
  <2> QED
    BY <1>3, <1>4, NatInd
<1>6. ASSUME NEW f \in 1..n, NEW g \in 1..n, f < g PROVE p[f] < p[g] /\ p[f] + Tick <= p[g]
  <2>1. g - f - 1 \in Nat /\ f + (g - f - 1) + 1 = g /\ g <= n
    BY <1>1, <1>6
  <2>2. \A d \in Nat : f + d + 1 <= n => p[f] < p[f + d + 1]
    BY <1>5
  <2>3. p[f] < p[g]
    <3>1. f + (g - f - 1) + 1 <= n => p[f] < p[f + (g - f - 1) + 1]
      BY <2>1, <2>2
    <3> QED
      BY <2>1, <3>1
  <2> QED
    BY <1>1, <1>2, <2>3, Ticks
<1> QED
  BY <1>1, <1>2, <1>6 DEF n, p

LEMMA SeekKeyframeIs ==
    ASSUME IsVideo(video), NEW tick \in Nat
    PROVE  LET k == SeekKeyframe(tick)
           IN /\ k \in Nat \ {0} /\ k <= Len(video.pts) + 1
              /\ k = 1 \/ (k \in 1..Len(video.pts) /\ video.pts[k] <= tick * Tick)
              /\ \A other \in video.keyframes : video.pts[other] <= tick * Tick => other <= k
<1> DEFINE before == {k \in video.keyframes : video.pts[k] <= tick * Tick}
           n == Len(video.pts)
<1>1. n \in Nat /\ video.keyframes \subseteq 1..n
  BY VideoIs
<1>2. CASE before = {}
  <2>1. SeekKeyframe(tick) = 1
    BY <1>2 DEF SeekKeyframe
  <2>2. \A other \in video.keyframes : ~(video.pts[other] <= tick * Tick)
    BY <1>2
  <2> QED
    BY <1>1, <2>1, <2>2
<1>3. CASE before # {}
  <2> HIDE DEF n
  <2> DEFINE T == {n - k : k \in before}
  <2>1. T \subseteq Nat /\ T # {}
    BY <1>1, <1>3
  <2>2. PICK d \in T : \A other \in T : d <= other
    <3> HIDE DEF T
    <3> QED
      BY <2>1, NatLeast
  <2>3. PICK last \in before : d = n - last
    BY <2>2
  <2>4. \A other \in before : other <= last
    <3> SUFFICES ASSUME NEW other \in before PROVE other <= last
      OBVIOUS
    <3>1. n - last <= n - other
      BY <2>2, <2>3
    <3>2. other \in Nat /\ last \in Nat
      BY <1>1
    <3> QED
      BY <1>1, <3>1, <3>2
  <2>5. SeekKeyframe(tick) = CHOOSE k \in before : \A other \in before : other <= k
    BY <1>3 DEF SeekKeyframe
  <2> DEFINE k == CHOOSE k \in before : \A other \in before : other <= k
  <2>6. k \in before /\ \A other \in before : other <= k
    <3> HIDE DEF before
    <3> QED
      BY <2>4
  <2> HIDE DEF k
  <2>7. SeekKeyframe(tick) = k
    BY <2>5 DEF k
  <2>8. k \in 1..n /\ video.pts[k] <= tick * Tick
    BY <1>1, <2>6
  <2>9. k \in Nat \ {0} /\ k <= n + 1
    BY <1>1, <2>8
  <2> QED
    BY <2>6, <2>7, <2>8, <2>9 DEF n
<1> QED
  BY <1>2, <1>3

LEMMA SeekTickIs ==
    ASSUME NEW earliest \in Nat
    PROVE  LET tick == SeekTick(earliest)
           IN /\ tick \in Nat /\ tick * Tick \in Nat /\ tick * Tick <= earliest
              /\ 2 * earliest < 2 * (tick * Tick) + 3 * Tick
<1> DEFINE a == 2 * earliest + Tick
           d == 2 * Tick
           q == a \div d
<1>1. Tick \in Nat \ {0} /\ a \in Nat /\ d \in Nat \ {0}
  BY TimeAssumption
<1>2. q \in Nat /\ d * q <= a /\ a < d * q + d
  <2> HIDE DEF a, d
  <2> QED
    BY <1>1, Division
<1>3. SeekTick(earliest) = IF q > 0 THEN q - 1 ELSE 0
  BY DEF SeekTick
<1>4. a = 2 * earliest + Tick /\ d = 2 * Tick
  OBVIOUS
<1> HIDE DEF a, d, q
<1>5. CASE q > 0
  <2> DEFINE tick == q - 1
  <2>1. tick \in Nat /\ q = tick + 1
    BY <1>2, <1>5
  <2> HIDE DEF tick
  <2>2. d * q = 2 * (tick * Tick) + 2 * Tick
    BY <1>1, <1>4, <2>1
  <2>3. tick * Tick \in Nat
    BY <1>1, <2>1
  <2> DEFINE b == tick * Tick
  <2>4. b \in Nat /\ 2 * b + 2 * Tick <= 2 * earliest + Tick /\ 2 * earliest + Tick < 2 * b + 2 * Tick + 2 * Tick
    BY <1>2, <1>4, <2>2, <2>3
  <2> HIDE DEF b
  <2>5. b <= earliest /\ 2 * earliest < 2 * b + 3 * Tick
    BY <1>1, <2>4
  <2> QED
    BY <1>3, <1>5, <2>1, <2>4, <2>5 DEF b, tick
<1>6. CASE q = 0
  <2>1. SeekTick(earliest) = 0 /\ 0 * Tick = 0
    BY <1>1, <1>3, <1>6
  <2>2. d * q = 0
    BY <1>1, <1>6
  <2>3. 2 * earliest + Tick < 2 * Tick
    BY <1>2, <1>4, <2>2
  <2> QED
    BY <1>1, <2>1, <2>3
<1> QED
  BY <1>2, <1>5, <1>6

\* A span of d frames and a bit is estimated at d + 2 frames.
LEMMA SpanIs ==
    ASSUME NEW first \in Nat, NEW latest \in Nat
    PROVE  /\ EstimateFrameSpan(first, latest) \in Nat \ {0}
           /\ \A d \in Nat : first + d * FrameDuration < latest => d + 2 <= EstimateFrameSpan(first, latest)
<1>0. FrameDuration \in Nat \ {0}
  BY TimeAssumption
<1>1. CASE latest <= first
  <2>1. EstimateFrameSpan(first, latest) = 1
    BY <1>1 DEF EstimateFrameSpan
  <2>2. \A d \in Nat : d * FrameDuration \in Nat
    BY <1>0
  <2> QED
    BY <1>1, <2>1, <2>2
<1>2. CASE ~(latest <= first)
  <2> DEFINE a == latest - first + FrameDuration - 1
             q == a \div FrameDuration
  <2>1. a \in Nat
    BY <1>0, <1>2
  <2>2. q \in Nat /\ FrameDuration * q <= a /\ a < FrameDuration * q + FrameDuration
    <3> HIDE DEF a
    <3> QED
      BY <1>0, <2>1, Division
  <2>3. EstimateFrameSpan(first, latest) = q + 1
    BY <1>2 DEF EstimateFrameSpan
  <2>4. a = latest - first + FrameDuration - 1
    OBVIOUS
  <2> HIDE DEF a, q
  <2>5. ASSUME NEW d \in Nat, first + d * FrameDuration < latest PROVE d + 2 <= q + 1
    <3>1. d * FrameDuration \in Nat /\ FrameDuration * (d + 1) = d * FrameDuration + FrameDuration
      BY <1>0
    <3>2. d * FrameDuration + FrameDuration <= a
      BY <1>0, <2>4, <2>5, <3>1
    <3>3. FrameDuration * (d + 1) < FrameDuration * (q + 1)
      <4>1. FrameDuration * (q + 1) = FrameDuration * q + FrameDuration /\ FrameDuration * q \in Nat
        BY <1>0, <2>2
      <4> QED
        BY <1>0, <2>1, <2>2, <3>1, <3>2, <4>1
    <3>4. \A x, y \in Nat : \A k \in Nat \ {0} : k * x < k * y => x < y
      OBVIOUS
    <3>5. d + 1 < q + 1
      BY <1>0, <2>2, <3>3, <3>4
    <3> QED
      BY <2>2, <3>5
  <2> QED
    BY <2>2, <2>3, <2>5
<1> QED
  BY <1>1, <1>2

\* Frames that are not closer than the frame rate says.
LEMMA Spaced ==
    ASSUME IsVideo(video), Promise!Regular
    PROVE  \A f, g \in 1..Len(video.pts) : f <= g =>
              video.pts[f] + (g - f) * FrameDuration <= video.pts[g]
<1> DEFINE n == Len(video.pts)
           p == video.pts
           T == {d \in Nat : \A f \in 1..n : f + d <= n => p[f] + d * FrameDuration <= p[f + d]}
<1>1. n \in Nat /\ DOMAIN p = 1..n /\ \A f \in 1..n : p[f] \in Nat
  BY VideoIs
<1>2. \A f \in 1..n : f > 1 => p[f] - p[f - 1] >= FrameDuration
  BY <1>1 DEF Promise!Regular
<1>3. FrameDuration \in Nat \ {0}
  BY TimeAssumption
<1> HIDE DEF n, p
<1>4. 0 \in T
  <2> SUFFICES ASSUME NEW f \in 1..n PROVE p[f] + 0 * FrameDuration <= p[f + 0]
    OBVIOUS
  <2>1. f + 0 = f /\ 0 * FrameDuration = 0
    BY <1>3
  <2> QED
    BY <1>1, <2>1
<1>5. ASSUME NEW d \in Nat, d \in T PROVE d + 1 \in T
  <2> SUFFICES ASSUME NEW f \in 1..n, f + (d + 1) <= n PROVE p[f] + (d + 1) * FrameDuration <= p[f + (d + 1)]
    OBVIOUS
  <2>1. f + d \in 1..n /\ f + (d + 1) \in 1..n /\ (f + (d + 1)) - 1 = f + d /\ f + (d + 1) > 1
    BY <1>1
  <2>2. p[f] + d * FrameDuration <= p[f + d]
    BY <1>5, <2>1
  <2>3. p[f + (d + 1)] - p[f + d] >= FrameDuration
    <3>1. p[f + (d + 1)] - p[(f + (d + 1)) - 1] >= FrameDuration
      BY <1>2, <2>1
    <3> QED
      BY <2>1, <3>1
  <2>4. p[f] \in Nat /\ p[f + d] \in Nat /\ p[f + (d + 1)] \in Nat
    BY <1>1, <2>1
  <2>5. (d + 1) * FrameDuration = d * FrameDuration + FrameDuration /\ d * FrameDuration \in Nat
    BY <1>3
  <2> QED
    BY <1>3, <2>2, <2>3, <2>4, <2>5
<1>6. Nat \subseteq T
  <2> HIDE DEF T
  <2> QED
    BY <1>4, <1>5, NatInd
<1>7. ASSUME NEW f \in 1..n, NEW g \in 1..n, f <= g PROVE p[f] + (g - f) * FrameDuration <= p[g]
  <2>1. g - f \in Nat /\ f + (g - f) = g /\ g <= n
    BY <1>1, <1>7
  <2>2. f + (g - f) <= n => p[f] + (g - f) * FrameDuration <= p[f + (g - f)]
    BY <1>6, <2>1
  <2> QED
    BY <2>1, <2>2
<1> QED
  BY <1>7 DEF n, p

\* The budget of a seek reaches the first frame at or after the last target of the cluster.
LEMMA BudgetReaches ==
    ASSUME IsVideo(video), Promise!Regular, NEW start \in Nat, NEW latest \in Nat,
           NEW f \in 1..Len(video.pts), SeekKeyframe(SeekTick(start)) <= f,
           f > SeekKeyframe(SeekTick(start)) => video.pts[f - 1] < latest
    PROVE  f - SeekKeyframe(SeekTick(start)) + 1 <= DecodeFrameBudget(start, latest)
<1> DEFINE n == Len(video.pts)
           p == video.pts
           tick == SeekTick(start)
           b == tick * Tick
           s == SeekKeyframe(tick)
           span == EstimateFrameSpan(start, latest)
<1>1. /\ n \in Nat /\ DOMAIN p = 1..n /\ \A g \in 1..n : p[g] \in Nat /\ p[g] % Tick = 0
      /\ \A g, h \in 1..n : g < h => p[g] + Tick <= p[h]
      /\ video.keyframes \subseteq 1..n
  BY VideoIs
<1>2. tick \in Nat /\ b \in Nat /\ b <= start /\ 2 * start < 2 * b + 3 * Tick
  BY SeekTickIs
<1>3. s \in Nat \ {0} /\ \A k \in video.keyframes : p[k] <= b => k <= s
  <2> HIDE DEF tick, n, p
  <2> QED
    BY <1>2, SeekKeyframeIs DEF p
<1>4. Tick \in Nat \ {0} /\ FrameDuration \in Nat \ {0} /\ SafetyMargin \in Nat
  BY TimeAssumption, LimitAssumption
<1>5. b % Tick = 0
  <2> HIDE DEF tick
  <2>1. \A x \in Nat : \A d \in Nat \ {0} : (x * d) % d = 0
    OBVIOUS
  <2> QED
    BY <1>2, <1>4, <2>1
<1>6. span \in Nat \ {0} /\ \A d \in Nat : start + d * FrameDuration < latest => d + 2 <= span
  BY SpanIs
<1>7. \A g \in 1..n : g >= SafetyMargin => \E k \in (g - SafetyMargin + 2)..g : k \in video.keyframes
  BY <1>1 DEF Promise!Regular
<1>8. \A g, h \in 1..n : g <= h => p[g] + (h - g) * FrameDuration <= p[h]
  BY Spaced
<1>9. f \in 1..n /\ f >= s /\ (f > s => p[f - 1] < latest)
  OBVIOUS
<1> HIDE DEF n, p, tick, b, s, span
<1>10. SafetyMargin >= 2
  <2>1. CASE f >= SafetyMargin
    <3>1. PICK k \in (f - SafetyMargin + 2)..f : k \in video.keyframes
      BY <1>7, <1>9, <2>1
    <3>2. f \in Nat /\ f - SafetyMargin + 2 <= f
      BY <1>1, <1>4, <1>9, <3>1
    <3> QED
      BY <1>4, <3>2
  <2>2. CASE f < SafetyMargin
    BY <1>1, <1>4, <1>9, <2>2
  <2> QED
    BY <1>1, <1>4, <1>9, <2>1, <2>2
\* The seek goes back less than SafetyMargin - 1 frames.
<1>11. ASSUME NEW g \in 1..n, p[g] <= b PROVE g - s <= SafetyMargin - 2
  <2>1. CASE g >= SafetyMargin
    <3>1. PICK k \in (g - SafetyMargin + 2)..g : k \in video.keyframes
      BY <1>7, <2>1
    <3>2. k \in 1..n /\ k <= g /\ g - SafetyMargin + 2 <= k
      BY <1>1, <1>4, <3>1
    <3>3. p[k] <= b
      <4>1. CASE k = g
        BY <1>11, <4>1
      <4>2. CASE k # g
        <5>1. k < g /\ p[k] + Tick <= p[g] /\ p[k] \in Nat /\ p[g] \in Nat
          BY <1>1, <3>2, <4>2
        <5>2. \A x, y, z, d \in Nat : x + d <= y /\ y <= z => x <= z
          OBVIOUS
        <5>3. p[g] <= b /\ b \in Nat /\ Tick \in Nat
          BY <1>2, <1>4, <1>11
        <5> QED
          BY <5>1, <5>2, <5>3
      <4> QED
        BY <4>1, <4>2
    <3>4. k <= s
      BY <1>3, <3>1, <3>3
    <3> QED
      BY <1>1, <1>3, <1>4, <3>2, <3>4
  <2>2. CASE g < SafetyMargin
    BY <1>1, <1>3, <1>4, <2>2
  <2> QED
    BY <1>1, <1>4, <2>1, <2>2
<1>12. f - s + 1 <= span + SafetyMargin
  <2>1. CASE f = s
    BY <1>1, <1>3, <1>4, <1>6, <1>9, <2>1
  <2>2. CASE f > s /\ p[f - 1] <= b
    <3>1. f - 1 \in 1..n /\ f \in Nat
      BY <1>1, <1>3, <1>9, <2>2
    <3>2. (f - 1) - s <= SafetyMargin - 2
      BY <1>11, <2>2, <3>1
    <3> QED
      BY <1>3, <1>4, <1>6, <3>1, <3>2
  <2>3. CASE f > s /\ ~(p[f - 1] <= b)
    <3>1. f - 1 \in 1..n /\ f \in Nat
      BY <1>1, <1>3, <1>9, <2>3
    <3> DEFINE T == {g \in 1..n : p[g] > b}
    <3>2. T \subseteq Nat /\ T # {} /\ f - 1 \in T
      <4>1. p[f - 1] \in Nat /\ b \in Nat
        BY <1>1, <1>2, <3>1
      <4>2. p[f - 1] > b
        BY <2>3, <4>1
      <4>3. f - 1 \in T
        BY <3>1, <4>2
      <4>4. T \subseteq Nat
        BY <1>1
      <4> QED
        BY <4>3, <4>4
    <3>3. PICK h \in T : \A g \in T : h <= g
      <4> HIDE DEF T
      <4> QED
        BY <3>2, NatLeast
    <3>4. h \in 1..n /\ p[h] > b /\ h <= f - 1 /\ h \in Nat \ {0}
      BY <1>1, <3>2, <3>3
    <3>5. h - s <= SafetyMargin - 1
      <4>1. CASE h = 1
        BY <1>3, <1>4, <1>10, <4>1
      <4>2. CASE h # 1
        <5>1. h - 1 \in 1..n /\ h - 1 \notin T
          BY <1>1, <3>3, <3>4, <4>2
        <5>2. p[h - 1] <= b
          BY <1>1, <1>2, <5>1
        <5>3. (h - 1) - s <= SafetyMargin - 2
          BY <1>11, <5>1, <5>2
        <5> QED
          BY <1>3, <1>4, <3>4, <5>3
      <4> QED
        BY <4>1, <4>2
    <3>6. f - h <= span + 1 /\ (h < f - 1 => f - h <= span)
      <4>1. CASE h = f - 1
        BY <1>6, <3>1, <3>4, <4>1
      <4>2. CASE h < f - 1
        <5>1. h + 1 \in 1..n /\ h + 1 <= f - 1 /\ h < h + 1 /\ f - 2 - h \in Nat /\ (f - 1) - (h + 1) = f - 2 - h
          BY <1>1, <3>1, <3>4, <4>2
        <5>2. p[h] \in Nat /\ p[h + 1] \in Nat /\ p[f - 1] \in Nat
          BY <1>1, <3>1, <3>4, <5>1
        <5>3. b + Tick <= p[h]
          <6>1. p[h] % Tick = 0
            BY <1>1, <3>4
          <6> QED
            BY <1>2, <1>5, <3>4, <5>2, <6>1, Ticks
        <5>4. p[h] + Tick <= p[h + 1]
          BY <1>1, <3>4, <5>1
        <5>5. p[h + 1] + (f - 2 - h) * FrameDuration <= p[f - 1]
          <6>1. p[h + 1] + ((f - 1) - (h + 1)) * FrameDuration <= p[f - 1]
            BY <1>8, <3>1, <5>1
          <6> QED
            BY <5>1, <6>1
        <5>6. start < p[h + 1]
          BY <1>2, <1>4, <5>2, <5>3, <5>4
        <5>7. (f - 2 - h) * FrameDuration \in Nat
          BY <1>4, <5>1
        <5>8. start + (f - 2 - h) * FrameDuration < latest
          BY <1>9, <2>3, <5>2, <5>5, <5>6, <5>7
        <5>9. (f - 2 - h) + 2 <= span
          BY <1>6, <5>1, <5>8
        <5> QED
          BY <1>6, <3>1, <3>4, <5>9
      <4> QED
        BY <3>1, <3>4, <4>1, <4>2
    <3>7. CASE h = f - 1
      BY <1>3, <1>4, <1>6, <3>1, <3>4, <3>5, <3>7
    <3>8. CASE h < f - 1
      BY <1>3, <1>4, <1>6, <3>1, <3>4, <3>5, <3>6, <3>8
    <3> QED
      BY <3>1, <3>4, <3>7, <3>8
  <2> QED
    BY <1>1, <1>3, <1>9, <2>1, <2>2, <2>3
<1> QED
  BY <1>12 DEF DecodeFrameBudget, s, span, tick

-----------------------------------------------------------------------------
(* The decoder: the nearest frame *)

LEMMA DistanceIs ==
    ASSUME IsVideo(video)
    PROVE  /\ \A f \in 1..Len(video.pts) : \A t \in Nat : Distance(f, t) \in Nat
           /\ \A f, t : Promise!Distance(f, t) = Distance(f, t)
<1>1. \A f \in 1..Len(video.pts) : video.pts[f] \in Nat
  BY VideoIs
<1> QED
  BY <1>1 DEF Distance, Promise!Distance

\* A frame at t, or the first one of the video, when t is not after it.
LEMMA NearestFirst ==
    ASSUME IsVideo(video), NEW t \in Nat, NEW c \in 1..Len(video.pts), t <= video.pts[c],
           c = 1 \/ video.pts[c] <= t
    PROVE  Promise!IsNearest(c, t)
<1> DEFINE n == Len(video.pts)
           p == video.pts
<1>1. /\ n \in Nat /\ DOMAIN p = 1..n /\ \A g \in 1..n : p[g] \in Nat
      /\ \A g, h \in 1..n : g < h => p[g] < p[h]
  BY VideoIs
<1>2. SUFFICES ASSUME NEW g \in 1..n
               PROVE  Distance(c, t) < Distance(g, t) \/ (Distance(c, t) = Distance(g, t) /\ c <= g)
  BY <1>1, DistanceIs DEF Promise!IsNearest
<1>3. Distance(c, t) = p[c] - t /\ Distance(g, t) = IF p[g] < t THEN t - p[g] ELSE p[g] - t
  <2>1. p[c] \in Nat /\ t <= p[c]
    BY <1>1
  <2> HIDE DEF p
  <2> QED
    BY <2>1 DEF Distance, p
<1>4. p[c] \in Nat /\ p[g] \in Nat /\ c \in Nat /\ g \in Nat /\ t <= p[c] /\ (c = 1 \/ p[c] <= t)
  BY <1>1
<1>5. (g < c => p[g] < p[c]) /\ (c < g => p[c] < p[g])
  BY <1>1
<1> HIDE DEF n, p
<1>6. CASE g < c
  <2>1. p[c] = t /\ p[g] < t
    BY <1>1, <1>2, <1>4, <1>5, <1>6
  <2> QED
    BY <1>3, <1>4, <2>1
<1>7. CASE g = c
  BY <1>4, <1>7
<1>8. CASE c < g
  BY <1>3, <1>4, <1>5, <1>8
<1> QED
  BY <1>4, <1>6, <1>7, <1>8

\* The nearer one of the frames before and after t.
LEMMA NearestOfTwo ==
    ASSUME IsVideo(video), NEW t \in Nat, NEW c \in 2..Len(video.pts), t <= video.pts[c], video.pts[c - 1] < t
    PROVE  IF Distance(c - 1, t) <= Distance(c, t) THEN Promise!IsNearest(c - 1, t) ELSE Promise!IsNearest(c, t)
<1> DEFINE n == Len(video.pts)
           p == video.pts
           b == c - 1
<1>1. /\ n \in Nat /\ DOMAIN p = 1..n /\ \A g \in 1..n : p[g] \in Nat
      /\ \A g, h \in 1..n : g < h => p[g] < p[h]
  BY VideoIs
<1>2. c \in 1..n /\ b \in 1..n /\ c \in Nat /\ b \in Nat /\ c = b + 1
  BY <1>1
<1>3. p[c] \in Nat /\ p[b] \in Nat /\ p[b] < t /\ t <= p[c]
  BY <1>1, <1>2
<1>4. Distance(c, t) = p[c] - t /\ Distance(b, t) = t - p[b]
  <2> HIDE DEF b, p
  <2> QED
    BY <1>3 DEF Distance, p
<1>5. ASSUME NEW g \in 1..n
      PROVE  /\ g \in Nat /\ p[g] \in Nat /\ Distance(g, t) = IF p[g] < t THEN t - p[g] ELSE p[g] - t
             /\ (g < b => p[g] < p[b]) /\ (c < g => p[c] < p[g])
  BY <1>1, <1>2 DEF Distance
<1>6. CASE Distance(b, t) <= Distance(c, t)
  <2>1. SUFFICES ASSUME NEW g \in 1..n
                 PROVE  Distance(b, t) < Distance(g, t) \/ (Distance(b, t) = Distance(g, t) /\ b <= g)
    BY <1>1, <1>6, DistanceIs DEF Promise!IsNearest
  <2> HIDE DEF n, p, b
  <2>2. CASE g < b
    BY <1>3, <1>4, <1>5, <2>2
  <2>3. CASE g = b
    BY <1>2, <2>3
  <2>4. CASE g = c
    BY <1>2, <1>3, <1>4, <1>6, <2>4
  <2>5. CASE c < g
    BY <1>2, <1>3, <1>4, <1>5, <1>6, <2>5
  <2>6. g \in Nat
    BY <1>5
  <2> QED
    BY <1>2, <2>2, <2>3, <2>4, <2>5, <2>6
<1>7. CASE ~(Distance(b, t) <= Distance(c, t))
  <2>1. SUFFICES ASSUME NEW g \in 1..n
                 PROVE  Distance(c, t) < Distance(g, t) \/ (Distance(c, t) = Distance(g, t) /\ c <= g)
    BY <1>1, <1>7, DistanceIs DEF Promise!IsNearest
  <2> HIDE DEF n, p, b
  <2>2. CASE g < b
    BY <1>2, <1>3, <1>4, <1>5, <1>7, <2>2
  <2>3. CASE g = b
    BY <1>2, <1>3, <1>4, <1>7, <2>3
  <2>4. CASE g = c
    BY <1>2, <2>4
  <2>5. CASE c < g
    BY <1>2, <1>3, <1>4, <1>5, <2>5
  <2>6. g \in Nat
    BY <1>5
  <2> QED
    BY <1>2, <2>2, <2>3, <2>4, <2>5, <2>6
<1> QED
  BY <1>6, <1>7

\* The last frame, for a target after it.
LEMMA NearestLast ==
    ASSUME IsVideo(video), NEW t \in Nat, Len(video.pts) # 0, video.pts[Len(video.pts)] < t
    PROVE  Promise!IsNearest(Len(video.pts), t)
<1> DEFINE n == Len(video.pts)
           p == video.pts
<1>1. /\ n \in Nat /\ DOMAIN p = 1..n /\ \A g \in 1..n : p[g] \in Nat
      /\ \A g, h \in 1..n : g < h => p[g] < p[h]
  BY VideoIs
<1>2. n \in 1..n
  BY <1>1
<1>3. SUFFICES ASSUME NEW g \in 1..n
               PROVE  Distance(n, t) < Distance(g, t) \/ (Distance(n, t) = Distance(g, t) /\ n <= g)
  BY <1>1, DistanceIs DEF Promise!IsNearest
<1>4. g \in Nat /\ g <= n /\ p[g] \in Nat /\ p[n] \in Nat /\ p[n] < t /\ (g < n => p[g] < p[n])
  BY <1>1, <1>2
<1>5. Distance(n, t) = t - p[n] /\ (p[g] < t => Distance(g, t) = t - p[g])
  <2> HIDE DEF n, p
  <2> QED
    BY <1>4 DEF Distance, p
<1> HIDE DEF n, p
<1>6. CASE g < n
  BY <1>4, <1>5, <1>6
<1>7. CASE g = n
  BY <1>1, <1>7
<1> QED
  BY <1>1, <1>4, <1>6, <1>7

\* A frame has the pixels of the frame at its timestamp, which is itself.
LEMMA ConvertIs ==
    ASSUME IsVideo(video), NEW f \in DOMAIN video.pts, converted \in {0} \cup DOMAIN video.pts
    PROVE  ConvertFrame(f) = f
<1>1. /\ DOMAIN video.pts = 1..Len(video.pts) /\ \A g \in 1..Len(video.pts) : video.pts[g] \in Nat
      /\ \A g, h \in 1..Len(video.pts) : g < h => video.pts[g] < video.pts[h]
  BY VideoIs
<1>2. CASE converted # 0 /\ video.pts[f] = video.pts[converted]
  <2>1. converted \in 1..Len(video.pts) /\ f \in 1..Len(video.pts)
    BY <1>1, <1>2
  <2>2. ~(f < converted) /\ ~(converted < f)
    BY <1>1, <1>2, <2>1
  <2>3. f = converted
    BY <2>1, <2>2
  <2> QED
    BY <1>2, <2>3 DEF ConvertFrame
<1> QED
  BY <1>2 DEF ConvertFrame

\* When the nearest frame is too far away, every frame is.
LEMMA NoneMatches ==
    ASSUME IsVideo(video), NEW t \in Nat, NEW f \in DOMAIN video.pts, Promise!IsNearest(f, t),
           Distance(f, t) > Tolerance
    PROVE  \A g \in DOMAIN video.pts : Promise!Distance(g, t) > Tolerance
<1>1. DOMAIN video.pts = 1..Len(video.pts) /\ \A g \in DOMAIN video.pts : Distance(g, t) \in Nat
  BY VideoIs, DistanceIs
<1>2. SUFFICES ASSUME NEW g \in DOMAIN video.pts PROVE Distance(g, t) > Tolerance
  BY DistanceIs
<1>3. Distance(f, t) < Distance(g, t) \/ Distance(f, t) = Distance(g, t)
  BY DistanceIs DEF Promise!IsNearest
<1>4. Tolerance \in Nat /\ Distance(f, t) \in Nat /\ Distance(g, t) \in Nat
  BY <1>1, TimeAssumption
<1> QED
  BY <1>3, <1>4

-----------------------------------------------------------------------------
(* The decoder: its steps *)

\* The cluster that the decoder works off.
LEMMA WorkingFacts ==
    ASSUME DecoderOK, pc \in Working
    PROVE  /\ outcome = "ok" /\ buffer # NoBuffer /\ BufferOK(buffer)
           /\ place.cluster \in Nat /\ place.cluster + 1 \in 1..Len(buffer.clusters)
           /\ Cluster = buffer.clusters[place.cluster + 1] /\ Len(Cluster) \in Nat \ {0}
           /\ place.target \in Nat /\ place.target <= Len(Cluster)
           /\ Last(Cluster) = Cluster[Len(Cluster)]
           /\ \A i \in 1..Len(Cluster) : buffer.targets[Cluster[i]] \in Nat
           /\ \A i, k \in 1..Len(Cluster) : i <= k => buffer.targets[Cluster[i]] <= buffer.targets[Cluster[k]]
           /\ \A i \in 1..Len(Cluster) : i > place.target => Behind(buffer.targets[Cluster[i]])
           /\ seek.budget = DecodeFrameBudget(seek.start, buffer.targets[Last(Cluster)])
<1>1. /\ outcome = "ok" /\ buffer # NoBuffer /\ BufferOK(buffer)
      /\ place.cluster + 1 \in 1..Len(buffer.clusters) /\ place.target <= Len(Cluster)
  BY DEF DecoderOK, PlaceOK, Working
<1>2. place.cluster \in Nat /\ place.target \in Nat
  BY DEF DecoderOK, DecoderTypes
<1>3. Cluster = buffer.clusters[place.cluster + 1]
  BY DEF Cluster
<1>4. /\ Len(Cluster) \in Nat \ {0} /\ Last(Cluster) = Cluster[Len(Cluster)]
      /\ \A i \in 1..Len(Cluster) : buffer.targets[Cluster[i]] \in Nat
      /\ \A i, k \in 1..Len(Cluster) : i <= k => buffer.targets[Cluster[i]] <= buffer.targets[Cluster[k]]
  BY <1>1, <1>3, PieceFacts
<1>5. /\ \A i \in 1..Len(Cluster) : i > place.target => Behind(buffer.targets[Cluster[i]])
      /\ seek.budget = DecodeFrameBudget(seek.start, buffer.targets[Last(Cluster)])
  BY DEF DecoderOK, TargetsOK
<1> QED
  BY <1>1, <1>2, <1>3, <1>4, <1>5

\* The target that is looked for.
LEMMA TargetFacts ==
    ASSUME DecoderOK, pc \in Working, place.target < Len(Cluster)
    PROVE  /\ place.target + 1 \in 1..Len(Cluster) /\ Target = buffer.targets[Cluster[place.target + 1]]
           /\ Target \in Nat /\ Behind(Target) /\ seek.start \in Nat
           /\ \A i \in 1..Len(Cluster) : i > place.target => Target <= buffer.targets[Cluster[i]]
<1>1. /\ place.target \in Nat /\ Len(Cluster) \in Nat /\ place.target + 1 \in 1..Len(Cluster)
  BY WorkingFacts
<1>2. Target = buffer.targets[Cluster[place.target + 1]]
  BY DEF Target
<1>3. /\ Target \in Nat /\ Behind(Target)
      /\ \A i \in 1..Len(Cluster) : place.target + 1 <= i => Target <= buffer.targets[Cluster[i]]
  <2>1. place.target + 1 > place.target
    BY <1>1
  <2> QED
    BY <1>1, <1>2, <2>1, WorkingFacts
<1>4. seek.start \in Nat
  BY <1>3 DEF Behind, DecoderOK, DecoderTypes
<1> QED
  BY <1>1, <1>2, <1>3, <1>4

\* What the codec returns next, and the frames in hand.
LEMMA FrameFacts ==
    ASSUME DecoderOK
    PROVE  /\ IsVideo(video) /\ Len(video.pts) \in Nat /\ DOMAIN video.pts = 1..Len(video.pts)
           /\ Len(stream.codec) \in Nat /\ NextFrame \in Nat \ {0} /\ NextFrame + Len(stream.codec) = stream.packet
           /\ NextFrame <= Len(video.pts) + 1 /\ stream.packet <= Len(video.pts) + 1
           /\ frames.current \in Nat /\ frames.previous \in Nat /\ seek.decoded \in Nat
           /\ frames.current # 0 => frames.current \in 1..Len(video.pts)
           /\ frames.previous # 0 => frames.previous \in 1..Len(video.pts)
           /\ frames.current # 0 /\ frames.previous # 0 => frames.current = frames.previous + 1
<1>1. /\ stream.packet \in Nat /\ stream.codec \in Seq(Nat) /\ IsVideo(video)
      /\ frames.current \in Nat /\ frames.previous \in Nat /\ seek.decoded \in Nat
  BY DEF DecoderOK, DecoderTypes
<1>2. Len(video.pts) \in Nat /\ DOMAIN video.pts = 1..Len(video.pts)
  BY <1>1, VideoIs
<1>3. Len(stream.codec) \in Nat
  BY <1>1
<1>4. NextFrame >= 1 /\ stream.packet <= Len(video.pts) + 1 /\ NextFrame = stream.packet - Len(stream.codec)
  BY DEF DecoderOK, StreamOK, NextFrame
<1>5. /\ NextFrame \in Nat \ {0} /\ NextFrame + Len(stream.codec) = stream.packet /\ NextFrame <= Len(video.pts) + 1
  BY <1>1, <1>2, <1>3, <1>4
<1>6. /\ frames.current # 0 => frames.current = NextFrame - 1
      /\ frames.previous # 0 => frames.previous = NextFrame - (IF frames.current = 0 THEN 1 ELSE 2)
  BY DEF DecoderOK, FramesOK
<1>7. /\ frames.current # 0 => frames.current \in 1..Len(video.pts)
      /\ frames.previous # 0 => frames.previous \in 1..Len(video.pts)
      /\ frames.current # 0 /\ frames.previous # 0 => frames.current = frames.previous + 1
  <2> DEFINE c == frames.current
             b == frames.previous
             n == Len(video.pts)
             x == NextFrame
  <2>1. c \in Nat /\ b \in Nat /\ n \in Nat /\ x \in Nat \ {0} /\ x <= n + 1
    BY <1>1, <1>2, <1>5
  <2>2. (c # 0 => c = x - 1) /\ (b # 0 => b = x - (IF c = 0 THEN 1 ELSE 2))
    BY <1>6
  <2> HIDE DEF c, b, n, x
  <2>3. (c # 0 => c \in 1..n) /\ (b # 0 => b \in 1..n) /\ (c # 0 /\ b # 0 => c = b + 1)
    BY <2>1, <2>2
  <2> QED
    BY <2>3 DEF c, b, n
<1> QED
  BY <1>1, <1>2, <1>3, <1>4, <1>5, <1>7

LEMMA FailKeeps == ASSUME DecoderOK, NEW why \in {"fault", "budget", "unmatched"}, Fail(why) PROVE DecoderOK'
<1>1. /\ pc' = "failed" /\ outcome' = why
      /\ UNCHANGED <<video, buffer, place, stream, frames, seek, converted, answer, buffers>>
  BY DEF Fail
<1>2. DecoderTypes'
  BY <1>1 DEF DecoderOK, DecoderTypes, Places, IsVideo
<1>3. StreamOK' /\ FramesOK' /\ AnswerOK'
  BY <1>1 DEF DecoderOK, StreamOK, FramesOK, AnswerOK, NextFrame, SeekKeyframe, Promise!IsNearest, Promise!Distance
<1>4. PlaceOK'
  BY <1>1 DEF DecoderOK, PlaceOK, Working
<1>5. TargetsOK'
  BY <1>1 DEF TargetsOK, Working
<1> QED
  BY <1>2, <1>3, <1>4, <1>5 DEF DecoderOK

LEMMA FreshStreamOK ==
    ASSUME NEW k \in Nat \ {0}, Len(video.pts) \in Nat, k <= Len(video.pts) + 1, video' = video,
           stream' = [FreshStream EXCEPT !.packet = k]
    PROVE  StreamOK' /\ NextFrame' = k
<1>1. /\ stream'.packet = k /\ stream'.codec = <<>>
      /\ stream'.draining = FALSE /\ stream'.flush_sent = FALSE
      /\ stream'.demux_eof = FALSE /\ stream'.decoder_eof = FALSE
  BY DEF FreshStream
<1>2. Len(stream'.codec) = 0
  BY <1>1
<1>3. NextFrame' = k
  BY <1>1, <1>2 DEF NextFrame
<1>4. NextFrame' >= 1 /\ stream'.packet <= Len(video'.pts) + 1
  BY <1>1, <1>3
<1>5. \A i \in 1..Len(stream'.codec) : stream'.codec[i] = NextFrame' + i - 1
  BY <1>2
<1>6. /\ stream'.draining = stream'.flush_sent /\ (stream'.draining => stream'.demux_eof)
      /\ stream'.demux_eof => stream'.packet = Len(video'.pts) + 1
      /\ stream'.decoder_eof => stream'.draining /\ stream'.codec = <<>>
  BY <1>1
<1>7. StreamOK'
  BY <1>4, <1>5, <1>6 DEF StreamOK
<1> QED
  BY <1>3, <1>7

LEMMA OpenKeeps == ASSUME DecoderOK, Open PROVE DecoderOK'
<1>1. /\ pc = "closed" /\ outcome = "ok" /\ pc' \in {"ready", "failed"}
      /\ pc' = "ready" => outcome' = "ok"
      /\ pc' = "failed" => outcome' = "fault"
      /\ stream' = FreshStream /\ frames' = NoFrames /\ seek' = NoSeek /\ converted' = 0
      /\ UNCHANGED <<video, buffer, place, answer, buffers>>
  BY DEF Open
<1>2. DecoderTypes'
  BY <1>1 DEF DecoderOK, DecoderTypes, Places, IsVideo, FreshStream, NoFrames, NoSeek
<1>3. StreamOK'
  <2>1. Len(video.pts) \in Nat
    BY FrameFacts
  <2>2. stream' = [FreshStream EXCEPT !.packet = 1]
    BY <1>1 DEF FreshStream
  <2>3. 1 \in Nat \ {0} /\ 1 <= Len(video.pts) + 1
    BY <2>1
  <2>4. video' = video
    BY <1>1
  <2> QED
    BY <2>1, <2>2, <2>3, <2>4, FreshStreamOK, Zenon
<1>4. FramesOK'
  BY <1>1 DEF FramesOK, NoFrames, NoSeek
<1>5. AnswerOK'
  BY <1>1 DEF DecoderOK, AnswerOK, Promise!IsNearest, Promise!Distance
<1>6. PlaceOK'
  BY <1>1 DEF DecoderOK, PlaceOK, Working
<1>7. TargetsOK'
  BY <1>1 DEF TargetsOK, Working, NoSeek
<1> QED
  BY <1>2, <1>3, <1>4, <1>5, <1>6, <1>7 DEF DecoderOK

LEMMA CloseKeeps == ASSUME DecoderOK, Close PROVE DecoderOK'
<1>1. /\ pc \in {"ready", "failed"} /\ pc' = "closed"
      /\ UNCHANGED <<video, buffer, place, stream, frames, seek, converted, answer, outcome, buffers>>
  BY DEF Close
<1>2. DecoderTypes'
  BY <1>1 DEF DecoderOK, DecoderTypes, Places, IsVideo
<1>3. StreamOK' /\ FramesOK' /\ AnswerOK'
  BY <1>1 DEF DecoderOK, StreamOK, FramesOK, AnswerOK, NextFrame, SeekKeyframe, Promise!IsNearest, Promise!Distance
<1>4. PlaceOK'
  BY <1>1 DEF DecoderOK, PlaceOK, Working
<1>5. TargetsOK'
  BY <1>1 DEF TargetsOK, Working
<1> QED
  BY <1>2, <1>3, <1>4, <1>5 DEF DecoderOK

LEMMA SpanTyped == \A first, latest \in Nat : DecodeFrameBudget(first, latest) \in Nat
  BY SpanIs, LimitAssumption DEF DecodeFrameBudget

\* A new cluster: the decoder is at the keyframe of its first target.
LEMMA StartIs ==
    ASSUME IsVideo(video), video' = video, seek.last \in Nat \cup {-1}, NEW buf, BufferOK(buf),
           NEW c \in 1..Len(buf.clusters), StartCluster(buf, c), NEW q, q = buf.clusters[c]
    PROVE  /\ place' = [cluster |-> c - 1, target |-> 0] /\ frames' = NoFrames /\ converted' = 0
           /\ UNCHANGED outcome
           /\ seek' = [last |-> seek.last, start |-> buf.targets[q[1]], decoded |-> 0,
                       budget |-> DecodeFrameBudget(buf.targets[q[1]], buf.targets[q[Len(q)]])]
           /\ buf.targets[q[1]] \in Nat
           /\ \A i \in 1..Len(q) : buf.targets[q[1]] <= buf.targets[q[i]]
           /\ stream' \in [packet : Nat, codec : Seq(Nat), draining : BOOLEAN, demux_eof : BOOLEAN,
                           flush_sent : BOOLEAN, decoder_eof : BOOLEAN]
           /\ seek' \in [last : Nat \cup {-1}, start : Nat \cup {-1}, decoded : Nat, budget : Nat]
           /\ StreamOK' /\ FramesOK'
<1> DEFINE first == buf.targets[q[1]]
           k == SeekKeyframe(SeekTick(first))
<1>1. /\ Len(q) \in Nat \ {0} /\ Head(q) = q[1] /\ Last(q) = q[Len(q)]
      /\ \A i \in 1..Len(q) : buf.targets[q[i]] \in Nat
      /\ \A i, j \in 1..Len(q) : i <= j => buf.targets[q[i]] <= buf.targets[q[j]]
  BY PieceFacts
<1>2. 1 \in 1..Len(q) /\ Len(q) \in 1..Len(q)
  BY <1>1
<1>3. first \in Nat /\ \A i \in 1..Len(q) : first <= buf.targets[q[i]]
  <2>1. \A i \in 1..Len(q) : 1 <= i
    OBVIOUS
  <2> QED
    BY <1>1, <1>2, <2>1
<1>4. /\ place' = [cluster |-> c - 1, target |-> 0] /\ frames' = NoFrames /\ converted' = 0
      /\ UNCHANGED outcome
      /\ seek' = [last |-> seek.last, start |-> first, decoded |-> 0,
                  budget |-> DecodeFrameBudget(first, buf.targets[q[Len(q)]])]
      /\ stream' = [FreshStream EXCEPT !.packet = k]
  BY <1>1 DEF StartCluster
<1>5. k \in Nat \ {0} /\ k <= Len(video.pts) + 1 /\ Len(video.pts) \in Nat
  <2>1. SeekTick(first) \in Nat
    BY <1>3, SeekTickIs
  <2> QED
    BY <2>1, SeekKeyframeIs, VideoIs
<1>6. DecodeFrameBudget(first, buf.targets[q[Len(q)]]) \in Nat
  BY <1>1, <1>2, <1>3, SpanTyped
<1>7. seek' \in [last : Nat \cup {-1}, start : Nat \cup {-1}, decoded : Nat, budget : Nat]
  <2> HIDE DEF first
  <2> QED
    BY <1>3, <1>4, <1>6
<1>8. StreamOK' /\ NextFrame' = k
  <2> HIDE DEF k
  <2> QED
    BY <1>4, <1>5, FreshStreamOK
<1>9. SeekKeyframe(SeekTick(first))' = k
  BY <1>3 DEF SeekKeyframe, SeekTick
<1>10. FramesOK'
  <2>1. frames'.current = 0 /\ frames'.previous = 0
    BY <1>4 DEF NoFrames
  <2>2. seek'.start = first /\ seek'.decoded = 0
    BY <1>4
  <2>3. k - 0 = k
    BY <1>5
  <2>4. SeekKeyframe(SeekTick(seek.start))' = k
    BY <2>2 DEF SeekKeyframe, SeekTick
  <2> HIDE DEF k, first
  <2> QED
    BY <1>8, <2>1, <2>2, <2>3, <2>4 DEF FramesOK
<1>11. stream' \in [packet : Nat, codec : Seq(Nat), draining : BOOLEAN, demux_eof : BOOLEAN,
                    flush_sent : BOOLEAN, decoder_eof : BOOLEAN]
  <2>1. stream' = [packet |-> k, codec |-> <<>>, draining |-> FALSE,
                   demux_eof |-> FALSE, flush_sent |-> FALSE, decoder_eof |-> FALSE]
    BY <1>4 DEF FreshStream
  <2>2. k \in Nat /\ <<>> \in Seq(Nat) /\ FALSE \in BOOLEAN
    BY <1>5
  <2> HIDE DEF k
  <2> QED
    BY <2>1, <2>2
<1> QED
  BY <1>3, <1>4, <1>7, <1>8, <1>10, <1>11

\* From the start of a cluster the invariant holds.
LEMMA StartKeeps ==
    ASSUME DecoderOK, NEW buf, BufferOK(buf), NEW c \in 1..Len(buf.clusters), StartCluster(buf, c),
           outcome = "ok", video' = video, answer' = answer, buffer' = buf, pc' = "next", buf # NoBuffer
    PROVE  DecoderOK'
<1> DEFINE q == buf.clusters[c]
<1>1. IsVideo(video) /\ seek.last \in Nat \cup {-1}
  BY DEF DecoderOK, DecoderTypes
<1>2. /\ place' = [cluster |-> c - 1, target |-> 0] /\ frames' = NoFrames /\ converted' = 0
      /\ UNCHANGED outcome
      /\ seek' = [last |-> seek.last, start |-> buf.targets[q[1]], decoded |-> 0,
                  budget |-> DecodeFrameBudget(buf.targets[q[1]], buf.targets[q[Len(q)]])]
      /\ buf.targets[q[1]] \in Nat
      /\ \A i \in 1..Len(q) : buf.targets[q[1]] <= buf.targets[q[i]]
      /\ stream' \in [packet : Nat, codec : Seq(Nat), draining : BOOLEAN, demux_eof : BOOLEAN,
                      flush_sent : BOOLEAN, decoder_eof : BOOLEAN]
      /\ seek' \in [last : Nat \cup {-1}, start : Nat \cup {-1}, decoded : Nat, budget : Nat]
      /\ StreamOK' /\ FramesOK'
  <2>1. q = buf.clusters[c]
    OBVIOUS
  <2> HIDE DEF q
  <2> QED
    BY <1>1, <2>1, StartIs, Zenon
<1>3. Len(q) \in Nat \ {0} /\ Last(q) = q[Len(q)] /\ c \in Nat \ {0} /\ Len(buf.clusters) \in Nat
  <2>1. Len(q) \in Nat \ {0} /\ Last(q) = q[Len(q)]
    BY PieceFacts
  <2>2. Len(buf.clusters) \in Nat
    BY DEF BufferOK, Pieces
  <2>3. c \in Nat \ {0}
    BY <2>2
  <2> QED
    BY <2>1, <2>2, <2>3
<1>4. place'.cluster = c - 1 /\ place'.target = 0 /\ place'.cluster + 1 = c
  BY <1>2, <1>3
<1>5. Cluster' = q
  BY <1>4 DEF Cluster
<1>6. DecoderTypes'
  <2>1. IsVideo(video)'
    BY <1>1 DEF IsVideo
  <2>2. place' \in [cluster : Nat, target : Nat]
    BY <1>2, <1>3
  <2>3. frames' \in [previous : Nat, current : Nat]
    BY <1>2 DEF NoFrames
  <2> QED
    BY <1>2, <2>1, <2>2, <2>3 DEF DecoderTypes, Places
<1>7. PlaceOK'
  <2>1. BufferOK(buffer)'
    BY DEF BufferOK, Pieces, Piece
  <2>2. place'.cluster + 1 \in 1..Len(buffer'.clusters) /\ place'.target <= Len(Cluster')
    BY <1>3, <1>4, <1>5
  <2> QED
    BY <1>2, <2>1, <2>2 DEF PlaceOK, Working
<1>8. TargetsOK'
  <2>1. frames'.previous = 0 /\ seek'.start = buf.targets[q[1]]
        /\ seek'.budget = DecodeFrameBudget(seek'.start, buf.targets[q[Len(q)]])
    BY <1>2 DEF NoFrames
  <2>2. \A i \in 1..Len(q) : Behind(buffer.targets[q[i]])'
    <3>1. seek'.start # -1
      BY <1>2, <2>1
    <3>2. \A i \in 1..Len(q) : seek'.start <= buf.targets[q[i]]
      BY <1>2, <2>1
    <3> HIDE DEF q
    <3> QED
      BY <2>1, <3>1, <3>2 DEF Behind
  <2>3. seek'.budget = DecodeFrameBudget(seek'.start, buffer'.targets[Last(Cluster')])
    BY <1>3, <1>5, <2>1
  <2>4. place'.target # Len(Cluster')
    BY <1>3, <1>4, <1>5
  <2> HIDE DEF q
  <2> QED
    BY <1>5, <2>2, <2>3, <2>4 DEF TargetsOK
<1>9. AnswerOK'
  BY DEF DecoderOK, AnswerOK, Promise!IsNearest, Promise!Distance
<1> QED
  BY <1>2, <1>6, <1>7, <1>8, <1>9 DEF DecoderOK

LEMMA NextClusterKeeps == ASSUME DecoderOK, NextCluster PROVE DecoderOK'
<1>1. /\ pc = "next" /\ place.target >= Len(Cluster) /\ UNCHANGED <<video, answer, buffers>>
  BY DEF NextCluster
<1>2. pc \in Working
  BY <1>1 DEF Working
<1>3. /\ outcome = "ok" /\ buffer # NoBuffer /\ BufferOK(buffer)
      /\ place.cluster \in Nat /\ place.cluster + 1 \in 1..Len(buffer.clusters)
      /\ Len(Cluster) \in Nat \ {0} /\ place.target \in Nat /\ place.target <= Len(Cluster)
  BY <1>2, WorkingFacts
<1>4. place.target = Len(Cluster)
  BY <1>1, <1>3
<1>5. CASE place.cluster + 1 >= Len(buffer.clusters)
  <2>1. /\ pc' = "ready" /\ buffer' = NoBuffer /\ place' = [cluster |-> 0, target |-> 0]
        /\ UNCHANGED <<stream, frames, seek, converted, outcome>>
    BY <1>5 DEF NextCluster
  <2>2. DecoderTypes'
    <3>1. place' \in [cluster : Nat, target : Nat]
      BY <2>1
    <3>2. IsVideo(video)'
      BY <1>1 DEF DecoderOK, DecoderTypes, IsVideo
    <3> QED
      BY <1>1, <2>1, <3>1, <3>2 DEF DecoderOK, DecoderTypes, Places
  <2>3. StreamOK' /\ FramesOK' /\ AnswerOK'
    BY <1>1, <2>1 DEF DecoderOK, StreamOK, FramesOK, AnswerOK, NextFrame, SeekKeyframe,
                      Promise!IsNearest, Promise!Distance
  <2>4. PlaceOK'
    BY <1>3, <2>1 DEF PlaceOK, Working
  <2>5. TargetsOK'
    <3>1. Behind(seek.last)
      BY <1>2, <1>4 DEF DecoderOK, TargetsOK
    <3>2. Behind(seek.last)'
      BY <1>1, <2>1, <3>1 DEF Behind
    <3> QED
      BY <2>1, <3>2 DEF TargetsOK, Working
  <2> QED
    BY <2>2, <2>3, <2>4, <2>5 DEF DecoderOK
<1>6. CASE ~(place.cluster + 1 >= Len(buffer.clusters))
  <2>1. StartCluster(buffer, place.cluster + 2) /\ UNCHANGED <<pc, buffer>>
    BY <1>6 DEF NextCluster
  <2>2. place.cluster + 2 \in 1..Len(buffer.clusters)
    BY <1>3, <1>6
  <2>3. PICK buf : buf = buffer
    OBVIOUS
  <2>4. PICK c : c = place.cluster + 2
    OBVIOUS
  <2>5. /\ BufferOK(buf) /\ c \in 1..Len(buf.clusters) /\ StartCluster(buf, c)
        /\ video' = video /\ answer' = answer /\ buffer' = buf /\ pc' = "next" /\ buf # NoBuffer
    <3>1. BufferOK(buf) /\ c \in 1..Len(buf.clusters) /\ buf # NoBuffer
      BY <1>3, <2>2, <2>3, <2>4
    <3>2. StartCluster(buf, c)
      BY <2>1, <2>3, <2>4
    <3> QED
      BY <1>1, <2>1, <2>3, <3>1, <3>2
  <2> QED
    BY <1>3, <2>5, StartKeeps
<1> QED
  BY <1>5, <1>6

LEMMA BeginBufferKeeps == ASSUME DecoderOK, NEW request \in Requests, BeginBuffer(request) PROVE DecoderOK'
<1> DEFINE buf == FinalizeDecodeBuffer(request)
<1>1. BufferOK(buf)
  BY BufferIs
<1>2. /\ pc = "ready" /\ outcome = "ok" /\ buffer' = buf /\ pc' = "next" /\ UNCHANGED <<video, answer>>
      /\ \/ StartCluster(buf, 1)
         \/ /\ ContinueDecode(buf) /\ place' = [cluster |-> 0, target |-> 0]
            /\ seek' = [seek EXCEPT !.budget =
                           DecodeFrameBudget(seek.start, buf.targets[Last(Head(buf.clusters))])]
            /\ UNCHANGED <<stream, frames, converted, outcome>>
  BY DEF BeginBuffer
<1> HIDE DEF buf
<1>3. buf # NoBuffer /\ 1 \in 1..Len(buf.clusters)
  BY <1>1, LeftFirst
<1>4. CASE StartCluster(buf, 1)
  BY <1>1, <1>2, <1>3, <1>4, StartKeeps
<1>5. CASE /\ ContinueDecode(buf) /\ place' = [cluster |-> 0, target |-> 0]
           /\ seek' = [seek EXCEPT !.budget =
                          DecodeFrameBudget(seek.start, buf.targets[Last(Head(buf.clusters))])]
           /\ UNCHANGED <<stream, frames, converted, outcome>>
  <2> DEFINE q == buf.clusters[1]
             latest == buf.targets[Last(q)]
  <2>1. /\ Len(q) \in Nat \ {0} /\ Last(q) = q[Len(q)] /\ q[1] = 1
        /\ \A i \in 1..Len(q) : buf.targets[q[i]] \in Nat
        /\ \A i, k \in 1..Len(q) : i <= k => buf.targets[q[i]] <= buf.targets[q[k]]
    BY <1>1, <1>3, PieceFacts
  <2>2. Head(buf.clusters) = q /\ Head(buf.targets) = buf.targets[1]
    BY <1>1 DEF BufferOK, Pieces
  <2>3. seek.last # -1 /\ seek.start # -1 /\ ~stream.decoder_eof /\ buf.targets[1] >= seek.last
    BY <1>5, <2>2 DEF ContinueDecode
  <2>4. 1 \in 1..Len(q) /\ Len(q) \in 1..Len(q)
    BY <2>1
  <2>5. latest \in Nat /\ seek.last \in Nat /\ seek.start \in Nat /\ buf.targets[1] \in Nat
    <3>1. seek.last \in Nat /\ seek.start \in Nat
      BY <2>3 DEF DecoderOK, DecoderTypes
    <3>2. buf.targets[q[Len(q)]] \in Nat /\ buf.targets[q[1]] \in Nat
      BY <2>1, <2>4
    <3> QED
      BY <2>1, <3>1, <3>2
  <2>6. seek' = [seek EXCEPT !.budget = DecodeFrameBudget(seek.start, latest)]
    BY <1>5, <2>2
  <2>7. place'.cluster = 0 /\ place'.target = 0 /\ place'.cluster + 1 = 1
    BY <1>5
  <2>8. Cluster' = q
    BY <1>2, <2>7 DEF Cluster
  <2>9. \A i \in 1..Len(q) : Behind(buf.targets[q[i]])
    <3>1. Behind(seek.last)
      BY <1>2, <2>3 DEF DecoderOK, TargetsOK
    <3>2. \A i \in 1..Len(q) : seek.last <= buf.targets[q[i]]
      <4>1. \A i \in 1..Len(q) : 1 <= i
        OBVIOUS
      <4>2. \A i \in 1..Len(q) : buf.targets[1] <= buf.targets[q[i]] /\ buf.targets[q[i]] \in Nat
        BY <2>1, <2>4, <4>1
      <4> HIDE DEF q
      <4> QED
        BY <2>3, <2>5, <4>2
    <3>3. frames.previous # 0 => video.pts[frames.previous] \in Nat
      BY FrameFacts, VideoIs
    <3>4. ASSUME NEW i \in 1..Len(q) PROVE Behind(buf.targets[q[i]])
      <4>1. buf.targets[q[i]] \in Nat /\ seek.last <= buf.targets[q[i]]
        BY <2>1, <3>2
      <4> HIDE DEF q
      <4> QED
        BY <2>5, <3>1, <3>3, <4>1 DEF Behind
    <3> QED
      BY <3>4
  <2>10. DecodeFrameBudget(seek.start, latest) \in Nat
    BY <2>5, SpanTyped
  <2>11. seek \in [last : Nat \cup {-1}, start : Nat \cup {-1}, decoded : Nat, budget : Nat]
    BY DEF DecoderOK, DecoderTypes
  <2>12. /\ seek' \in [last : Nat \cup {-1}, start : Nat \cup {-1}, decoded : Nat, budget : Nat]
         /\ seek'.start = seek.start /\ seek'.decoded = seek.decoded /\ seek'.last = seek.last
         /\ seek'.budget = DecodeFrameBudget(seek.start, latest)
    <3> HIDE DEF latest
    <3> QED
      BY <2>6, <2>10, <2>11
  <2>13. DecoderTypes'
    <3>1. IsVideo(video)'
      BY <1>2 DEF DecoderOK, DecoderTypes, IsVideo
    <3>2. place' \in [cluster : Nat, target : Nat]
      BY <1>5
    <3> QED
      BY <1>2, <1>5, <2>12, <3>1, <3>2 DEF DecoderOK, DecoderTypes, Places
  <2>14. StreamOK' /\ AnswerOK'
    BY <1>2, <1>5 DEF DecoderOK, StreamOK, AnswerOK, NextFrame, Promise!IsNearest, Promise!Distance
  <2>15. FramesOK'
    BY <1>2, <1>5, <2>12 DEF DecoderOK, FramesOK, NextFrame, SeekKeyframe
  <2>16. PlaceOK'
    <3>1. BufferOK(buffer)'
      BY <1>1, <1>2 DEF BufferOK, Pieces, Piece
    <3>2. place'.cluster + 1 \in 1..Len(buffer'.clusters) /\ place'.target <= Len(Cluster')
      BY <1>2, <1>3, <2>1, <2>7, <2>8
    <3> QED
      BY <1>2, <1>3, <1>5, <3>1, <3>2 DEF PlaceOK, Working
  <2>17. TargetsOK'
    <3>1. \A i \in 1..Len(q) : Behind(buffer.targets[q[i]])'
      <4> HIDE DEF q
      <4> QED
        BY <1>2, <1>5, <2>9, <2>12 DEF Behind
    <3>2. seek'.budget = DecodeFrameBudget(seek'.start, buffer'.targets[Last(Cluster')])
      BY <1>2, <2>8, <2>12
    <3>3. place'.target # Len(Cluster')
      BY <2>1, <2>7, <2>8
    <3> HIDE DEF q
    <3> QED
      BY <1>2, <2>8, <3>1, <3>2, <3>3 DEF TargetsOK
  <2> QED
    BY <2>13, <2>14, <2>15, <2>16, <2>17 DEF DecoderOK
<1> QED
  BY <1>2, <1>4, <1>5

\* The frame that is given is the nearest one; the decoder stays where it is.
LEMMA GiveKeeps ==
    ASSUME DecoderOK, pc \in Working, place.target < Len(Cluster), NEW f \in 1..Len(video.pts),
           Promise!IsNearest(f, Target), Give(f)
    PROVE  DecoderOK'
<1>1. CASE Distance(f, Target) > Tolerance
  <2>1. Fail("unmatched")
    BY <1>1 DEF Give
  <2> QED
    BY <2>1, FailKeeps
<1>2. CASE ~(Distance(f, Target) > Tolerance)
  <2> DEFINE t == Target
  <2>1. /\ converted' = ConvertFrame(f)
        /\ answer' = [target |-> t, frame |-> f, pixels |-> converted']
        /\ place' = [place EXCEPT !.target = @ + 1]
        /\ seek' = [seek EXCEPT !.last = t]
        /\ pc' = "next"
        /\ UNCHANGED <<video, buffer, stream, frames, outcome, buffers>>
    BY <1>2 DEF Give
  <2>2. /\ t \in Nat /\ Behind(t) /\ seek.start \in Nat
    BY TargetFacts
  <2>3. /\ outcome = "ok" /\ buffer # NoBuffer /\ BufferOK(buffer)
        /\ place.cluster \in Nat /\ place.cluster + 1 \in 1..Len(buffer.clusters)
        /\ Cluster = buffer.clusters[place.cluster + 1] /\ Len(Cluster) \in Nat \ {0}
        /\ place.target \in Nat
        /\ \A i \in 1..Len(Cluster) : i > place.target => Behind(buffer.targets[Cluster[i]])
        /\ seek.budget = DecodeFrameBudget(seek.start, buffer.targets[Last(Cluster)])
    BY WorkingFacts
  <2>4. IsVideo(video) /\ DOMAIN video.pts = 1..Len(video.pts) /\ f # 0
    BY FrameFacts
  <2>5. converted' = f
    <3>1. converted \in {0} \cup DOMAIN video.pts
      BY DEF DecoderOK, DecoderTypes
    <3> QED
      BY <2>1, <2>4, <3>1, ConvertIs
  <2>6. /\ place \in [cluster : Nat, target : Nat]
        /\ seek \in [last : Nat \cup {-1}, start : Nat \cup {-1}, decoded : Nat, budget : Nat]
    BY DEF DecoderOK, DecoderTypes
  <2> HIDE DEF t
  <2>7. /\ place' \in [cluster : Nat, target : Nat] /\ place'.cluster = place.cluster
        /\ place'.target = place.target + 1
    BY <2>1, <2>3, <2>6
  <2>8. /\ seek' \in [last : Nat \cup {-1}, start : Nat \cup {-1}, decoded : Nat, budget : Nat]
        /\ seek'.last = t /\ seek'.start = seek.start /\ seek'.decoded = seek.decoded
        /\ seek'.budget = seek.budget
    BY <2>1, <2>2, <2>6
  <2>9. Cluster' = Cluster
    BY <2>1, <2>7 DEF Cluster
  <2>10. DecoderTypes'
    <3>1. IsVideo(video)'
      BY <2>1, <2>4 DEF IsVideo
    <3>2. converted' \in {0} \cup DOMAIN video'.pts
      BY <2>1, <2>4, <2>5
    <3> QED
      BY <2>1, <2>7, <2>8, <3>1, <3>2 DEF DecoderOK, DecoderTypes, Places
  <2>11. StreamOK'
    BY <2>1 DEF DecoderOK, StreamOK, NextFrame
  <2>12. FramesOK'
    BY <2>1, <2>8 DEF DecoderOK, FramesOK, NextFrame, SeekKeyframe
  <2>13. AnswerOK'
    <3>1. answer'.frame = f /\ answer'.pixels = f /\ answer'.target = t
      BY <2>1, <2>5
    <3>2. Promise!IsNearest(f, t)
      BY DEF t
    <3>3. Promise!IsNearest(answer.frame, answer.target)'
      BY <2>1, <3>1, <3>2 DEF Promise!IsNearest, Promise!Distance
    <3>4. answer'.frame \in DOMAIN video'.pts /\ answer'.pixels = answer'.frame /\ answer'.target \in Nat
      BY <2>1, <2>2, <2>4, <3>1
    <3> QED
      BY <3>3, <3>4 DEF AnswerOK
  <2>14. PlaceOK'
    <3>1. BufferOK(buffer)'
      BY <2>1, <2>3 DEF BufferOK, Pieces, Piece
    <3>2. place'.cluster + 1 \in 1..Len(buffer'.clusters) /\ place'.target <= Len(Cluster')
      BY <2>1, <2>3, <2>7, <2>9
    <3> QED
      BY <2>1, <2>3, <3>1, <3>2 DEF PlaceOK, Working
  <2>15. TargetsOK'
    <3> DEFINE q == Cluster
    <3>1. \A i \in 1..Len(q) : i > place'.target => i > place.target
      BY <2>3, <2>7
    <3>2. \A i \in 1..Len(q) : i > place'.target => Behind(buffer.targets[q[i]])
      BY <2>3, <3>1
    <3>3. ASSUME NEW i \in 1..Len(q), i > place'.target PROVE Behind(buffer.targets[Cluster[i]])'
      <4>1. Behind(buffer.targets[q[i]]) /\ buffer'.targets[Cluster'[i]] = buffer.targets[q[i]]
        BY <2>1, <2>9, <3>2, <3>3
      <4> HIDE DEF q
      <4> QED
        BY <2>1, <2>8, <4>1 DEF Behind
    <3>4. Behind(seek.last)'
      BY <2>1, <2>2, <2>8 DEF Behind
    <3>5. seek'.budget = DecodeFrameBudget(seek'.start, buffer'.targets[Last(Cluster')])
      BY <2>1, <2>3, <2>8, <2>9
    <3>6. pc' # "ready"
      BY <2>1
    <3>7. \A i \in 1..Len(Cluster') : i > place'.target => Behind(buffer.targets[Cluster[i]])'
      BY <2>9, <3>3 DEF q
    <3> HIDE DEF q
    <3> QED
      BY <3>4, <3>5, <3>6, <3>7 DEF TargetsOK
  <2> QED
    BY <2>10, <2>11, <2>12, <2>13, <2>14, <2>15 DEF DecoderOK
<1> QED
  BY <1>1, <1>2

\* The choice between the two frames in hand.
LEMMA SelectIs ==
    ASSUME DecoderOK, Select
    PROVE  /\ pc \in Working /\ place.target < Len(Cluster)
           /\ \E f \in 1..Len(video.pts) : Promise!IsNearest(f, Target) /\ Give(f)
<1> DEFINE c == frames.current
           b == frames.previous
           t == Target
           n == Len(video.pts)
<1>1. /\ pc = "next" /\ place.target < Len(Cluster) /\ c # 0 /\ t <= video.pts[c]
      /\ Give(IF b # 0 /\ Distance(b, t) <= Distance(c, t) THEN b ELSE c)
  BY DEF Select, Waiting
<1>2. pc \in Working
  BY <1>1 DEF Working
<1>3. t \in Nat /\ Behind(t) /\ seek.start \in Nat
  BY <1>1, <1>2, TargetFacts
<1>4. /\ IsVideo(video) /\ n \in Nat /\ c \in 1..n /\ b \in Nat /\ NextFrame \in Nat
      /\ (b # 0 => b \in 1..n /\ c = b + 1)
  BY <1>1, FrameFacts
<1>5. CASE b # 0
  <2>1. c \in 2..n /\ c - 1 = b /\ b \in 1..n
    BY <1>4, <1>5
  <2>2. video.pts[b] < t
    BY <1>3, <1>5 DEF Behind
  <2>3. video.pts[c - 1] < t
    BY <2>1, <2>2
  <2> HIDE DEF c, t, n, b
  <2>4. IF Distance(c - 1, t) <= Distance(c, t) THEN Promise!IsNearest(c - 1, t) ELSE Promise!IsNearest(c, t)
    BY <1>1, <1>3, <1>4, <2>1, <2>3, NearestOfTwo DEF n
  <2>5. IF Distance(b, t) <= Distance(c, t) THEN Promise!IsNearest(b, t) ELSE Promise!IsNearest(c, t)
    BY <2>1, <2>4
  <2>6. CASE Distance(b, t) <= Distance(c, t)
    BY <1>1, <1>2, <1>5, <2>1, <2>5, <2>6 DEF t, n
  <2>7. CASE ~(Distance(b, t) <= Distance(c, t))
    BY <1>1, <1>2, <1>4, <2>5, <2>7 DEF t, n
  <2> QED
    BY <2>6, <2>7
<1>6. CASE b = 0
  <2>1. seek.decoded = 1 /\ c = NextFrame - 1 /\ NextFrame - seek.decoded = SeekKeyframe(SeekTick(seek.start))
    BY <1>1, <1>3, <1>6 DEF DecoderOK, FramesOK
  <2>2. c = SeekKeyframe(SeekTick(seek.start))
    BY <1>4, <2>1
  <2>3. c = 1 \/ video.pts[c] <= t
    <3> DEFINE tick == SeekTick(seek.start)
    <3>1. tick \in Nat /\ tick * Tick \in Nat /\ tick * Tick <= seek.start
      BY <1>3, SeekTickIs
    <3>2. c = 1 \/ video.pts[c] <= tick * Tick
      <4> HIDE DEF tick
      <4>1. c = SeekKeyframe(tick)
        BY <2>2 DEF tick
      <4> QED
        BY <1>4, <3>1, <4>1, SeekKeyframeIs
    <3>3. seek.start <= t
      BY <1>3 DEF Behind
    <3>4. video.pts[c] \in Nat
      BY <1>4, VideoIs
    <3> HIDE DEF tick, c, t
    <3>5. tick * Tick <= t
      BY <1>3, <3>1, <3>3
    <3> QED
      BY <1>3, <3>1, <3>2, <3>4, <3>5
  <2> HIDE DEF c, t, n, b
  <2>4. Promise!IsNearest(c, t)
    BY <1>1, <1>3, <1>4, <2>3, NearestFirst DEF n
  <2> QED
    BY <1>1, <1>2, <1>4, <1>6, <2>4 DEF t, n
<1> QED
  BY <1>5, <1>6

LEMMA SelectLastIs ==
    ASSUME DecoderOK, SelectLast
    PROVE  /\ pc \in Working /\ place.target < Len(Cluster)
           /\ \/ Fail("fault")
              \/ \E f \in 1..Len(video.pts) : Promise!IsNearest(f, Target) /\ Give(f)
<1> DEFINE b == frames.previous
           t == Target
           n == Len(video.pts)
<1>1. /\ pc = "eof" /\ IF b = 0 THEN Fail("fault") ELSE Give(b)
  BY DEF SelectLast
<1>2. pc \in Working /\ frames.current = 0 /\ place.target < Len(Cluster) /\ stream.decoder_eof
  BY <1>1 DEF DecoderOK, PlaceOK, Working
<1>3. CASE b = 0
  BY <1>1, <1>2, <1>3
<1>4. CASE b # 0
  <2>1. t \in Nat /\ Behind(t)
    BY <1>2, TargetFacts
  <2>2. /\ IsVideo(video) /\ n \in Nat /\ b \in 1..n /\ NextFrame + Len(stream.codec) = stream.packet
        /\ NextFrame \in Nat
    BY <1>4, FrameFacts
  <2>3. stream.codec = <<>> /\ stream.packet = n + 1
    BY <1>2 DEF DecoderOK, StreamOK
  <2>4. b = NextFrame - 1
    BY <1>2, <1>4 DEF DecoderOK, FramesOK
  <2>5. b = n /\ n # 0
    <3>1. Len(stream.codec) = 0
      BY <2>3
    <3> HIDE DEF b, n
    <3> QED
      BY <2>2, <2>3, <2>4, <3>1
  <2>6. video.pts[b] < t
    BY <1>4, <2>1 DEF Behind
  <2>7. Promise!IsNearest(n, t)
    <3>1. video.pts[n] < t
      BY <2>5, <2>6
    <3> HIDE DEF t
    <3> QED
      BY <2>1, <2>2, <2>5, <3>1, NearestLast
  <2> HIDE DEF b, n, t
  <2> QED
    BY <1>1, <1>2, <1>4, <2>2, <2>5, <2>7 DEF t, n
<1> QED
  BY <1>3, <1>4

LEMMA SelectKeeps == ASSUME DecoderOK, Select PROVE DecoderOK'
<1>1. /\ pc \in Working /\ place.target < Len(Cluster)
      /\ \E f \in 1..Len(video.pts) : Promise!IsNearest(f, Target) /\ Give(f)
  BY SelectIs
<1>2. PICK f \in 1..Len(video.pts) : Promise!IsNearest(f, Target) /\ Give(f)
  BY <1>1
<1> QED
  BY <1>1, <1>2, GiveKeeps

LEMMA SelectLastKeeps == ASSUME DecoderOK, SelectLast PROVE DecoderOK'
<1>1. /\ pc \in Working /\ place.target < Len(Cluster)
      /\ \/ Fail("fault")
         \/ \E f \in 1..Len(video.pts) : Promise!IsNearest(f, Target) /\ Give(f)
  BY SelectLastIs
<1>2. CASE Fail("fault")
  BY <1>2, FailKeeps
<1>3. CASE \E f \in 1..Len(video.pts) : Promise!IsNearest(f, Target) /\ Give(f)
  <2>1. PICK f \in 1..Len(video.pts) : Promise!IsNearest(f, Target) /\ Give(f)
    BY <1>3
  <2> QED
    BY <1>1, <2>1, GiveKeeps
<1> QED
  BY <1>1, <1>2, <1>3

LEMMA AdvanceKeeps == ASSUME DecoderOK, Advance PROVE DecoderOK'
<1> DEFINE c == frames.current
<1>1. /\ pc = "next" /\ place.target < Len(Cluster) /\ (c # 0 => Target > video.pts[c])
      /\ frames' = IF c = 0 THEN frames ELSE [previous |-> c, current |-> 0]
      /\ pc' = IF stream.decoder_eof THEN "eof" ELSE "read"
      /\ UNCHANGED <<video, buffer, place, stream, seek, converted, answer, outcome, buffers>>
  BY DEF Advance, Waiting
<1>2. pc \in Working
  BY <1>1 DEF Working
<1>3. /\ c \in Nat /\ NextFrame \in Nat \ {0} /\ (c # 0 => c \in 1..Len(video.pts))
      /\ (c # 0 => video.pts[c] \in Nat)
  BY FrameFacts, VideoIs
<1>4. /\ Target \in Nat /\ Behind(Target)
      /\ \A i \in 1..Len(Cluster) : i > place.target => Target <= buffer.targets[Cluster[i]]
  BY <1>1, <1>2, TargetFacts
<1>5. /\ outcome = "ok" /\ buffer # NoBuffer /\ BufferOK(buffer)
      /\ place.cluster + 1 \in 1..Len(buffer.clusters) /\ Len(Cluster) \in Nat /\ place.target \in Nat
      /\ \A i \in 1..Len(Cluster) : buffer.targets[Cluster[i]] \in Nat
      /\ \A i \in 1..Len(Cluster) : i > place.target => Behind(buffer.targets[Cluster[i]])
      /\ seek.budget = DecodeFrameBudget(seek.start, buffer.targets[Last(Cluster)])
  BY <1>2, WorkingFacts
<1>6. frames \in [previous : Nat, current : Nat]
  BY DEF DecoderOK, DecoderTypes
<1>7. /\ frames' \in [previous : Nat, current : Nat] /\ frames'.current = 0
      /\ frames'.previous = IF c = 0 THEN frames.previous ELSE c
  BY <1>1, <1>3, <1>6
<1>8. DecoderTypes'
  <2>1. IsVideo(video)'
    BY <1>1 DEF DecoderOK, DecoderTypes, IsVideo
  <2> QED
    BY <1>1, <1>7, <2>1 DEF DecoderOK, DecoderTypes, Places
<1>9. StreamOK' /\ AnswerOK'
  BY <1>1 DEF DecoderOK, StreamOK, AnswerOK, NextFrame, Promise!IsNearest, Promise!Distance
<1>10. Cluster' = Cluster
  BY <1>1 DEF Cluster
<1>11. PlaceOK'
  <2>1. BufferOK(buffer)'
    BY <1>1, <1>5 DEF BufferOK, Pieces, Piece
  <2> QED
    BY <1>1, <1>5, <1>7, <1>10, <2>1 DEF DecoderOK, PlaceOK, Working
<1>12. FramesOK'
  <2>1. /\ c # 0 => c = NextFrame - 1
        /\ frames.previous # 0 => frames.previous = NextFrame - (IF c = 0 THEN 1 ELSE 2)
        /\ frames.previous = 0 => seek.decoded = IF c = 0 THEN 0 ELSE 1
        /\ seek.start = -1 => seek.decoded = 0
        /\ seek.start # -1 => NextFrame - seek.decoded = SeekKeyframe(SeekTick(seek.start))
    BY DEF DecoderOK, FramesOK
  <2>2. NextFrame' = NextFrame /\ SeekKeyframe(SeekTick(seek.start))' = SeekKeyframe(SeekTick(seek.start))
    BY <1>1 DEF NextFrame, SeekKeyframe
  <2> HIDE DEF c
  <2> QED
    BY <1>1, <1>7, <2>1, <2>2 DEF FramesOK
<1>13. TargetsOK'
  <2>1. ASSUME NEW i \in 1..Len(Cluster), i > place.target PROVE Behind(buffer.targets[Cluster[i]])'
    <3> DEFINE u == buffer.targets[Cluster[i]]
    <3>1. u \in Nat /\ Behind(u) /\ Target <= u /\ u' = u
      BY <1>1, <1>4, <1>5, <1>10, <2>1
    <3>2. frames'.previous # 0 => video.pts[frames'.previous] < u
      <4> HIDE DEF u
      <4>1. CASE c = 0
        BY <1>7, <3>1, <4>1 DEF Behind
      <4>2. CASE c # 0
        BY <1>1, <1>3, <1>4, <1>7, <3>1, <4>2
      <4> QED
        BY <4>1, <4>2
    <3>3. seek'.start # -1 /\ seek'.start <= u
      BY <1>1, <3>1 DEF Behind
    <3> QED
      BY <1>1, <3>1, <3>2, <3>3 DEF Behind
  <2>2. place'.target # Len(Cluster')
    BY <1>1, <1>5, <1>10
  <2>3. seek'.budget = DecodeFrameBudget(seek'.start, buffer'.targets[Last(Cluster')])
    BY <1>1, <1>5, <1>10
  <2>4. \A i \in 1..Len(Cluster') : i > place'.target => Behind(buffer.targets[Cluster[i]])'
    BY <1>1, <1>10, <2>1
  <2>5. pc' # "ready"
    BY <1>1
  <2> QED
    BY <2>2, <2>3, <2>4, <2>5 DEF TargetsOK
<1> QED
  BY <1>8, <1>9, <1>11, <1>12, <1>13 DEF DecoderOK

\* The targets while the decoder reads a frame.
LEMMA TargetsStay ==
    ASSUME DecoderOK, pc = "read", pc' \in Working, UNCHANGED <<video, buffer, place>>,
           frames'.previous = frames.previous, seek'.start = seek.start, seek'.last = seek.last,
           seek'.budget = seek.budget
    PROVE  /\ TargetsOK' /\ Cluster' = Cluster /\ BufferOK(buffer)'
           /\ outcome = "ok" /\ frames.current = 0 /\ place.target < Len(Cluster) /\ stream.decoder_eof = FALSE
           /\ place.cluster + 1 \in 1..Len(buffer.clusters) /\ Len(Cluster) \in Nat /\ place.target \in Nat
           /\ buffer # NoBuffer
<1>1. pc \in Working
  BY DEF Working
<1>2. /\ outcome = "ok" /\ BufferOK(buffer) /\ Len(Cluster) \in Nat /\ place.target \in Nat
      /\ place.cluster + 1 \in 1..Len(buffer.clusters) /\ buffer # NoBuffer
      /\ \A i \in 1..Len(Cluster) : i > place.target => Behind(buffer.targets[Cluster[i]])
      /\ seek.budget = DecodeFrameBudget(seek.start, buffer.targets[Last(Cluster)])
  BY <1>1, WorkingFacts
<1>3. frames.current = 0 /\ place.target < Len(Cluster) /\ ~stream.decoder_eof
  BY DEF DecoderOK, PlaceOK
<1>4. stream.decoder_eof \in BOOLEAN
  BY DEF DecoderOK, DecoderTypes
<1>5. Cluster' = Cluster
  BY DEF Cluster
<1>6. BufferOK(buffer)'
  BY <1>2 DEF BufferOK, Pieces, Piece
<1>7. TargetsOK'
  <2>1. ASSUME NEW i \in 1..Len(Cluster), i > place.target PROVE Behind(buffer.targets[Cluster[i]])'
    <3> DEFINE u == buffer.targets[Cluster[i]]
    <3>1. Behind(u) /\ u' = u
      BY <1>2, <1>5, <2>1
    <3> HIDE DEF u
    <3>2. Behind(u)'
      BY <3>1 DEF Behind
    <3> QED
      BY <3>2 DEF u
  <2>2. \A i \in 1..Len(Cluster') : i > place'.target => Behind(buffer.targets[Cluster[i]])'
    BY <1>5, <2>1
  <2>3. place'.target # Len(Cluster')
    BY <1>2, <1>3, <1>5
  <2>4. seek'.budget = DecodeFrameBudget(seek'.start, buffer'.targets[Last(Cluster')])
    BY <1>2, <1>5
  <2>5. pc' # "ready"
    BY DEF Working
  <2> QED
    BY <2>2, <2>3, <2>4, <2>5 DEF TargetsOK
<1> QED
  BY <1>2, <1>3, <1>4, <1>5, <1>6, <1>7

\* A step of the demuxer or of the codec that returns no frame.
LEMMA StreamKeeps ==
    ASSUME DecoderOK, pc = "read", pc' \in {"read", "eof"}, NextFrame' = NextFrame, StreamOK',
           UNCHANGED <<video, buffer, place, frames, seek, converted, answer, outcome, buffers>>,
           stream' \in [packet : Nat, codec : Seq(Nat), draining : BOOLEAN, demux_eof : BOOLEAN,
                        flush_sent : BOOLEAN, decoder_eof : BOOLEAN],
           pc' = "eof" <=> stream'.decoder_eof
    PROVE  DecoderOK'
<1>1. pc' \in Working
  BY DEF Working
<1>2. /\ TargetsOK' /\ Cluster' = Cluster /\ BufferOK(buffer)'
      /\ outcome = "ok" /\ frames.current = 0 /\ place.target < Len(Cluster)
      /\ place.cluster + 1 \in 1..Len(buffer.clusters) /\ Len(Cluster) \in Nat /\ place.target \in Nat
      /\ buffer # NoBuffer
  BY <1>1, TargetsStay
<1>3. DecoderTypes'
  <2>1. IsVideo(video)'
    BY DEF DecoderOK, DecoderTypes, IsVideo
  <2> QED
    BY <2>1 DEF DecoderOK, DecoderTypes, Places
<1>4. FramesOK'
  BY DEF DecoderOK, FramesOK, SeekKeyframe
<1>5. AnswerOK'
  BY DEF DecoderOK, AnswerOK, Promise!IsNearest, Promise!Distance
<1>6. PlaceOK'
  BY <1>2 DEF PlaceOK, Working
<1> QED
  BY <1>2, <1>3, <1>4, <1>5, <1>6 DEF DecoderOK

LEMMA StreamTyped ==
    ASSUME DecoderOK
    PROVE  /\ stream \in [packet : Nat, codec : Seq(Nat), draining : BOOLEAN, demux_eof : BOOLEAN,
                          flush_sent : BOOLEAN, decoder_eof : BOOLEAN]
           /\ stream.packet \in Nat /\ stream.codec \in Seq(Nat) /\ stream.draining \in BOOLEAN
           /\ stream.demux_eof \in BOOLEAN /\ stream.flush_sent \in BOOLEAN /\ stream.decoder_eof \in BOOLEAN
           /\ \A i \in 1..Len(stream.codec) : stream.codec[i] = NextFrame + i - 1
           /\ stream.draining = stream.flush_sent /\ (stream.draining => stream.demux_eof)
           /\ stream.demux_eof => stream.packet = Len(video.pts) + 1
           /\ stream.decoder_eof => stream.draining /\ stream.codec = <<>>
  BY DEF DecoderOK, DecoderTypes, StreamOK

LEMMA ReceiveEofKeeps == ASSUME DecoderOK, ReceiveEof PROVE DecoderOK'
<1>1. /\ pc = "read" /\ stream.codec = <<>> /\ stream.draining
      /\ stream' = [stream EXCEPT !.decoder_eof = TRUE] /\ pc' = "eof"
      /\ UNCHANGED <<video, buffer, place, frames, seek, converted, answer, outcome, buffers>>
  BY DEF ReceiveEof
<1>2. /\ stream' \in [packet : Nat, codec : Seq(Nat), draining : BOOLEAN, demux_eof : BOOLEAN,
                      flush_sent : BOOLEAN, decoder_eof : BOOLEAN]
      /\ stream'.packet = stream.packet /\ stream'.codec = stream.codec
      /\ stream'.draining = stream.draining /\ stream'.demux_eof = stream.demux_eof
      /\ stream'.flush_sent = stream.flush_sent /\ stream'.decoder_eof = TRUE
  BY <1>1, StreamTyped
<1>3. NextFrame' = NextFrame
  BY <1>2 DEF NextFrame
<1>4. StreamOK'
  BY <1>1, <1>2, <1>3 DEF DecoderOK, StreamOK
<1> QED
  BY <1>1, <1>2, <1>3, <1>4, StreamKeeps

LEMMA FlushKeeps == ASSUME DecoderOK, Flush PROVE DecoderOK'
<1>1. /\ pc = "read" /\ ~stream.draining /\ stream.demux_eof
      /\ IF stream.flush_sent
         THEN stream' = [stream EXCEPT !.decoder_eof = TRUE] /\ pc' = "eof"
         ELSE stream' = [stream EXCEPT !.flush_sent = TRUE, !.draining = TRUE] /\ UNCHANGED pc
      /\ UNCHANGED <<video, buffer, place, frames, seek, converted, answer, outcome, buffers>>
  BY DEF Flush
<1>2. ~stream.flush_sent /\ stream.decoder_eof = FALSE
  BY <1>1, StreamTyped
<1>3. stream' = [stream EXCEPT !.flush_sent = TRUE, !.draining = TRUE] /\ pc' = "read"
  BY <1>1, <1>2
<1>4. /\ stream' \in [packet : Nat, codec : Seq(Nat), draining : BOOLEAN, demux_eof : BOOLEAN,
                      flush_sent : BOOLEAN, decoder_eof : BOOLEAN]
      /\ stream'.packet = stream.packet /\ stream'.codec = stream.codec
      /\ stream'.draining = TRUE /\ stream'.demux_eof = stream.demux_eof
      /\ stream'.flush_sent = TRUE /\ stream'.decoder_eof = FALSE
  BY <1>2, <1>3, StreamTyped
<1>5. NextFrame' = NextFrame
  BY <1>4 DEF NextFrame
<1>6. StreamOK'
  BY <1>1, <1>4, <1>5 DEF DecoderOK, StreamOK
<1> QED
  BY <1>1, <1>3, <1>4, <1>5, <1>6, StreamKeeps

LEMMA ReadPacketKeeps == ASSUME DecoderOK, ReadPacket PROVE DecoderOK'
<1>1. CASE Fail("fault")
  BY <1>1, FailKeeps
<1>2. CASE ~Fail("fault")
  <2> DEFINE n == Len(video.pts)
             codec == stream.codec
             k == stream.packet
             x == NextFrame
             m == Len(codec)
  <2>1. /\ pc = "read" /\ ~stream.draining /\ ~stream.demux_eof
        /\ stream' = IF k <= n THEN [stream EXCEPT !.codec = Append(@, stream.packet), !.packet = @ + 1]
                     ELSE [stream EXCEPT !.demux_eof = TRUE]
        /\ UNCHANGED <<video, pc, buffer, place, frames, seek, converted, answer, outcome, buffers>>
    BY <1>2 DEF ReadPacket
  <2>2. /\ stream.draining = FALSE /\ stream.demux_eof = FALSE /\ stream.decoder_eof = FALSE
        /\ stream.flush_sent = FALSE
    BY <2>1, StreamTyped
  <2>3. /\ n \in Nat /\ m \in Nat /\ x \in Nat \ {0} /\ x + m = k /\ k \in Nat /\ k <= n + 1
        /\ codec \in Seq(Nat) /\ \A i \in 1..m : codec[i] = x + i - 1
    BY FrameFacts, StreamTyped
  <2>4. CASE k <= n
    <3> DEFINE more == Append(codec, k)
    <3>1. more \in Seq(Nat) /\ Len(more) = m + 1 /\ more[m + 1] = k /\ \A i \in 1..m : more[i] = codec[i]
      BY <2>3, AppendProperties
    <3> HIDE DEF more
    <3>2. /\ stream' \in [packet : Nat, codec : Seq(Nat), draining : BOOLEAN, demux_eof : BOOLEAN,
                          flush_sent : BOOLEAN, decoder_eof : BOOLEAN]
          /\ stream'.packet = k + 1 /\ stream'.codec = more
          /\ stream'.draining = FALSE /\ stream'.demux_eof = FALSE
          /\ stream'.flush_sent = FALSE /\ stream'.decoder_eof = FALSE
      <4>1. stream' = [stream EXCEPT !.codec = more, !.packet = k + 1]
        BY <2>1, <2>4 DEF more
      <4> QED
        <5> DEFINE y == [stream EXCEPT !.codec = more]
        <5>1. stream' = [y EXCEPT !.packet = k + 1]
          BY <4>1, Zenon
        <5>2. y = [stream EXCEPT !.codec = more]
          OBVIOUS
        <5> HIDE DEF y
        <5>3. /\ y \in [packet : Nat, codec : Seq(Nat), draining : BOOLEAN, demux_eof : BOOLEAN,
                        flush_sent : BOOLEAN, decoder_eof : BOOLEAN]
              /\ y.codec = more /\ y.draining = FALSE /\ y.demux_eof = FALSE
              /\ y.flush_sent = FALSE /\ y.decoder_eof = FALSE
          BY <2>2, <3>1, <5>2, StreamTyped
        <5>4. k + 1 \in Nat
          BY <2>3
        <5> HIDE DEF k
        <5> QED
          BY <5>1, <5>3, <5>4
    <3>3. NextFrame' = x
      <4>1. NextFrame' = stream'.packet - Len(stream'.codec)
        BY DEF NextFrame
      <4>2. NextFrame' = (k + 1) - (m + 1)
        BY <3>1, <3>2, <4>1
      <4> HIDE DEF x, k, m
      <4> QED
        BY <2>3, <4>2
    <3>4. \A i \in 1..Len(stream'.codec) : stream'.codec[i] = NextFrame' + i - 1
      <4>1. ASSUME NEW i \in 1..(m + 1) PROVE more[i] = x + i - 1
        <5> HIDE DEF x, k, m, codec
        <5>1. CASE i \in 1..m
          BY <2>3, <3>1, <5>1
        <5>2. CASE i = m + 1
          <6>1. more[i] = k
            BY <3>1, <5>2
          <6>2. x \in Nat /\ m \in Nat /\ x + m = k
            BY <2>3
          <6>3. x + i - 1 = x + m
            BY <5>2, <6>2
          <6> QED
            BY <6>1, <6>2, <6>3
        <5> QED
          BY <2>3, <5>1, <5>2
      <4> HIDE DEF x, m
      <4> QED
        BY <3>1, <3>2, <3>3, <4>1
    <3>5. StreamOK'
      <4>1. NextFrame' >= 1 /\ stream'.packet <= Len(video'.pts) + 1
        <5> HIDE DEF x, k
        <5> QED
          BY <2>1, <2>3, <2>4, <3>2, <3>3 DEF n
      <4> QED
        BY <3>2, <3>4, <4>1 DEF StreamOK
    <3>6. NextFrame' = NextFrame
      BY <3>3
    <3> QED
      BY <2>1, <3>2, <3>5, <3>6, StreamKeeps
  <2>5. CASE ~(k <= n)
    <3>1. /\ stream' \in [packet : Nat, codec : Seq(Nat), draining : BOOLEAN, demux_eof : BOOLEAN,
                          flush_sent : BOOLEAN, decoder_eof : BOOLEAN]
          /\ stream'.packet = k /\ stream'.codec = codec
          /\ stream'.draining = FALSE /\ stream'.demux_eof = TRUE
          /\ stream'.flush_sent = FALSE /\ stream'.decoder_eof = FALSE
      BY <2>1, <2>2, <2>5, StreamTyped
    <3>2. NextFrame' = NextFrame
      BY <3>1 DEF NextFrame
    <3>3. k = n + 1
      <4> HIDE DEF k, n
      <4> QED
        BY <2>3, <2>5
    <3>4. StreamOK'
      <4>1. stream'.packet = Len(video'.pts) + 1
        BY <2>1, <3>1, <3>3
      <4>2. \A i \in 1..Len(stream'.codec) : stream'.codec[i] = NextFrame' + i - 1
        BY <2>3, <3>1, <3>2
      <4>3. NextFrame' >= 1 /\ stream'.packet <= Len(video'.pts) + 1
        BY <2>1, <2>3, <3>1, <3>2
      <4> QED
        BY <3>1, <4>1, <4>2, <4>3 DEF StreamOK
    <3> QED
      BY <2>1, <3>1, <3>2, <3>4, StreamKeeps
  <2> QED
    BY <2>4, <2>5
<1> QED
  BY <1>1, <1>2

\* What Receive returns: the next frame of the file.
LEMMA ReceiveIs ==
    ASSUME DecoderOK, pc = "read", CodecHasFrame
    PROVE  /\ Head(stream.codec) = NextFrame /\ NextFrame \in 1..Len(video.pts)
           /\ Tail(stream.codec) \in Seq(Nat) /\ Len(stream.codec) \in Nat \ {0}
           /\ Len(Tail(stream.codec)) = Len(stream.codec) - 1
           /\ \A i \in 1..Len(Tail(stream.codec)) : Tail(stream.codec)[i] = (NextFrame + 1) + i - 1
<1> DEFINE codec == stream.codec
           m == Len(codec)
           x == NextFrame
           n == Len(video.pts)
<1>1. codec # <<>>
  BY DEF CodecHasFrame
<1>2. /\ n \in Nat /\ m \in Nat /\ x \in Nat \ {0} /\ x + m = stream.packet /\ stream.packet <= n + 1
      /\ codec \in Seq(Nat) /\ \A i \in 1..m : codec[i] = x + i - 1
  BY FrameFacts, StreamTyped
<1>3. m # 0
  BY <1>1, <1>2
<1>4. /\ Head(codec) = codec[1] /\ Tail(codec) \in Seq(Nat) /\ Len(Tail(codec)) = m - 1
      /\ \A i \in 1..Len(Tail(codec)) : Tail(codec)[i] = codec[i + 1]
  BY <1>1, <1>2, HeadTailProperties
<1> HIDE DEF codec, m, x, n
<1>5. x \in 1..n
  <2>1. x + m <= n + 1
    BY <1>2
  <2> QED
    BY <1>2, <1>3, <2>1
<1>6. codec[1] = x
  <2>1. 1 \in 1..m
    BY <1>2, <1>3
  <2>2. codec[1] = x + 1 - 1
    BY <1>2, <2>1
  <2> QED
    BY <1>2, <2>2
<1>7. ASSUME NEW i \in 1..Len(Tail(codec)) PROVE Tail(codec)[i] = (x + 1) + i - 1
  <2>1. i + 1 \in 1..m /\ i \in Nat
    BY <1>2, <1>3, <1>4
  <2>2. Tail(codec)[i] = x + (i + 1) - 1
    BY <1>2, <1>4, <2>1
  <2> QED
    BY <1>2, <2>1, <2>2
<1> QED
  BY <1>2, <1>3, <1>4, <1>5, <1>6, <1>7 DEF codec, m, x, n

LEMMA ReceiveKeeps == ASSUME DecoderOK, Receive PROVE DecoderOK'
<1>1. CASE Fail("budget")
  BY <1>1, FailKeeps
<1>2. CASE ~Fail("budget")
  <2> DEFINE x == NextFrame
             m == Len(stream.codec)
             rest == Tail(stream.codec)
             n == Len(video.pts)
  <2>1. /\ pc = "read" /\ CodecHasFrame
        /\ frames' = [frames EXCEPT !.current = Head(stream.codec)]
        /\ stream' = [stream EXCEPT !.codec = rest]
        /\ seek' = [seek EXCEPT !.decoded = @ + 1]
        /\ pc' = "next"
        /\ UNCHANGED <<video, buffer, place, converted, answer, outcome, buffers>>
    BY <1>2 DEF Receive
  <2>2. /\ Head(stream.codec) = x /\ x \in 1..n /\ rest \in Seq(Nat) /\ m \in Nat \ {0} /\ Len(rest) = m - 1
        /\ \A i \in 1..Len(rest) : rest[i] = (x + 1) + i - 1
    BY <2>1, ReceiveIs
  <2>3. /\ n \in Nat /\ x \in Nat \ {0} /\ x + m = stream.packet /\ stream.packet <= n + 1
        /\ seek.decoded \in Nat /\ stream.packet \in Nat
    BY FrameFacts, StreamTyped
  <2>4. /\ frames \in [previous : Nat, current : Nat]
        /\ seek \in [last : Nat \cup {-1}, start : Nat \cup {-1}, decoded : Nat, budget : Nat]
    BY DEF DecoderOK, DecoderTypes
  <2> HIDE DEF x, m, rest, n
  <2>5. /\ frames' \in [previous : Nat, current : Nat]
        /\ frames'.current = x /\ frames'.previous = frames.previous
    BY <2>1, <2>2, <2>3, <2>4
  <2>6. /\ seek' \in [last : Nat \cup {-1}, start : Nat \cup {-1}, decoded : Nat, budget : Nat]
        /\ seek'.last = seek.last /\ seek'.start = seek.start /\ seek'.decoded = seek.decoded + 1
        /\ seek'.budget = seek.budget
    BY <2>1, <2>3, <2>4
  <2>7. /\ stream' \in [packet : Nat, codec : Seq(Nat), draining : BOOLEAN, demux_eof : BOOLEAN,
                        flush_sent : BOOLEAN, decoder_eof : BOOLEAN]
        /\ stream'.packet = stream.packet /\ stream'.codec = rest
        /\ stream'.draining = stream.draining /\ stream'.demux_eof = stream.demux_eof
        /\ stream'.flush_sent = stream.flush_sent /\ stream'.decoder_eof = stream.decoder_eof
    BY <2>1, <2>2, StreamTyped
  <2>8. NextFrame' = x + 1
    <3>1. NextFrame' = stream.packet - (m - 1)
      BY <2>2, <2>7 DEF NextFrame
    <3> QED
      BY <2>2, <2>3, <3>1
  <2>9. /\ TargetsOK' /\ Cluster' = Cluster /\ BufferOK(buffer)'
        /\ outcome = "ok" /\ frames.current = 0 /\ place.target < Len(Cluster) /\ stream.decoder_eof = FALSE
        /\ place.cluster + 1 \in 1..Len(buffer.clusters) /\ Len(Cluster) \in Nat /\ place.target \in Nat
        /\ buffer # NoBuffer
    <3>1. pc' \in Working
      BY <2>1 DEF Working
    <3> QED
      BY <2>1, <2>5, <2>6, <3>1, TargetsStay
  <2>10. DecoderTypes'
    <3>1. IsVideo(video)'
      BY <2>1 DEF DecoderOK, DecoderTypes, IsVideo
    <3> QED
      BY <2>1, <2>5, <2>6, <2>7, <3>1 DEF DecoderOK, DecoderTypes, Places
  <2>11. AnswerOK'
    BY <2>1 DEF DecoderOK, AnswerOK, Promise!IsNearest, Promise!Distance
  <2>12. StreamOK'
    <3>1. NextFrame' >= 1 /\ stream'.packet <= Len(video'.pts) + 1
      BY <2>1, <2>3, <2>7, <2>8 DEF n
    <3>2. \A i \in 1..Len(stream'.codec) : stream'.codec[i] = NextFrame' + i - 1
      BY <2>2, <2>7, <2>8
    <3>3. /\ stream'.draining = stream'.flush_sent /\ (stream'.draining => stream'.demux_eof)
          /\ stream'.demux_eof => stream'.packet = Len(video'.pts) + 1
      BY <2>1, <2>7, StreamTyped
    <3> QED
      BY <2>7, <2>9, <3>1, <3>2, <3>3 DEF StreamOK
  <2>13. FramesOK'
    <3>1. /\ frames.previous # 0 => frames.previous = x - 1
          /\ frames.previous = 0 => seek.decoded = 0
          /\ seek.start # -1 => x - seek.decoded = SeekKeyframe(SeekTick(seek.start))
      BY <2>9 DEF DecoderOK, FramesOK, x
    <3>2. seek.start # -1
      <4>1. pc \in Working
        BY <2>1 DEF Working
      <4> QED
        BY <2>9, <4>1, TargetFacts
    <3>3. SeekKeyframe(SeekTick(seek.start))' = SeekKeyframe(SeekTick(seek.start))
      BY <2>1, <2>6 DEF SeekKeyframe, SeekTick
    <3>4. /\ (x + 1) - (seek.decoded + 1) = x - seek.decoded /\ (x + 1) - 1 = x /\ (x + 1) - 2 = x - 1
          /\ x # 0
      BY <2>3
    <3> QED
      BY <2>5, <2>6, <2>8, <3>1, <3>2, <3>3, <3>4 DEF FramesOK
  <2>14. PlaceOK'
    <3>1. place'.target <= Len(Cluster')
      BY <2>1, <2>9
    <3> QED
      BY <2>1, <2>9, <3>1 DEF PlaceOK, Working
  <2> QED
    BY <2>9, <2>10, <2>11, <2>12, <2>13, <2>14 DEF DecoderOK
<1> QED
  BY <1>1, <1>2

LEMMA InterruptKeeps == ASSUME DecoderOK, Interrupt PROVE DecoderOK'
  BY FailKeeps DEF Interrupt

LEMMA UnchangedKeeps == ASSUME DecoderOK, UNCHANGED decoderVars PROVE DecoderOK'
<1>1. UNCHANGED <<video, pc, buffer, place, stream, frames, seek, converted, answer, outcome, buffers>>
  BY DEF decoderVars
<1>2. DecoderTypes'
  BY <1>1 DEF DecoderOK, DecoderTypes, IsVideo
<1>3. StreamOK' /\ FramesOK'
  BY <1>1 DEF DecoderOK, StreamOK, FramesOK, NextFrame, SeekKeyframe
<1>4. AnswerOK'
  BY <1>1 DEF DecoderOK, AnswerOK, Promise!IsNearest, Promise!Distance
<1>5. PlaceOK'
  BY <1>1 DEF DecoderOK, PlaceOK, BufferOK, Pieces, Piece, Cluster
<1>6. TargetsOK'
  BY <1>1 DEF DecoderOK, TargetsOK, Behind, Cluster
<1> QED
  BY <1>2, <1>3, <1>4, <1>5, <1>6 DEF DecoderOK

LEMMA DecoderNextKeeps == ASSUME DecoderOK, DecoderNext PROVE DecoderOK'
<1>1. CASE Open
  BY <1>1, OpenKeeps
<1>2. CASE Close
  BY <1>2, CloseKeeps
<1>3. CASE \E request \in Requests : BeginBuffer(request)
  BY <1>3, BeginBufferKeeps
<1>4. CASE NextCluster
  BY <1>4, NextClusterKeeps
<1>5. CASE Select
  BY <1>5, SelectKeeps
<1>6. CASE Advance
  BY <1>6, AdvanceKeeps
<1>7. CASE SelectLast
  BY <1>7, SelectLastKeeps
<1>8. CASE ReadFrame
  BY <1>8, ReceiveKeeps, ReceiveEofKeeps, ReadPacketKeeps, FlushKeeps DEF ReadFrame
<1>9. CASE Interrupt
  BY <1>9, InterruptKeeps
<1>10. CASE QueryFailed
  BY <1>10, UnchangedKeeps DEF QueryFailed
<1> QED
  BY <1>1, <1>2, <1>3, <1>4, <1>5, <1>6, <1>7, <1>8, <1>9, <1>10 DEF DecoderNext

-----------------------------------------------------------------------------
(* The file that COPY publishes *)

\* Its frames are numbered from 0, and each one is where its episode and its number say.
LEMMA JoinedFrames ==
    LET N == Len(FrameCounts)
        file == Joined[N]
    IN /\ Len(file) = StartOf[N] + FrameCounts[N]
       /\ file \in Seq(Datum) /\ \A k \in 1..Len(file) : file[k].pts = k - 1
       /\ \A e \in Episodes : \A n \in 0..(FrameCounts[e] - 1) :
             /\ ShownAt(e, n) \in Nat /\ ShownAt(e, n) + 1 \in 1..Len(file)
             /\ file[ShownAt(e, n) + 1].frame = <<e, n>>
<1> DEFINE N == Len(FrameCounts)
           Total(m) == IF m = 0 THEN 0 ELSE StartOf[m] + FrameCounts[m]
           Good(m) ==
              /\ Len(Joined[m]) = Total(m) /\ \A k \in 1..Len(Joined[m]) : Joined[m][k].pts = k - 1
              /\ \A e \in 1..m : \A n \in 0..(FrameCounts[e] - 1) :
                    /\ StartOf[e] + n + 1 \in 1..Len(Joined[m])
                    /\ Joined[m][StartOf[e] + n + 1].frame = <<e, n>>
           T == {m \in Nat : m <= N => Good(m)}
<1>1. /\ N \in Nat \ {0} /\ Episodes = 1..N
      /\ \A e \in 1..N : FrameCounts[e] \in Nat \ {0} /\ StartOf[e] \in Nat
      /\ \A e \in 1..N : StartOf[e] = IF e = 1 THEN 0 ELSE StartOf[e - 1] + FrameCounts[e - 1]
  BY EpisodesType, EpisodesAssumption, StartOfIs
<1>2. \A m \in 0..N : Joined[m] \in Seq(Datum) /\ Len(Joined[m]) \in Nat
  BY JoinedIs
<1>3. 0 \in T
  <2>1. Joined[0] = <<>> /\ Len(Joined[0]) = 0 /\ Total(0) = 0
    BY JoinedIs
  <2>2. Good(0)
    BY <2>1
  <2> QED
    BY <2>2
<1>4. ASSUME NEW m \in Nat, m \in T PROVE m + 1 \in T
  <2> SUFFICES ASSUME m + 1 <= N PROVE Good(m + 1)
    OBVIOUS
  <2> DEFINE J == Joined[m]
             K == Joined[m + 1]
             s == StartOf[m + 1]
             c == FrameCounts[m + 1]
             P == Part(m + 1, s, c)
  <2>1. m + 1 \in 1..N /\ m \in 0..N /\ (m + 1) - 1 = m /\ m <= N
    BY <1>1
  <2>2. Good(m)
    BY <1>4, <2>1
  <2>3. s \in Nat /\ c \in Nat \ {0} /\ J \in Seq(Datum) /\ Len(J) \in Nat
    BY <1>1, <1>2, <2>1
  <2>4. s = Total(m)
    <3>1. m + 1 = 1 <=> m = 0
      OBVIOUS
    <3>2. s = IF m + 1 = 1 THEN 0 ELSE StartOf[(m + 1) - 1] + FrameCounts[(m + 1) - 1]
      BY <1>1, <2>1
    <3> QED
      BY <2>1, <3>1, <3>2
  <2>5. Len(J) = s
    BY <2>2, <2>4
  <2>6. K = J \o P
    <3>1. m + 1 \in Episodes
      BY <1>1, <2>1
    <3>2. Joined[m + 1] = Joined[(m + 1) - 1] \o Part(m + 1, StartOf[m + 1], FrameCounts[m + 1])
      BY <3>1, JoinedIs
    <3> QED
      BY <2>1, <3>2
  <2>7. /\ P \in Seq(Datum) /\ Len(P) = c
        /\ \A i \in 1..c : P[i] = Frame(m + 1, i - 1, s + i - 1)
    <3>1. P \in Seq(Datum) /\ Len(P) = c
      <4>1. m + 1 \in Nat /\ s \in Int /\ c \in Nat
        BY <2>3
      <4> HIDE DEF s, c
      <4> QED
        BY <4>1, PartSteps
    <3> QED
      BY <3>1 DEF Part
  <2>8. Total(m + 1) = s + c /\ \A e \in 1..m : e \in 1..N
    BY <2>1
  <2>9. Len(K) = s + c /\ (\A k \in 1..s : K[k] = J[k]) /\ \A i \in 1..c : K[s + i] = P[i]
    <3> HIDE DEF K, J, P, s, c
    <3>1. Len(J \o P) = Len(J) + Len(P) /\ \A k \in 1..(Len(J) + Len(P)) :
             (J \o P)[k] = IF k <= Len(J) THEN J[k] ELSE P[k - Len(J)]
      BY <2>3, <2>7, ConcatProperties
    <3>2. \A k \in 1..s : k \in 1..(s + c) /\ k <= s
      BY <2>3
    <3>3. \A i \in 1..c : s + i \in 1..(s + c) /\ ~(s + i <= s) /\ (s + i) - s = i
      BY <2>3
    <3>4. Len(K) = s + c /\ \A k \in 1..(s + c) : K[k] = IF k <= s THEN J[k] ELSE P[k - s]
      BY <2>5, <2>6, <2>7, <3>1
    <3>5. ASSUME NEW i \in 1..c PROVE K[s + i] = P[i]
      <4> DEFINE x == s + i
      <4>1. x \in 1..(s + c) /\ ~(x <= s) /\ x - s = i
        BY <3>3
      <4> HIDE DEF x
      <4>2. K[x] = P[x - s]
        BY <3>4, <4>1
      <4> QED
        BY <4>1, <4>2 DEF x
    <3> QED
      BY <3>2, <3>4, <3>5
  <2>10. (\A k \in 1..s : J[k].pts = k - 1) /\ Len(J) = s
    BY <2>2, <2>5
  <2>11. \A e \in 1..m : \A n \in 0..(FrameCounts[e] - 1) :
            StartOf[e] + n + 1 \in 1..s /\ J[StartOf[e] + n + 1].frame = <<e, n>>
    BY <2>2, <2>5
  <2> HIDE DEF Total
  <2>12. Len(K) = Total(m + 1)
    BY <2>8, <2>9
  <2> HIDE DEF J, K, P, T
  <2>13. ASSUME NEW k \in 1..(s + c) PROVE K[k].pts = k - 1
    <3> HIDE DEF s, c
    <3>1. CASE k <= s
      BY <2>3, <2>9, <2>10, <3>1
    <3>2. CASE ~(k <= s)
      <4>1. k - s \in 1..c /\ s + (k - s) = k /\ s + (k - s) - 1 = k - 1
        BY <2>3, <3>2
      <4>2. K[k] = Frame(m + 1, (k - s) - 1, s + (k - s) - 1)
        <5> DEFINE i == k - s
        <5>1. i \in 1..c /\ s + i = k
          BY <4>1
        <5>2. K[s + i] = Frame(m + 1, i - 1, s + i - 1)
          <6> HIDE DEF i
          <6> QED
            BY <2>7, <2>9, <5>1
        <5> QED
          BY <5>1, <5>2
      <4> QED
        BY <4>1, <4>2 DEF Frame
    <3> QED
      BY <3>1, <3>2
  <2>14. ASSUME NEW e \in 1..(m + 1), NEW n \in 0..(FrameCounts[e] - 1)
         PROVE  StartOf[e] + n + 1 \in 1..(s + c) /\ K[StartOf[e] + n + 1].frame = <<e, n>>
    <3>1. CASE e \in 1..m
      <4> DEFINE i == StartOf[e] + n + 1
      <4>1. i \in 1..s /\ J[i].frame = <<e, n>>
        BY <2>11, <3>1
      <4> HIDE DEF i, s, c
      <4>2. i \in 1..(s + c) /\ K[i].frame = <<e, n>>
        BY <2>3, <2>9, <4>1
      <4> QED
        BY <4>2 DEF i
    <3>2. CASE e = m + 1
      <4>1. StartOf[e] = s /\ n + 1 \in 1..c /\ (n + 1) - 1 = n /\ n \in Nat
        BY <2>3, <3>2
      <4>2. K[s + (n + 1)] = Frame(m + 1, (n + 1) - 1, s + (n + 1) - 1)
        <5> HIDE DEF s, c
        <5> QED
          BY <2>7, <2>9, <4>1
      <4>3. s + (n + 1) = StartOf[e] + n + 1 /\ s + (n + 1) \in 1..(s + c)
        <5> HIDE DEF s, c
        <5> QED
          BY <2>3, <4>1
      <4> QED
        BY <3>2, <4>1, <4>2, <4>3 DEF Frame
    <3> QED
      BY <3>1, <3>2
  <2> QED
    BY <2>9, <2>12, <2>13, <2>14 DEF K
<1>5. Nat \subseteq T
  <2> HIDE DEF T
  <2> QED
    BY <1>3, <1>4, NatInd
<1>6. Good(N)
  <2> HIDE DEF Good, N
  <2>1. \A m \in T : m <= N => Good(m)
    OBVIOUS
  <2> HIDE DEF T
  <2>2. N \in T /\ N <= N
    BY <1>1, <1>5
  <2> QED
    BY <2>1, <2>2
<1>7. \A e \in Episodes : \A n \in 0..(FrameCounts[e] - 1) :
         ShownAt(e, n) \in Nat /\ ShownAt(e, n) + 1 = StartOf[e] + n + 1
  BY <1>1 DEF ShownAt
<1>8. Joined[N] \in Seq(Datum)
  BY <1>1, <1>2
<1>9. \A e \in Episodes : \A n \in 0..(FrameCounts[e] - 1) :
         /\ StartOf[e] + n + 1 \in 1..Len(Joined[N])
         /\ Joined[N][StartOf[e] + n + 1].frame = <<e, n>>
  BY <1>1, <1>6
<1>10. \A k \in 1..Len(Joined[N]) : Joined[N][k].pts = k - 1
  BY <1>6
<1>11. Len(Joined[N]) = StartOf[N] + FrameCounts[N]
  BY <1>1, <1>6
<1> HIDE DEF Good
<1> QED
  BY <1>7, <1>8, <1>9, <1>10, <1>11

LEMMA JoinedAt ==
    LET file == Joined[Len(FrameCounts)]
    IN /\ file \in Seq(Datum) /\ \A k \in 1..Len(file) : file[k].pts = k - 1
       /\ \A e \in Episodes : \A n \in 0..(FrameCounts[e] - 1) :
             /\ ShownAt(e, n) \in Nat /\ ShownAt(e, n) + 1 \in 1..Len(file)
             /\ file[ShownAt(e, n) + 1].frame = <<e, n>>
  BY JoinedFrames

\* Every frame of the file belongs to an episode.
LEMMA FrameOfEpisode ==
    \A k \in 1..Len(Joined[Len(FrameCounts)]) :
       \E e \in Episodes : \E n \in 0..(FrameCounts[e] - 1) : k = ShownAt(e, n) + 1
<1> DEFINE N == Len(FrameCounts)
           file == Joined[N]
           Belongs(i) == \E e \in 1..N : \E n \in 0..(FrameCounts[e] - 1) : i = StartOf[e] + n
           T == {i \in Nat : i < Len(file) => Belongs(i)}
<1>1. /\ N \in Nat \ {0} /\ Episodes = 1..N
      /\ \A e \in 1..N : FrameCounts[e] \in Nat \ {0} /\ StartOf[e] \in Nat
      /\ \A e \in 1..N : StartOf[e] = IF e = 1 THEN 0 ELSE StartOf[e - 1] + FrameCounts[e - 1]
  BY EpisodesType, EpisodesAssumption, StartOfIs
<1>2. Len(file) = StartOf[N] + FrameCounts[N]
  BY JoinedFrames
<1> HIDE DEF N, file
<1>3. 0 \in T
  <2>1. 1 \in 1..N /\ StartOf[1] = 0 /\ 0 \in 0..(FrameCounts[1] - 1) /\ 0 = StartOf[1] + 0
    BY <1>1
  <2> QED
    BY <2>1
<1>4. ASSUME NEW i \in Nat, i \in T PROVE i + 1 \in T
  <2> SUFFICES ASSUME i + 1 < Len(file) PROVE Belongs(i + 1)
    OBVIOUS
  <2>1. Len(file) \in Nat
    BY <1>1, <1>2
  <2>2. PICK e \in 1..N : \E n \in 0..(FrameCounts[e] - 1) : i = StartOf[e] + n
    BY <1>4, <2>1
  <2>3. PICK n \in 0..(FrameCounts[e] - 1) : i = StartOf[e] + n
    BY <2>2
  <2>4. FrameCounts[e] \in Nat \ {0} /\ StartOf[e] \in Nat /\ n \in Nat
    BY <1>1
  <2>5. CASE n + 1 < FrameCounts[e]
    <3>1. n + 1 \in 0..(FrameCounts[e] - 1) /\ i + 1 = StartOf[e] + (n + 1)
      BY <2>3, <2>4, <2>5
    <3> QED
      BY <3>1
  <2>6. CASE ~(n + 1 < FrameCounts[e])
    <3>1. i + 1 = StartOf[e] + FrameCounts[e]
      BY <2>3, <2>4, <2>6
    <3>2. e # N
      BY <1>2, <2>1, <2>4, <3>1
    <3>3. e + 1 \in 1..N /\ e + 1 # 1 /\ (e + 1) - 1 = e
      BY <1>1, <3>2
    <3>4. StartOf[e + 1] = StartOf[(e + 1) - 1] + FrameCounts[(e + 1) - 1] /\ FrameCounts[e + 1] \in Nat \ {0}
      BY <1>1, <3>3
    <3>5. 0 \in 0..(FrameCounts[e + 1] - 1) /\ i + 1 = StartOf[e + 1] + 0
      <4>1. StartOf[e + 1] = i + 1
        BY <3>1, <3>3, <3>4
      <4> QED
        BY <3>4, <4>1
    <3> QED
      BY <3>3, <3>5
  <2> QED
    BY <2>5, <2>6
<1>5. Nat \subseteq T
  <2> HIDE DEF T
  <2> QED
    BY <1>3, <1>4, NatInd
<1>6. ASSUME NEW k \in 1..Len(file)
      PROVE  \E e \in Episodes : \E n \in 0..(FrameCounts[e] - 1) : k = ShownAt(e, n) + 1
  <2>1. k - 1 \in Nat /\ k - 1 < Len(file)
    BY <1>1, <1>2
  <2>2. Belongs(k - 1)
    BY <1>5, <2>1
  <2>3. PICK e \in 1..N : \E n \in 0..(FrameCounts[e] - 1) : k - 1 = StartOf[e] + n
    BY <2>2
  <2>4. PICK n \in 0..(FrameCounts[e] - 1) : k - 1 = StartOf[e] + n
    BY <2>3
  <2>5. e \in Episodes /\ k = ShownAt(e, n) + 1
    <3>1. StartOf[e] \in Nat /\ n \in Nat
      BY <1>1
    <3> QED
      BY <1>1, <2>4, <3>1 DEF ShownAt
  <2> QED
    BY <2>5
<1> QED
  BY <1>6 DEF file, N

LEMMA FileIs ==
    LET file == Joined[Len(FrameCounts)]
        v == FileOf(file)
    IN /\ IsVideo(v) /\ DOMAIN v.pts = 1..Len(file)
       /\ \A k \in 1..Len(file) : v.pts[k] = (k - 1) * FrameDuration /\ v.shows[k] = file[k].frame
<1> DEFINE file == Joined[Len(FrameCounts)]
           v == FileOf(file)
           n == Len(file)
           at == [k \in 1..n |-> (k - 1) * FrameDuration]
<1>1. DOMAIN file = 1..n /\ n \in Nat /\ \A k \in 1..n : file[k].pts = k - 1
  BY JoinedAt
<1> HIDE DEF file, n
<1>2. /\ v.pts = at /\ v.keyframes \subseteq 1..n /\ v.delay = Lag
      /\ \A k \in 1..n : v.shows[k] = file[k].frame
  <2>1. [k \in DOMAIN file |-> file[k].pts * FrameDuration] = at
    BY <1>1
  <2> HIDE DEF at
  <2>2. v.pts = at /\ v.delay = Lag
    BY <2>1 DEF FileOf
  <2>3. v.keyframes \subseteq 1..n /\ \A k \in 1..n : v.shows[k] = file[k].frame
    BY <1>1 DEF FileOf
  <2> QED
    BY <2>2, <2>3
<1>3. FrameDuration \in Nat \ {0} /\ Tick \in Nat \ {0} /\ Lag \in Nat /\ FrameDuration % Tick = 0
  BY TimeAssumption, TimeBaseAssumption, EpisodesAssumption
<1>4. /\ \A i \in Nat : i * FrameDuration \in Nat
      /\ \A i \in Nat : (i * FrameDuration) % Tick = 0
      /\ \A i \in Nat : i * FrameDuration < (i + 1) * FrameDuration
  <2>1. \A x \in Nat : \A d \in Nat \ {0} : x % d = 0 => x = d * (x \div d) /\ (x \div d) \in Nat
    OBVIOUS
  <2>2. PICK q \in Nat : FrameDuration = Tick * q
    BY <1>3, <2>1
  <2>3. \A i, x \in Nat : \A d \in Nat \ {0} : i * (d * x) = d * (i * x) /\ i * x \in Nat
    OBVIOUS
  <2>4. \A x \in Nat : \A d \in Nat \ {0} : (d * x) % d = 0
    OBVIOUS
  <2>5. ASSUME NEW i \in Nat PROVE (i * FrameDuration) % Tick = 0
    <3>1. i * FrameDuration = Tick * (i * q) /\ i * q \in Nat
      BY <1>3, <2>2, <2>3
    <3> QED
      BY <1>3, <2>4, <3>1
  <2>6. ASSUME NEW i \in Nat PROVE i * FrameDuration \in Nat /\ i * FrameDuration < (i + 1) * FrameDuration
    <3>1. (i + 1) * FrameDuration = i * FrameDuration + FrameDuration /\ i * FrameDuration \in Nat
      BY <1>3
    <3> QED
      BY <1>3, <3>1
  <2> QED
    BY <2>5, <2>6
<1>5. /\ DOMAIN at = 1..n /\ at \in Seq(Nat) /\ Len(at) = n
      /\ \A k \in 1..n : at[k] = (k - 1) * FrameDuration /\ at[k] % Tick = 0
  <2>1. \A k \in 1..n : k - 1 \in Nat
    BY <1>1
  <2>2. at \in [1..n -> Nat]
    BY <1>4, <2>1
  <2>3. at \in Seq(Nat) /\ Len(at) = n
    <3> HIDE DEF at
    <3> QED
      BY <1>1, <2>2
  <2> QED
    BY <1>4, <2>1, <2>3
<1>6. \A f \in 2..Len(at) : at[f - 1] < at[f]
  <2>1. SUFFICES ASSUME NEW f \in 2..n PROVE at[f - 1] < at[f]
    BY <1>5
  <2> DEFINE i == f - 2
  <2>2. i \in Nat /\ f \in 1..n /\ f - 1 \in 1..n /\ (f - 1) - 1 = i /\ f - 1 = i + 1
    BY <1>1
  <2>3. at[f - 1] = i * FrameDuration /\ at[f] = (i + 1) * FrameDuration
    <3>1. at[f - 1] = ((f - 1) - 1) * FrameDuration /\ at[f] = (f - 1) * FrameDuration
      <4> HIDE DEF at
      <4> QED
        BY <1>5, <2>2
    <3> HIDE DEF at, i
    <3> QED
      BY <2>2, <3>1
  <2> HIDE DEF at, i
  <2> QED
    BY <1>4, <2>2, <2>3
<1> HIDE DEF at, v
<1>7. IsVideo(v)
  BY <1>2, <1>3, <1>5, <1>6 DEF IsVideo
<1>8. DOMAIN v.pts = 1..n /\ \A k \in 1..n : v.pts[k] = (k - 1) * FrameDuration /\ v.shows[k] = file[k].frame
  BY <1>2, <1>5
<1> QED
  BY <1>7, <1>8 DEF v, n, file

\* The file of a job that succeeded, without its header and its index.
LEMMA PublishedIs == ASSUME IInv, Succeeded(0) PROVE WrittenVideo = FileOf(Joined[Len(FrameCounts)])
<1> DEFINE J == Joined[Len(FrameCounts)]
           w == io[0].written
           n == Len(J)
<1>1. J \in Seq(Datum) /\ n \in Nat /\ DOMAIN J = 1..n
  BY JoinedAt
<1>2. w = Append(<<Header>> \o J, Index)
  <2>1. Complete(io[0], Append(<<Header>> \o Content(0), Index))
    BY ConcatFacts, JobFacts DEF FileOK, Succeeded
  <2> QED
    BY <2>1 DEF Complete, Content
<1> HIDE DEF J, w
<1>3. <<Header>> \o J \in Seq(Datum) /\ Len(<<Header>> \o J) = n + 1 /\ \A k \in 1..n : (<<Header>> \o J)[k + 1] = J[k]
  <2>1. <<Header>> \in Seq(Datum) /\ Len(<<Header>>) = 1
    BY Marks
  <2>2. /\ <<Header>> \o J \in Seq(Datum) /\ Len(<<Header>> \o J) = 1 + n
        /\ \A k \in 1..(1 + n) : (<<Header>> \o J)[k] = IF k <= 1 THEN <<Header>>[k] ELSE J[k - 1]
    BY <1>1, <2>1, ConcatProperties
  <2>3. \A k \in 1..n : k + 1 \in 1..(1 + n) /\ ~(k + 1 <= 1) /\ (k + 1) - 1 = k
    BY <1>1
  <2> QED
    BY <1>1, <2>2, <2>3
<1>4. w \in Seq(Datum) /\ Len(w) = n + 2 /\ \A k \in 1..n : w[k + 1] = J[k]
  <2> DEFINE h == <<Header>> \o J
  <2> HIDE DEF h
  <2>1. h \in Seq(Datum) /\ Len(h) = n + 1 /\ (\A k \in 1..n : h[k + 1] = J[k]) /\ w = Append(h, Index)
    BY <1>2, <1>3 DEF h
  <2>2. Index \in Datum
    BY Marks
  <2>3. w \in Seq(Datum) /\ Len(w) = (n + 1) + 1 /\ \A k \in 1..(n + 1) : w[k] = h[k]
    BY <2>1, <2>2, AppendProperties
  <2>4. \A k \in 1..n : k + 1 \in 1..(n + 1)
    BY <1>1
  <2> QED
    BY <1>1, <2>1, <2>3, <2>4
<1>5. Packets(io[0]) = J
  <2>1. Packets(io[0]) = SubSeq(w, 2, Len(w) - 1)
    BY DEF Packets, w
  <2>2. Len(w) - 1 = n + 1 /\ (n + 1) - 2 + 1 = n
    BY <1>1, <1>4
  <2> DEFINE r == SubSeq(w, 2, n + 1)
  <2>3. r \in Seq(Datum) /\ Len(r) = n /\ \A i \in 1..n : r[i] = J[i]
    <3>1. \A i \in 2..(n + 1) : w[i] \in Datum
      BY <1>1, <1>4
    <3>2. r \in Seq(Datum) /\ Len(r) = n /\ \A i \in 1..n : r[i] = w[i + 1]
      <4>1. /\ r \in Seq(Datum) /\ Len(r) = IF 2 <= n + 1 THEN (n + 1) - 2 + 1 ELSE 0
            /\ \A i \in 1..((n + 1) - 2 + 1) : r[i] = w[2 + i - 1]
        <5>1. 2 \in 1..(Len(w) + 1) /\ n + 1 \in 0..Len(w) /\ 2 \in Int /\ n + 1 \in Int
          BY <1>1, <1>4
        <5> HIDE DEF r
        <5> QED
          BY <1>4, <3>1, <5>1, SubSeqProperties DEF r
      <4>2. \A i \in 1..n : 2 + i - 1 = i + 1
        BY <1>1
      <4> HIDE DEF r
      <4>3. Len(r) = n
        BY <1>1, <4>1
      <4> QED
        BY <2>2, <4>1, <4>2, <4>3
    <3> HIDE DEF r
    <3> QED
      BY <1>4, <3>2
  <2> HIDE DEF r
  <2>4. r = [i \in 1..n |-> J[i]]
    BY <2>3, SeqIsFunction
  <2>5. J = [i \in 1..n |-> J[i]]
    BY <1>1, SeqIsFunction
  <2> QED
    BY <2>1, <2>2, <2>4, <2>5 DEF r
<1> QED
  BY <1>5 DEF WrittenVideo, FileOf, J

-----------------------------------------------------------------------------
(* All steps of COPY and of the query *)

LEMMA NoVideoIs == IsVideo(NoVideo)
<1>1. NoVideo.pts = <<>> /\ NoVideo.keyframes = {} /\ NoVideo.delay = 0
  BY DEF NoVideo
<1>2. <<>> \in Seq(Nat) /\ Len(<<>>) = 0 /\ DOMAIN <<>> = {} /\ 0 \in Nat
  OBVIOUS
<1>3. \A f \in 2..Len(NoVideo.pts) : NoVideo.pts[f - 1] < NoVideo.pts[f]
  BY <1>1, <1>2
<1>4. \A f \in DOMAIN NoVideo.pts : NoVideo.pts[f] % Tick = 0
  BY <1>1, <1>2
<1> QED
  BY <1>1, <1>2, <1>3, <1>4 DEF IsVideo

\* A decoder that is not open yet, for any file.
LEMMA InitDecoder == IsVideo(video) /\ DecoderInit => DecoderOK
<1> SUFFICES ASSUME IsVideo(video), DecoderInit PROVE DecoderOK
  OBVIOUS
<1>1. /\ pc = "closed" /\ outcome = "ok"
      /\ buffer = NoBuffer /\ place = [cluster |-> 0, target |-> 0]
      /\ stream = FreshStream /\ frames = NoFrames /\ seek = NoSeek /\ converted = 0
      /\ answer = [target |-> -1, frame |-> 0, pixels |-> 0]
  BY DEF DecoderInit
<1>2. DecoderTypes
  <2>1. stream \in [packet : Nat, codec : Seq(Nat), draining : BOOLEAN, demux_eof : BOOLEAN,
                    flush_sent : BOOLEAN, decoder_eof : BOOLEAN]
    BY <1>1 DEF FreshStream
  <2>2. frames \in [previous : Nat, current : Nat] /\ place \in [cluster : Nat, target : Nat]
    BY <1>1 DEF NoFrames
  <2>3. seek \in [last : Nat \cup {-1}, start : Nat \cup {-1}, decoded : Nat, budget : Nat]
    BY <1>1 DEF NoSeek
  <2> QED
    BY <1>1, <2>1, <2>2, <2>3 DEF DecoderTypes, Places
<1>3. StreamOK
  <2>1. Len(video.pts) \in Nat
    BY VideoIs
  <2>2. /\ stream.packet = 1 /\ stream.codec = <<>> /\ Len(stream.codec) = 0
        /\ stream.draining = FALSE /\ stream.flush_sent = FALSE
        /\ stream.demux_eof = FALSE /\ stream.decoder_eof = FALSE
    BY <1>1 DEF FreshStream
  <2>3. NextFrame = 1
    BY <2>2 DEF NextFrame
  <2>4. \A i \in 1..Len(stream.codec) : stream.codec[i] = NextFrame + i - 1
    BY <2>2
  <2>5. NextFrame >= 1 /\ stream.packet <= Len(video.pts) + 1
    <3> DEFINE n == Len(video.pts)
    <3>1. \A x \in Nat : 1 <= x + 1
      OBVIOUS
    <3> QED
      BY <2>1, <2>2, <2>3, <3>1
  <2>6. /\ stream.draining = stream.flush_sent /\ (stream.draining => stream.demux_eof)
        /\ stream.demux_eof => stream.packet = Len(video.pts) + 1
        /\ stream.decoder_eof => stream.draining /\ stream.codec = <<>>
    BY <2>2
  <2> QED
    BY <2>4, <2>5, <2>6 DEF StreamOK
<1>4. FramesOK
  BY <1>1 DEF FramesOK, NoFrames, NoSeek
<1>5. PlaceOK
  BY <1>1 DEF PlaceOK, Working
<1>6. TargetsOK
  BY <1>1 DEF TargetsOK, Working
<1>7. AnswerOK
  BY <1>1 DEF AnswerOK
<1> QED
  BY <1>2, <1>3, <1>4, <1>5, <1>6, <1>7 DEF DecoderOK

LEMMA InitDecoderInv == ASSUME Init PROVE DecoderInv
<1>1. DecoderInit /\ ((query = "COPY" /\ video = NoVideo) \/ (query = "SELECT" /\ video \in Videos))
  BY DEF Init
<1>2. IsVideo(video)
  BY <1>1, NoVideoIs, VideosAssumption
<1>3. QueryOK
  BY <1>1 DEF QueryOK
<1> QED
  BY <1>1, <1>2, <1>3, InitDecoder DEF DecoderInv

LEMMA PublishIs ==
    ASSUME IInv, DecoderInv, Publish
    PROVE  /\ DecoderInv' /\ query' = "SELECT" /\ DecoderInit /\ DecoderInit'
           /\ video' = FileOf(Joined[Len(FrameCounts)])
<1>1. /\ query = "COPY" /\ query' = "SELECT" /\ Succeeded(0) /\ video' = WrittenVideo
      /\ UNCHANGED <<pc, buffer, place, stream, frames, seek, converted, answer, outcome, buffers>>
  BY DEF Publish
<1>2. DecoderInit
  BY <1>1 DEF DecoderInv, QueryOK
<1>3. DecoderInit'
  BY <1>1, <1>2 DEF DecoderInit
<1>4. video' = FileOf(Joined[Len(FrameCounts)])
  BY <1>1, PublishedIs
<1>5. IsVideo(video)'
  <2>1. IsVideo(FileOf(Joined[Len(FrameCounts)]))
    BY FileIs
  <2> QED
    BY <1>4, <2>1 DEF IsVideo
<1>6. (IsVideo(video) /\ DecoderInit => DecoderOK)'
  BY InitDecoder, PTL
<1>7. QueryOK'
  BY <1>1, <1>4 DEF QueryOK
<1> QED
  BY <1>1, <1>2, <1>3, <1>4, <1>5, <1>6, <1>7 DEF DecoderInv

\* No step of the decoder changes the file.
LEMMA VideoStays == ASSUME DecoderNext PROVE video' = video
<1>1. Open \/ Close \/ (\E request \in Requests : BeginBuffer(request)) => video' = video
  BY DEF Open, Close, BeginBuffer
<1>2. \A why : Fail(why) => video' = video
  BY DEF Fail
<1>3. \A f : Give(f) => video' = video
  BY <1>2 DEF Give
<1>4. NextCluster \/ Advance \/ Interrupt => video' = video
  BY <1>2 DEF NextCluster, Advance, Interrupt
<1>5. Select \/ SelectLast => video' = video
  BY <1>2, <1>3 DEF Select, SelectLast
<1>6. ReadFrame => video' = video
  BY <1>2 DEF ReadFrame, Receive, ReceiveEof, ReadPacket, Flush
<1>7. QueryFailed => video' = video
  BY DEF QueryFailed, decoderVars
<1> QED
  BY <1>1, <1>4, <1>5, <1>6, <1>7 DEF DecoderNext

LEMMA NextDecoderInv == ASSUME IInv, DecoderInv, [Next]_vars PROVE DecoderInv'
<1>1. CASE Publish
  BY <1>1, PublishIs
<1>2. CASE UNCHANGED <<query, decoderVars>>
  <2>1. DecoderOK'
    BY <1>2, UnchangedKeeps DEF DecoderInv
  <2>2. QueryOK'
    BY <1>2 DEF DecoderInv, QueryOK, decoderVars, DecoderInit
  <2> QED
    BY <2>1, <2>2 DEF DecoderInv
<1>3. CASE Query
  <2>1. query = "SELECT" /\ query' = query /\ DecoderNext
    BY <1>3 DEF Query
  <2>2. DecoderOK'
    BY <2>1, DecoderNextKeeps DEF DecoderInv
  <2>3. video' = video
    BY <2>1, VideoStays
  <2>4. QueryOK'
    BY <2>1, <2>3 DEF DecoderInv, QueryOK
  <2> QED
    BY <2>2, <2>4 DEF DecoderInv
<1> QED
  BY <1>1, <1>2, <1>3 DEF Next, Copy, CopyFailed, vars

\* The decoder is always where its flags and its targets say.
THEOREM DecoderInvariant == Spec => []DecoderInv
<1>1. IInv /\ DecoderInv /\ [Next]_vars => DecoderInv'
  BY NextDecoderInv
<1>2. Init => DecoderInv
  BY InitDecoderInv
<1> QED
  BY <1>1, <1>2, Invariant, PTL DEF Spec

\* A row of the dataset that COPY wrote gets its own frame: with any number of episodes and
\* frames, whatever targets are asked for with it, and wherever the decoder seeks.
THEOREM RowsShown == Spec => []RowsShowTheirFrames
<1>1. ASSUME DecoderInv PROVE RowsShowTheirFrames
  <2> SUFFICES ASSUME query = "SELECT", video.shows # <<>>, answer.frame # 0,
                      NEW e \in Episodes, NEW n \in 0..(FrameCounts[e] - 1),
                      answer.target = TimestampOf(e, n)
               PROVE  video.shows[answer.pixels] = <<e, n>>
    BY DEF RowsShowTheirFrames
  <2> DEFINE file == Joined[Len(FrameCounts)]
             f == answer.frame
             g == ShownAt(e, n) + 1
             t == answer.target
  <2>1. video = FileOf(file)
    BY <1>1, VideosAssumption DEF DecoderInv, QueryOK
  <2>2. /\ IsVideo(video) /\ DOMAIN video.pts = 1..Len(file)
        /\ \A k \in 1..Len(file) : video.pts[k] = (k - 1) * FrameDuration /\ video.shows[k] = file[k].frame
    BY <2>1, FileIs
  <2>3. ShownAt(e, n) \in Nat /\ g \in 1..Len(file) /\ file[g].frame = <<e, n>>
    BY JoinedAt
  <2>4. g - 1 = ShownAt(e, n)
    BY <2>3
  <2>5. video.pts[g] = t
    <3>1. video.pts[g] = (g - 1) * FrameDuration
      BY <2>2, <2>3
    <3>2. t = TimestampOf(e, n)
      OBVIOUS
    <3> HIDE DEF g, t
    <3> QED
      BY <2>4, <3>1, <3>2 DEF TimestampOf
  <2>6. f \in 1..Len(file) /\ answer.pixels = f /\ Promise!IsNearest(f, t) /\ t \in Nat
    BY <1>1, <2>2 DEF DecoderInv, DecoderOK, AnswerOK
  <2>7. DOMAIN video.pts = 1..Len(video.pts) /\ \A k \in DOMAIN video.pts : video.pts[k] \in Nat
    BY <2>2, VideoIs
  <2> HIDE DEF f, g, t, file
  <2>8. video.pts[f] = t
    <3>1. Distance(f, t) < Distance(g, t) \/ Distance(f, t) = Distance(g, t)
      <4>1. g \in DOMAIN video.pts
        BY <2>2, <2>3
      <4>2. \/ Promise!Distance(f, t) < Promise!Distance(g, t)
            \/ Promise!Distance(f, t) = Promise!Distance(g, t) /\ f <= g
        BY <2>6, <4>1 DEF Promise!IsNearest
      <4>3. \A x, y : Promise!Distance(x, y) = Distance(x, y)
        BY <2>2, DistanceIs
      <4> QED
        BY <4>2, <4>3
    <3>2. Distance(g, t) = 0
      BY <2>5, <2>6 DEF Distance
    <3>3. Distance(f, t) = IF video.pts[f] < t THEN t - video.pts[f] ELSE video.pts[f] - t
      BY DEF Distance
    <3>4. video.pts[f] \in Nat
      BY <2>2, <2>6, <2>7
    <3> QED
      BY <2>6, <3>1, <3>2, <3>3, <3>4
  <2>9. f = g
    <3>1. \A i, k \in 1..Len(video.pts) : i < k => video.pts[i] < video.pts[k]
      BY <2>2, VideoIs
    <3>2. f \in 1..Len(video.pts) /\ g \in 1..Len(video.pts)
      BY <2>2, <2>3, <2>6, <2>7
    <3>3. ~(f < g) /\ ~(g < f)
      BY <2>5, <2>6, <2>8, <3>1, <3>2
    <3> QED
      BY <3>2, <3>3
  <2> QED
    BY <2>2, <2>3, <2>6, <2>9
<1> QED
  BY <1>1, DecoderInvariant, PTL

-----------------------------------------------------------------------------
(* The steps of the decoder as steps of NearestFrame *)

LEMMA RemainingNext ==
    Remaining' = IF buffer' = NoBuffer THEN <<>> ELSE Left(buffer', place'.cluster + 1, place'.target)
  BY DEF Remaining, Left, Cluster

LEMMA RemainingSame == UNCHANGED <<buffer, place>> => Remaining' = Remaining
  BY RemainingIs, RemainingNext

LEMMA Stutters ==
    UNCHANGED <<video, buffer, place, answer, outcome>> => UNCHANGED Promise!vars
  BY RemainingSame DEF Promise!vars

LEMMA FailGivesUp ==
    ASSUME outcome = "ok", NEW why \in {"fault", "budget"}, why = "budget" => ~Promise!Regular, Fail(why)
    PROVE  Promise!Next
<1>1. outcome' = why /\ UNCHANGED <<video, buffer, place, answer>>
  BY DEF Fail
<1>2. Remaining' = Remaining
  BY <1>1, RemainingSame
<1> QED
  BY <1>1, <1>2 DEF Promise!Next, Promise!GiveUp

\* What is left of the targets while the decoder works them off.
LEMMA WorkingLeft ==
    ASSUME DecoderOK, pc \in Working
    PROVE  /\ Remaining = Left(buffer, place.cluster + 1, place.target)
           /\ place.target < Len(Cluster) =>
                 /\ Remaining # <<>> /\ Head(Remaining) = Target
                 /\ Tail(Remaining) = Left(buffer, place.cluster + 1, place.target + 1)
<1>1. /\ buffer # NoBuffer /\ BufferOK(buffer) /\ place.cluster + 1 \in 1..Len(buffer.clusters)
      /\ Cluster = buffer.clusters[place.cluster + 1] /\ place.target \in Nat
  BY WorkingFacts
<1>2. Remaining = Left(buffer, place.cluster + 1, place.target)
  BY <1>1, RemainingIs
<1>3. ASSUME place.target < Len(Cluster)
      PROVE  /\ Remaining # <<>> /\ Head(Remaining) = Target
             /\ Tail(Remaining) = Left(buffer, place.cluster + 1, place.target + 1)
  <2>1. PICK c : c = place.cluster + 1
    OBVIOUS
  <2>2. PICK t : t = place.target
    OBVIOUS
  <2>3. /\ BufferOK(buffer) /\ c \in 1..Len(buffer.clusters) /\ t \in Nat /\ t < Len(buffer.clusters[c])
        /\ Remaining = Left(buffer, c, t)
    BY <1>1, <1>2, <1>3, <2>1, <2>2
  <2>4. /\ Left(buffer, c, t) # <<>> /\ Head(Left(buffer, c, t)) = buffer.targets[buffer.clusters[c][t + 1]]
        /\ Tail(Left(buffer, c, t)) = Left(buffer, c, t + 1)
    BY <2>3, LeftTarget
  <2>5. Target = buffer.targets[buffer.clusters[c][t + 1]]
    BY <1>1, <2>1, <2>2 DEF Target
  <2> QED
    BY <2>1, <2>2, <2>3, <2>4, <2>5
<1> QED
  BY <1>2, <1>3

LEMMA GiveAnswers ==
    ASSUME DecoderOK, pc \in Working, place.target < Len(Cluster), NEW f \in 1..Len(video.pts),
           Promise!IsNearest(f, Target), Give(f)
    PROVE  Promise!Next
<1> DEFINE t == Target
<1>1. Remaining # <<>> /\ Head(Remaining) = t /\ Tail(Remaining) = Left(buffer, place.cluster + 1, place.target + 1)
  BY WorkingLeft
<1>2. /\ IsVideo(video) /\ DOMAIN video.pts = 1..Len(video.pts) /\ converted \in {0} \cup DOMAIN video.pts
      /\ place \in [cluster : Nat, target : Nat]
  BY FrameFacts DEF DecoderOK, DecoderTypes
<1>3. outcome = "ok" /\ buffer # NoBuffer /\ t \in Nat
  BY WorkingFacts, TargetFacts
<1>4. CASE Distance(f, t) > Tolerance
  <2>1. outcome' = "unmatched" /\ UNCHANGED <<video, buffer, place, answer>>
    BY <1>4 DEF Give, Fail
  <2>2. Remaining' = Remaining
    BY <2>1, RemainingSame
  <2>3. \A g \in DOMAIN video.pts : Promise!Distance(g, t) > Tolerance
    <3>1. f \in DOMAIN video.pts /\ Promise!IsNearest(f, t)
      BY <1>2
    <3> HIDE DEF t
    <3> QED
      BY <1>2, <1>3, <1>4, <3>1, NoneMatches
  <2>4. Promise!Refuse
    <3> HIDE DEF t
    <3> QED
      BY <1>1, <1>3, <2>1, <2>2, <2>3 DEF Promise!Refuse
  <2> QED
    BY <2>4 DEF Promise!Next
<1>5. CASE ~(Distance(f, t) > Tolerance)
  <2>1. /\ converted' = ConvertFrame(f)
        /\ answer' = [target |-> t, frame |-> f, pixels |-> converted']
        /\ place' = [place EXCEPT !.target = @ + 1]
        /\ UNCHANGED <<video, buffer, outcome>>
    BY <1>5 DEF Give
  <2>2. answer' = [target |-> t, frame |-> f, pixels |-> f]
    <3>1. ConvertFrame(f) = f
      BY <1>2, ConvertIs
    <3> QED
      BY <2>1, <3>1
  <2>3. place'.cluster = place.cluster /\ place'.target = place.target + 1
    BY <1>2, <2>1
  <2>4. Remaining' = Tail(Remaining)
    BY <1>1, <1>3, <2>1, <2>3, RemainingNext
  <2>5. Promise!Distance(f, t) <= Tolerance
    <3>1. Distance(f, t) \in Nat /\ Promise!Distance(f, t) = Distance(f, t)
      BY <1>2, <1>3, DistanceIs
    <3>2. Tolerance \in Nat
      BY TimeAssumption
    <3> HIDE DEF t
    <3> QED
      BY <1>5, <3>1, <3>2
  <2>6. Promise!Answer
    <3>1. f \in DOMAIN video.pts /\ Promise!IsNearest(f, t)
      BY <1>2
    <3> HIDE DEF t
    <3> QED
      BY <1>1, <1>3, <2>1, <2>2, <2>4, <2>5, <3>1 DEF Promise!Answer
  <2> QED
    BY <2>6 DEF Promise!Next
<1> QED
  BY <1>4, <1>5

LEMMA BeginBufferAsks == ASSUME DecoderOK, NEW request \in Requests, BeginBuffer(request) PROVE Promise!Next
<1> DEFINE buf == FinalizeDecodeBuffer(request)
<1>1. /\ pc = "ready" /\ outcome = "ok" /\ buffer' = buf /\ UNCHANGED <<video, answer>>
      /\ place' = [cluster |-> 0, target |-> 0] /\ UNCHANGED outcome
  BY DEF BeginBuffer, StartCluster
<1>2. BufferOK(buf)
  BY BufferIs
<1> HIDE DEF buf
<1>3. buffer = NoBuffer
  BY <1>1 DEF DecoderOK, PlaceOK, Working
<1>4. Remaining = <<>>
  BY <1>3, RemainingIs
<1>5. Remaining' = buf.targets
  <2>1. place'.cluster + 1 = 1 /\ place'.target = 0
    BY <1>1
  <2> QED
    BY <1>1, <1>2, <2>1, LeftFirst, RemainingNext
<1>6. /\ buf.targets # <<>> /\ \A i \in 2..Len(buf.targets) : buf.targets[i - 1] <= buf.targets[i]
  <2>1. /\ buf.targets \in Seq(Nat) /\ Len(buf.targets) # 0 /\ Len(buf.targets) \in Nat
        /\ \A i, k \in 1..Len(buf.targets) : i <= k => buf.targets[i] <= buf.targets[k]
    BY <1>2 DEF BufferOK
  <2>2. \A i \in 2..Len(buf.targets) : i - 1 \in 1..Len(buf.targets) /\ i \in 1..Len(buf.targets) /\ i - 1 <= i
    BY <2>1
  <2>3. buf.targets # <<>>
    BY <2>1
  <2> QED
    BY <2>1, <2>2, <2>3
<1>7. Promise!Ask
  BY <1>1, <1>4, <1>5, <1>6 DEF Promise!Ask
<1> QED
  BY <1>7 DEF Promise!Next

LEMMA NextClusterStutters == ASSUME DecoderOK, NextCluster PROVE UNCHANGED Promise!vars
<1>1. pc = "next" /\ place.target >= Len(Cluster) /\ UNCHANGED <<video, answer>>
  BY DEF NextCluster
<1>2. pc \in Working
  BY <1>1 DEF Working
<1> DEFINE c == place.cluster + 1
<1>3. /\ buffer # NoBuffer /\ BufferOK(buffer) /\ c \in 1..Len(buffer.clusters) /\ place.cluster \in Nat
      /\ Cluster = buffer.clusters[c] /\ Len(Cluster) \in Nat
      /\ place.target \in Nat /\ place.target <= Len(Cluster)
  BY <1>2, WorkingFacts
<1>4. Remaining = Left(buffer, c, Len(buffer.clusters[c]))
  <2>1. place.target = Len(buffer.clusters[c])
    BY <1>1, <1>3
  <2> QED
    BY <1>2, <2>1, WorkingLeft
<1>5. /\ c < Len(buffer.clusters) => Left(buffer, c + 1, 0) = Remaining
      /\ c = Len(buffer.clusters) => Remaining = <<>>
  <2> HIDE DEF c
  <2> QED
    BY <1>3, <1>4, LeftNext
<1>6. Len(buffer.clusters) \in Nat
  BY <1>3 DEF BufferOK, Pieces
<1>7. CASE c >= Len(buffer.clusters)
  <2>1. buffer' = NoBuffer /\ UNCHANGED outcome
    BY <1>7 DEF NextCluster
  <2>2. Remaining = <<>>
    <3> HIDE DEF c
    <3>1. c = Len(buffer.clusters)
      BY <1>3, <1>6, <1>7
    <3> QED
      BY <1>5, <3>1
  <2>3. Remaining' = <<>>
    BY <2>1, RemainingNext
  <2> QED
    BY <1>1, <2>1, <2>2, <2>3 DEF Promise!vars
<1>8. CASE ~(c >= Len(buffer.clusters))
  <2>1. StartCluster(buffer, place.cluster + 2) /\ UNCHANGED buffer
    BY <1>8 DEF NextCluster
  <2>2. place' = [cluster |-> (place.cluster + 2) - 1, target |-> 0] /\ UNCHANGED outcome
    BY <2>1 DEF StartCluster
  <2>3. place'.cluster + 1 = c + 1 /\ place'.target = 0
    BY <1>3, <2>2
  <2>4. Remaining' = Left(buffer, c + 1, 0)
    BY <1>3, <2>1, <2>3, RemainingNext
  <2>5. Left(buffer, c + 1, 0) = Remaining
    <3> HIDE DEF c
    <3>1. c < Len(buffer.clusters)
      BY <1>3, <1>6, <1>8
    <3> QED
      BY <1>5, <3>1
  <2> QED
    BY <1>1, <2>1, <2>2, <2>4, <2>5 DEF Promise!vars
<1> QED
  BY <1>7, <1>8

\* A budget that is exhausted: the video has more frames than its frame rate says, or too few keyframes.
LEMMA BudgetFails ==
    ASSUME DecoderOK, pc = "read", CodecHasFrame, seek.decoded + 1 > seek.budget
    PROVE  ~Promise!Regular
<1> DEFINE s == SeekKeyframe(SeekTick(seek.start))
           f == NextFrame
           latest == buffer.targets[Last(Cluster)]
<1>1. pc \in Working /\ place.target < Len(Cluster) /\ frames.current = 0
  BY DEF Working, DecoderOK, PlaceOK
<1>2. /\ Len(Cluster) \in Nat \ {0} /\ Last(Cluster) = Cluster[Len(Cluster)] /\ place.target \in Nat
      /\ \A i \in 1..Len(Cluster) : buffer.targets[Cluster[i]] \in Nat
      /\ \A i \in 1..Len(Cluster) : i > place.target => Behind(buffer.targets[Cluster[i]])
      /\ seek.budget = DecodeFrameBudget(seek.start, latest)
  BY <1>1, WorkingFacts
<1>3. latest \in Nat /\ Behind(latest)
  <2>1. Len(Cluster) \in 1..Len(Cluster) /\ Len(Cluster) > place.target
    BY <1>1, <1>2
  <2> QED
    BY <1>2, <2>1
<1>4. seek.start \in Nat
  BY <1>1, TargetFacts
<1>5. /\ IsVideo(video) /\ f \in 1..Len(video.pts) /\ f \in Nat /\ seek.decoded \in Nat
  BY FrameFacts, ReceiveIs
<1>6. /\ frames.previous # 0 => frames.previous = f - 1
      /\ frames.previous = 0 => seek.decoded = 0
      /\ f - seek.decoded = s
  BY <1>1, <1>4 DEF DecoderOK, FramesOK
<1>7. f >= s /\ seek.decoded = f - s
  <2> HIDE DEF s, f
  <2> QED
    BY <1>5, <1>6
<1>8. f > s => video.pts[f - 1] < latest
  <2>1. f > s => frames.previous # 0
    <3> HIDE DEF s, f
    <3> QED
      BY <1>5, <1>6
  <2>2. frames.previous # 0 => video.pts[frames.previous] < latest
    <3> HIDE DEF latest
    <3> QED
      BY <1>3 DEF Behind
  <2> QED
    BY <1>6, <2>1, <2>2
<1>9. ASSUME Promise!Regular PROVE FALSE
  <2>1. f - s + 1 <= DecodeFrameBudget(seek.start, latest)
    <3>1. PICK start : start = seek.start
      OBVIOUS
    <3>2. PICK k : k = f
      OBVIOUS
    <3>3. PICK u : u = latest
      OBVIOUS
    <3>4. start \in Nat /\ u \in Nat /\ k \in 1..Len(video.pts) /\ SeekKeyframe(SeekTick(start)) <= k
          /\ (k > SeekKeyframe(SeekTick(start)) => video.pts[k - 1] < u)
      BY <1>3, <1>4, <1>5, <1>7, <1>8, <3>1, <3>2, <3>3
    <3> HIDE DEF f, latest
    <3>5. k - SeekKeyframe(SeekTick(start)) + 1 <= DecodeFrameBudget(start, u)
      BY <1>5, <1>9, <3>4, BudgetReaches
    <3> QED
      BY <3>1, <3>2, <3>3, <3>5
  <2>2. DecodeFrameBudget(seek.start, latest) \in Nat
    BY <1>3, <1>4, SpanTyped
  <2>3. seek.decoded + 1 > DecodeFrameBudget(seek.start, latest)
    BY <1>2
  <2> HIDE DEF f, s, latest
  <2> QED
    BY <1>5, <1>7, <2>1, <2>2, <2>3
<1> QED
  BY <1>9

LEMMA DecoderStep == ASSUME DecoderOK, DecoderNext PROVE Promise!Next \/ UNCHANGED Promise!vars
<1>1. CASE Open
  <2>1. outcome = "ok" /\ UNCHANGED <<video, buffer, place, answer>> /\ outcome' \in {"ok", "fault"}
    BY <1>1 DEF Open
  <2>2. CASE outcome' = "ok"
    BY <2>1, <2>2, Stutters
  <2>3. CASE outcome' = "fault"
    <3>1. Remaining' = Remaining
      BY <2>1, RemainingSame
    <3> QED
      BY <2>1, <2>3, <3>1 DEF Promise!Next, Promise!GiveUp
  <2> QED
    BY <2>1, <2>2, <2>3
<1>2. CASE Close
  BY <1>2, Stutters DEF Close
<1>3. CASE \E request \in Requests : BeginBuffer(request)
  BY <1>3, BeginBufferAsks
<1>4. CASE NextCluster
  BY <1>4, NextClusterStutters
<1>5. CASE Select
  <2>1. /\ pc \in Working /\ place.target < Len(Cluster)
        /\ \E f \in 1..Len(video.pts) : Promise!IsNearest(f, Target) /\ Give(f)
    BY <1>5, SelectIs
  <2> QED
    BY <2>1, GiveAnswers
<1>6. CASE Advance
  BY <1>6, Stutters DEF Advance
<1>7. CASE SelectLast
  <2>1. /\ pc \in Working /\ place.target < Len(Cluster)
        /\ \/ Fail("fault")
           \/ \E f \in 1..Len(video.pts) : Promise!IsNearest(f, Target) /\ Give(f)
    BY <1>7, SelectLastIs
  <2>2. CASE Fail("fault")
    BY <2>1, <2>2, WorkingFacts, FailGivesUp
  <2>3. CASE \E f \in 1..Len(video.pts) : Promise!IsNearest(f, Target) /\ Give(f)
    BY <2>1, <2>3, GiveAnswers
  <2> QED
    BY <2>1, <2>2, <2>3
<1>8. CASE ReadFrame
  <2>1. pc = "read" /\ outcome = "ok"
    <3>1. pc = "read"
      BY <1>8 DEF ReadFrame, Receive, ReceiveEof, ReadPacket, Flush
    <3> QED
      BY <3>1 DEF DecoderOK, PlaceOK
  <2>2. CASE Receive
    <3>1. CASE seek.decoded + 1 > seek.budget
      <4>1. Fail("budget") /\ CodecHasFrame
        BY <2>2, <3>1 DEF Receive
      <4>2. ~Promise!Regular
        BY <2>1, <3>1, <4>1, BudgetFails
      <4> QED
        BY <2>1, <4>1, <4>2, FailGivesUp
    <3>2. CASE ~(seek.decoded + 1 > seek.budget)
      BY <2>2, <3>2, Stutters DEF Receive
    <3> QED
      BY <3>1, <3>2
  <2>3. CASE ReceiveEof
    BY <2>3, Stutters DEF ReceiveEof
  <2>4. CASE ReadPacket
    <3>1. CASE Fail("fault")
      BY <2>1, <3>1, FailGivesUp
    <3>2. CASE ~Fail("fault")
      BY <2>4, <3>2, Stutters DEF ReadPacket
    <3> QED
      BY <3>1, <3>2
  <2>5. CASE Flush
    BY <2>5, Stutters DEF Flush
  <2> QED
    BY <1>8, <2>2, <2>3, <2>4, <2>5 DEF ReadFrame
<1>9. CASE Interrupt
  <2>1. Fail("fault") /\ outcome = "ok"
    BY <1>9 DEF Interrupt, DecoderOK, PlaceOK
  <2> QED
    BY <2>1, FailGivesUp
<1>10. CASE QueryFailed
  BY <1>10, Stutters DEF QueryFailed, decoderVars
<1> QED
  BY <1>1, <1>2, <1>3, <1>4, <1>5, <1>6, <1>7, <1>8, <1>9, <1>10 DEF DecoderNext

LEMMA PromiseStep == ASSUME IInv, DecoderInv, [Next]_vars PROVE [Promise!Next]_(Promise!vars)
<1>1. CASE Publish
  <2>1. DecoderInit /\ DecoderInit'
    BY <1>1, PublishIs
  <2>2. Remaining = <<>> /\ Remaining' = <<>> /\ answer.frame = 0
    BY <2>1, RemainingIs, RemainingNext DEF DecoderInit
  <2>3. UNCHANGED <<answer, outcome>>
    BY <1>1 DEF Publish
  <2>4. Promise!Write
    BY <2>2, <2>3 DEF Promise!Write
  <2> QED
    BY <2>4 DEF Promise!Next
<1>2. CASE UNCHANGED decoderVars
  BY <1>2, Stutters DEF decoderVars
<1>3. CASE Query
  BY <1>3, DecoderStep DEF Query, DecoderInv
<1> QED
  BY <1>1, <1>2, <1>3 DEF Next, Copy, CopyFailed, vars

\* LerobotShardDecoder keeps the promise of NearestFrame, for any file, any requests and any
\* parameters: each target of a buffer gets the nearest frame and its pixels, once and in the
\* order of the timestamps, and a seek exhausts its budget only in an irregular video.
THEOREM NearestFrames == Spec => AnswersNearestFrame
<1>1. Init => Promise!Init
  BY RemainingIs DEF Init, DecoderInit, Promise!Init
<1>2. IInv /\ DecoderInv /\ [Next]_vars => [Promise!Next]_(Promise!vars)
  BY PromiseStep
<1>3. Spec => Promise!Init /\ [][Promise!Next]_(Promise!vars)
  BY <1>1, <1>2, Invariant, DecoderInvariant, PTL DEF Spec
<1> QED
  BY <1>3 DEF AnswersNearestFrame, Promise!Spec

-----------------------------------------------------------------------------
(* The rows of a file that COPY wrote are answered *)

\* The next target is the timestamp of a row.
AsksForRow ==
    \E e \in Episodes : \E n \in 0..(FrameCounts[e] - 1) : Head(Remaining) = TimestampOf(e, n)

\* A query of a file that COPY wrote refuses only a target that is no row of the file, and does
\* not exhaust the budget of a seek as long as rgb_gop is below the margin.
OwnRowsAnswered ==
    query = "SELECT" /\ video.shows # <<>> =>
       /\ Gop < SafetyMargin => outcome # "budget"
       /\ outcome = "unmatched" => Remaining # <<>> /\ ~AsksForRow

LEMMA KeyframeBefore ==
    \A m \in Nat : \A g \in Nat \ {0} :
       m % g \in 0..(g - 1) /\ m % g <= m /\ m - (m % g) \in Nat /\ (m - (m % g)) % g = 0
<1> SUFFICES ASSUME NEW m \in Nat, NEW g \in Nat \ {0}
             PROVE  m % g \in 0..(g - 1) /\ m % g <= m /\ m - (m % g) \in Nat /\ (m - (m % g)) % g = 0
  OBVIOUS
<1>1. m = g * (m \div g) + (m % g) /\ (m \div g) \in Nat /\ m % g \in 0..(g - 1)
  OBVIOUS
<1>2. g * (m \div g) \in Nat
  BY <1>1
<1>3. m - (m % g) = g * (m \div g) /\ m % g <= m
  BY <1>1, <1>2
<1>4. \A q \in Nat : (g * q) % g = 0
  OBVIOUS
<1> QED
  BY <1>1, <1>2, <1>3, <1>4

\* Each episode starts with a keyframe and has one every Gop frames.
LEMMA OwnFileRegular ==
    ASSUME video = FileOf(Joined[Len(FrameCounts)]), Gop < SafetyMargin
    PROVE  Promise!Regular
<1> DEFINE file == Joined[Len(FrameCounts)]
           n == Len(file)
<1>1. /\ n \in Nat /\ DOMAIN video.pts = 1..n /\ DOMAIN file = 1..n
      /\ \A k \in 1..n : video.pts[k] = (k - 1) * FrameDuration
  BY FileIs, JoinedAt
<1>2. Gop \in Nat \ {0} /\ SafetyMargin \in Nat /\ FrameDuration \in Nat \ {0}
  BY GopAssumption, LimitAssumption, TimeAssumption
<1>3. \A k \in 1..n : file[k].frame[2] % Gop = 0 => k \in video.keyframes
  BY <1>1 DEF FileOf
<1>4. \A k \in 1..n : \E e \in Episodes : \E m \in 0..(FrameCounts[e] - 1) : k = ShownAt(e, m) + 1
  BY FrameOfEpisode
<1>5. \A e \in Episodes : FrameCounts[e] \in Nat \ {0} /\ \A m \in 0..(FrameCounts[e] - 1) :
         ShownAt(e, m) = StartOf[e] + m /\ StartOf[e] \in Nat /\ ShownAt(e, m) + 1 \in 1..n
         /\ file[ShownAt(e, m) + 1].frame = <<e, m>>
  <2>1. \A e \in Episodes : FrameCounts[e] \in Nat \ {0} /\ StartOf[e] \in Nat
    BY EpisodesType, EpisodesAssumption, StartOfIs
  <2> QED
    BY <2>1, JoinedAt DEF ShownAt
<1> HIDE DEF file, n
<1>6. ASSUME NEW f \in 1..n, f > 1 PROVE video.pts[f] - video.pts[f - 1] >= FrameDuration
  <2> DEFINE i == f - 2
  <2>1. i \in Nat /\ f - 1 \in 1..n /\ (f - 1) - 1 = i /\ f - 1 = i + 1
    BY <1>1, <1>6
  <2>2. video.pts[f - 1] = ((f - 1) - 1) * FrameDuration /\ video.pts[f] = (f - 1) * FrameDuration
    BY <1>1, <2>1
  <2>3. video.pts[f - 1] = i * FrameDuration /\ video.pts[f] = (i + 1) * FrameDuration
    <3> HIDE DEF i
    <3> QED
      BY <2>1, <2>2
  <2> HIDE DEF i
  <2>4. (i + 1) * FrameDuration = i * FrameDuration + FrameDuration /\ i * FrameDuration \in Nat
    BY <1>2, <2>1
  <2> QED
    BY <1>2, <2>3, <2>4
<1>7. ASSUME NEW f \in 1..n, f >= SafetyMargin
      PROVE  \E k \in (f - SafetyMargin + 2)..f : k \in video.keyframes
  <2>1. PICK e \in Episodes : \E m \in 0..(FrameCounts[e] - 1) : f = ShownAt(e, m) + 1
    BY <1>4
  <2>2. PICK m \in 0..(FrameCounts[e] - 1) : f = ShownAt(e, m) + 1
    BY <2>1
  <2> DEFINE r == m % Gop
             l == m - r
             k == ShownAt(e, l) + 1
  <2>3. m \in Nat /\ r \in 0..(Gop - 1) /\ r <= m /\ l \in Nat /\ l % Gop = 0
    <3>1. m \in Nat
      BY <1>5
    <3>2. Gop \in Nat \ {0}
      BY <1>2
    <3> QED
      BY <3>1, <3>2, KeyframeBefore, Zenon
  <2>4. l \in 0..(FrameCounts[e] - 1)
    <3>1. FrameCounts[e] \in Nat \ {0} /\ m <= FrameCounts[e] - 1
      BY <1>5
    <3>2. l <= m
      BY <2>3
    <3> HIDE DEF l
    <3> QED
      BY <2>3, <3>1, <3>2
  <2>5. k \in 1..n /\ k = StartOf[e] + l + 1 /\ file[k].frame = <<e, l>> /\ f = StartOf[e] + m + 1
        /\ StartOf[e] \in Nat
    <3> HIDE DEF l
    <3> QED
      BY <1>5, <2>2, <2>4
  <2>6. k \in video.keyframes
    <3> HIDE DEF k, l
    <3> QED
      BY <1>3, <2>3, <2>5
  <2>7. k = f - r
    <3>1. l = m - r
      OBVIOUS
    <3> HIDE DEF k, l, r
    <3> QED
      BY <2>3, <2>5, <3>1
  <2>8. k \in (f - SafetyMargin + 2)..f
    <3>1. r \in 0..(Gop - 1)
      BY <2>3
    <3>2. f \in Int
      BY <1>1
    <3> HIDE DEF k, l, r
    <3>3. r \in Int /\ 0 <= r /\ r <= SafetyMargin - 2 /\ SafetyMargin \in Int
      BY <1>2, <3>1
    <3> QED
      BY <2>7, <3>2, <3>3
  <2> QED
    BY <2>6, <2>8
<1> QED
  BY <1>1, <1>6, <1>7 DEF Promise!Regular

\* A step that NearestFrame takes keeps it while the file stays the same.
LEMMA PromiseKeepsAnswers ==
    ASSUME DecoderInv, OwnRowsAnswered, [Promise!Next]_(Promise!vars), UNCHANGED <<query, video>>
    PROVE  OwnRowsAnswered'
<1> SUFFICES ASSUME query = "SELECT", video.shows # <<>>
             PROVE  /\ Gop < SafetyMargin => outcome' # "budget"
                    /\ outcome' = "unmatched" => Remaining' # <<>> /\ ~AsksForRow'
  BY DEF OwnRowsAnswered
<1> DEFINE file == Joined[Len(FrameCounts)]
<1>1. /\ Gop < SafetyMargin => outcome # "budget"
      /\ outcome = "unmatched" => Remaining # <<>> /\ ~AsksForRow
  BY DEF OwnRowsAnswered
<1>2. video = FileOf(file)
  BY VideosAssumption DEF DecoderInv, QueryOK
<1>3. UNCHANGED Remaining => AsksForRow' = AsksForRow
  BY DEF AsksForRow
<1>4. CASE UNCHANGED <<outcome, Remaining>>
  BY <1>1, <1>3, <1>4
<1>5. CASE Promise!Write \/ Promise!Ask \/ Promise!Answer
  <2>1. Remaining = <<>> \/ outcome = "ok"
    BY <1>5 DEF Promise!Write, Promise!Ask, Promise!Answer
  <2>2. outcome' = outcome
    BY <1>5 DEF Promise!Write, Promise!Ask, Promise!Answer
  <2> QED
    BY <1>1, <2>1, <2>2
<1>6. CASE Promise!Refuse
  <2>1. /\ Remaining # <<>> /\ UNCHANGED Remaining /\ outcome' = "unmatched"
        /\ \A f \in DOMAIN video.pts : Promise!Distance(f, Head(Remaining)) > Tolerance
    BY <1>6 DEF Promise!Refuse
  <2>2. ASSUME NEW e \in Episodes, NEW n \in 0..(FrameCounts[e] - 1), Head(Remaining) = TimestampOf(e, n)
        PROVE  FALSE
    <3> DEFINE g == ShownAt(e, n) + 1
               t == Head(Remaining)
    <3>1. /\ DOMAIN video.pts = 1..Len(file)
          /\ \A k \in 1..Len(file) : video.pts[k] = (k - 1) * FrameDuration
      BY <1>2, FileIs
    <3>2. ShownAt(e, n) \in Nat /\ g \in 1..Len(file) /\ g - 1 = ShownAt(e, n)
      BY JoinedAt
    <3>3. video.pts[g] = t
      <4>1. video.pts[g] = (g - 1) * FrameDuration
        BY <3>1, <3>2
      <4> HIDE DEF g
      <4> QED
        BY <2>2, <3>2, <4>1 DEF TimestampOf
    <3>4. t \in Nat
      <4>1. \A x, y \in Nat : x * y \in Nat
        OBVIOUS
      <4> QED
        BY <2>2, <3>2, <4>1, TimeAssumption DEF TimestampOf
    <3> HIDE DEF g, t
    <3>5. Promise!Distance(g, t) = 0
      BY <3>3, <3>4 DEF Promise!Distance
    <3>6. Promise!Distance(g, t) > Tolerance
      BY <2>1, <3>1, <3>2 DEF t
    <3> QED
      BY <3>5, <3>6, TimeAssumption
  <2>3. ~AsksForRow
    BY <2>2 DEF AsksForRow
  <2> QED
    BY <1>3, <2>1, <2>3
<1>7. CASE Promise!GiveUp
  <2>1. UNCHANGED Remaining /\ (outcome' = "fault" \/ (outcome' = "budget" /\ ~Promise!Regular))
    BY <1>7 DEF Promise!GiveUp
  <2>2. Gop < SafetyMargin => outcome' # "budget"
    BY <1>2, <2>1, OwnFileRegular
  <2> QED
    BY <2>1, <2>2
<1> QED
  BY <1>4, <1>5, <1>6, <1>7 DEF Promise!Next, Promise!vars

\* LerobotVisualWriter and LerobotShardDecoder agree: whatever rows of a published file are
\* asked for, in any order and any buffers, the decoder finds each within the tolerance, and,
\* if rgb_gop is below the margin of the budget, without exhausting the budget of a seek.
THEOREM OwnRowsFound == Spec => []OwnRowsAnswered
<1>1. ASSUME Init PROVE OwnRowsAnswered
  <2>1. outcome = "ok"
    BY <1>1 DEF Init, DecoderInit
  <2> QED
    BY <2>1 DEF OwnRowsAnswered
<1>2. ASSUME IInv, DecoderInv, [Next]_vars, OwnRowsAnswered PROVE OwnRowsAnswered'
  <2>1. CASE Publish
    <3>1. DecoderInit'
      BY <1>2, <2>1, PublishIs
    <3>2. outcome' = "ok"
      BY <3>1 DEF DecoderInit
    <3> QED
      BY <3>2 DEF OwnRowsAnswered
  <2>2. CASE ~Publish
    <3>1. [Promise!Next]_(Promise!vars)
      BY <1>2, PromiseStep
    <3>2. UNCHANGED <<query, video>>
      <4>1. CASE Copy \/ CopyFailed \/ UNCHANGED vars
        BY <4>1 DEF Copy, CopyFailed, vars, decoderVars
      <4>2. CASE Query
        BY <4>2, VideoStays DEF Query
      <4> QED
        BY <1>2, <2>2, <4>1, <4>2 DEF Next
    <3> QED
      BY <1>2, <3>1, <3>2, PromiseKeepsAnswers
  <2> QED
    BY <2>1, <2>2
<1> QED
  BY <1>1, <1>2, Invariant, DecoderInvariant, PTL DEF Spec
=============================================================================
