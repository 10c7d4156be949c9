---------------------------- MODULE XskRxProofs -----------------------------
(***************************************************************************)
(* Theorems about XskRx, for every number of frames, every ring size,      *)
(* caller and kernel: its inductive invariant and what follows from it,    *)
(* and the order of its frames and packets, as far as the kernel keeps it. *)
(***************************************************************************)
EXTENDS XskRx, SequenceTheorems, TLAPS

\* A leaf that names no prover is tried with SMT, with Zenon, and with SMT
\* again, given more time.
USE SMT, Zenon, SMTT(30), SMTT(40)

-----------------------------------------------------------------------------
(* Sequences without duplicates: rings on which no frame appears twice     *)

\* Frames put at the end of a ring none of them is on.
LEMMA ConcatDistinct ==
  ASSUME NEW S, NEW s \in Seq(S), NEW t \in Seq(S)
  PROVE  /\ s \o t \in Seq(S) /\ Len(s \o t) = Len(s) + Len(t)
         /\ Range(s \o t) = Range(s) \cup Range(t)
         /\ IsInjective(s) /\ IsInjective(t) /\ Range(s) \cap Range(t) = {}
              => IsInjective(s \o t)
<1>1. /\ s \o t \in Seq(S) /\ Len(s \o t) = Len(s) + Len(t)
      /\ \A i \in 1 .. Len(s) + Len(t) :
           (s \o t)[i] = IF i <= Len(s) THEN s[i] ELSE t[i - Len(s)]
  BY ConcatProperties
<1>2. /\ DOMAIN s = 1 .. Len(s) /\ DOMAIN t = 1 .. Len(t) /\ Len(s) \in Nat /\ Len(t) \in Nat
      /\ DOMAIN (s \o t) = 1 .. Len(s) + Len(t)
  BY <1>1
<1> DEFINE st == s \o t
<1> HIDE DEF st
<1>3. Range(st) = Range(s) \cup Range(t)
  <2>1. ASSUME NEW i \in 1 .. Len(s) PROVE s[i] \in Range(st)
    BY <1>1, <1>2 DEF Range, st
  <2>2. ASSUME NEW i \in 1 .. Len(t) PROVE t[i] \in Range(st)
    <3>1. i + Len(s) \in DOMAIN st /\ st[i + Len(s)] = t[i]
      BY <1>1, <1>2 DEF st
    <3> QED BY <3>1 DEF Range
  <2>3. ASSUME NEW i \in DOMAIN st PROVE st[i] \in Range(s) \cup Range(t)
    BY <1>1, <1>2 DEF Range, st
  <2> QED BY <1>2, <2>1, <2>2, <2>3 DEF Range
<1>4. ASSUME IsInjective(s), IsInjective(t), Range(s) \cap Range(t) = {}
      PROVE  IsInjective(st)
  <2> SUFFICES ASSUME NEW i \in DOMAIN st, NEW j \in DOMAIN st, st[i] = st[j]
               PROVE  i = j
    BY DEF IsInjective
  <2>1. \A k \in 1 .. Len(s) : s[k] \in Range(s)
    BY <1>2 DEF Range
  <2>2. \A k \in 1 .. Len(t) : t[k] \in Range(t)
    BY <1>2 DEF Range
  <2>3. i \in 1 .. Len(s) + Len(t) /\ j \in 1 .. Len(s) + Len(t)
    BY <1>2 DEF st
  <2>4. CASE i <= Len(s) /\ j <= Len(s)
    BY <1>1, <1>2, <1>4, <2>3, <2>4 DEF IsInjective, st
  <2>5. CASE i > Len(s) /\ j > Len(s)
    <3>1. i - Len(s) \in DOMAIN t /\ j - Len(s) \in DOMAIN t /\ t[i - Len(s)] = t[j - Len(s)]
      BY <1>1, <1>2, <2>3, <2>5 DEF st
    <3>2. i - Len(s) = j - Len(s)
      BY <1>4, <3>1 DEF IsInjective
    <3> QED BY <1>2, <2>3, <3>2
  <2>6. CASE i <= Len(s) /\ j > Len(s)
    <3>1. st[i] \in Range(s) /\ st[j] \in Range(t)
      BY <1>1, <1>2, <2>1, <2>2, <2>3, <2>6 DEF st
    <3> QED BY <1>4, <3>1
  <2>7. CASE i > Len(s) /\ j <= Len(s)
    <3>1. st[j] \in Range(s) /\ st[i] \in Range(t)
      BY <1>1, <1>2, <2>1, <2>2, <2>3, <2>7 DEF st
    <3> QED BY <1>4, <3>1
  <2> QED BY <1>2, <2>3, <2>4, <2>5, <2>6, <2>7
<1> QED BY <1>1, <1>3, <1>4 DEF st

\* A frame put at the end of a ring it is not on.
LEMMA AppendDistinct ==
  ASSUME NEW S, NEW s \in Seq(S), NEW e \in S
  PROVE  /\ Append(s, e) \in Seq(S) /\ Len(Append(s, e)) = Len(s) + 1
         /\ Range(Append(s, e)) = Range(s) \cup {e}
         /\ IsInjective(s) /\ e \notin Range(s) => IsInjective(Append(s, e))
<1>1. Append(s, e) = s \o <<e>>
  BY AppendIsConcat
<1> DEFINE t == <<e>>
<1>2. t \in Seq(S) /\ Len(t) = 1 /\ Range(t) = {e} /\ IsInjective(t)
  BY DEF Range, IsInjective
<1> HIDE DEF t
<1>3. /\ s \o t \in Seq(S) /\ Len(s \o t) = Len(s) + Len(t)
      /\ Range(s \o t) = Range(s) \cup Range(t)
      /\ IsInjective(s) /\ IsInjective(t) /\ Range(s) \cap Range(t) = {}
           => IsInjective(s \o t)
  BY <1>2, ConcatDistinct, Zenon
<1>4. Append(s, e) = s \o t
  BY <1>1 DEF t
<1>5. e \notin Range(s) => Range(s) \cap Range(t) = {}
  BY <1>2
<1> QED BY <1>2, <1>3, <1>4, <1>5

\* The first n entries of a ring without duplicates, and the others.
LEMMA SplitDistinct ==
  ASSUME NEW S, NEW s \in Seq(S), NEW n \in 0 .. Len(s)
  PROVE  LET a == SubSeq(s, 1, n)
             b == SubSeq(s, n + 1, Len(s))
         IN  /\ a \in Seq(S) /\ Len(a) = n /\ \A i \in 1 .. n : a[i] = s[i]
             /\ b \in Seq(S) /\ Len(b) = Len(s) - n
             /\ \A i \in 1 .. Len(s) - n : b[i] = s[n + i]
             /\ Range(s) = Range(a) \cup Range(b)
             /\ IsInjective(s) => /\ IsInjective(a) /\ IsInjective(b)
                                  /\ Range(a) \cap Range(b) = {}
<1> DEFINE a == SubSeq(s, 1, n)
           b == SubSeq(s, n + 1, Len(s))
<1>0. Len(s) \in Nat /\ n \in Nat /\ n <= Len(s)
  BY LenProperties
<1>1. /\ Len(s) \in Nat /\ DOMAIN s = 1 .. Len(s) /\ \A i \in 1 .. Len(s) : s[i] \in S
  BY LenProperties
<1>2. a \in Seq(S) /\ Len(a) = n /\ \A i \in 1 .. n : a[i] = s[i]
  BY <1>1, SubSeqProperties
<1>3. b \in Seq(S) /\ Len(b) = Len(s) - n /\ \A i \in 1 .. Len(s) - n : b[i] = s[n + i]
  <2>1. n + 1 \in Int /\ Len(s) \in Int /\ \A i \in n + 1 .. Len(s) : s[i] \in S
    BY <1>1
  <2>2. /\ b \in Seq(S) /\ Len(b) = IF n + 1 <= Len(s) THEN Len(s) - (n + 1) + 1 ELSE 0
        /\ \A i \in 1 .. Len(s) - (n + 1) + 1 : b[i] = s[n + 1 + i - 1]
    BY <2>1, SubSeqProperties
  <2> HIDE DEF b
  <2>3. Len(b) = Len(s) - n
    <3>1. CASE n + 1 <= Len(s)
      BY <1>1, <2>2, <3>1
    <3>2. CASE n = Len(s)
      BY <1>1, <2>2, <3>2
    <3>3. n + 1 <= Len(s) \/ n = Len(s)
      BY <1>0
    <3> QED BY <3>1, <3>2, <3>3
  <2>4. ASSUME NEW i \in 1 .. Len(s) - n PROVE b[i] = s[n + i]
    <3>1. i \in 1 .. Len(s) - (n + 1) + 1 /\ n + 1 + i - 1 = n + i
      BY <1>1
    <3> QED BY <2>2, <3>1
  <2> QED BY <2>2, <2>3, <2>4
<1> HIDE DEF a, b
<1>4. DOMAIN a = 1 .. n /\ DOMAIN b = 1 .. Len(s) - n
  BY <1>2, <1>3
<1>5. Range(s) = Range(a) \cup Range(b)
  <2>1. ASSUME NEW i \in 1 .. Len(s) PROVE s[i] \in Range(a) \cup Range(b)
    <3>1. CASE i <= n
      BY <1>2, <1>4, <3>1 DEF Range
    <3>2. CASE i > n
      <4>1. i - n \in DOMAIN b /\ b[i - n] = s[i]
        BY <1>1, <1>3, <1>4, <3>2
      <4> QED BY <4>1 DEF Range
    <3> QED BY <1>1, <3>1, <3>2
  <2>2. \A i \in DOMAIN a : a[i] \in Range(s)
    BY <1>1, <1>2, <1>4 DEF Range
  <2>3. \A i \in DOMAIN b : b[i] \in Range(s)
    BY <1>1, <1>3, <1>4 DEF Range
  <2> QED BY <1>1, <2>1, <2>2, <2>3 DEF Range
<1>6. ASSUME IsInjective(s)
      PROVE  IsInjective(a) /\ IsInjective(b) /\ Range(a) \cap Range(b) = {}
  <2>1. IsInjective(a)
    BY <1>1, <1>2, <1>4, <1>6 DEF IsInjective
  <2>2. IsInjective(b)
    <3> SUFFICES ASSUME NEW i \in DOMAIN b, NEW j \in DOMAIN b, b[i] = b[j] PROVE i = j
      BY DEF IsInjective
    <3>1. n + i \in DOMAIN s /\ n + j \in DOMAIN s /\ s[n + i] = s[n + j]
      BY <1>1, <1>3, <1>4
    <3>2. n + i = n + j
      BY <1>6, <3>1 DEF IsInjective
    <3> QED BY <1>4, <3>2
  <2>3. ASSUME NEW i \in DOMAIN a, NEW j \in DOMAIN b, a[i] = b[j] PROVE FALSE
    <3>1. i \in DOMAIN s /\ n + j \in DOMAIN s /\ s[i] = s[n + j] /\ i # n + j
      BY <1>1, <1>2, <1>3, <1>4, <2>3
    <3> QED BY <1>6, <3>1 DEF IsInjective
  <2> QED BY <2>1, <2>2, <2>3 DEF Range
<1> QED BY <1>2, <1>3, <1>5, <1>6 DEF a, b

\* The kernel takes the first frame of a ring.
LEMMA TailDistinct ==
  ASSUME NEW S, NEW s \in Seq(S), s # <<>>
  PROVE  /\ Head(s) \in S /\ Tail(s) \in Seq(S) /\ Len(Tail(s)) = Len(s) - 1
         /\ Range(s) = {Head(s)} \cup Range(Tail(s))
         /\ IsInjective(s) => IsInjective(Tail(s)) /\ Head(s) \notin Range(Tail(s))
<1> DEFINE n == 1
           a == SubSeq(s, 1, n)
           b == SubSeq(s, n + 1, Len(s))
<1>1. Len(s) \in Nat /\ Len(s) >= 1 /\ n \in 0 .. Len(s)
  BY LenProperties, EmptySeq
<1>2. Tail(s) = b /\ Head(s) = s[1] /\ s[1] \in S
  BY <1>1, TailIsSubSeq
<1>n. n = 1
  OBVIOUS
<1> HIDE DEF n
<1>3. /\ a \in Seq(S) /\ Len(a) = n /\ \A i \in 1 .. n : a[i] = s[i]
      /\ b \in Seq(S) /\ Len(b) = Len(s) - n
      /\ Range(s) = Range(a) \cup Range(b)
      /\ IsInjective(s) => IsInjective(b) /\ Range(a) \cap Range(b) = {}
  BY <1>1, SplitDistinct
<1> HIDE DEF a, b
<1>4. DOMAIN a = {1} /\ a[1] = s[1]
  BY <1>3, <1>n
<1>5. Range(a) = {Head(s)}
  BY <1>2, <1>4 DEF Range
<1> QED BY <1>2, <1>3, <1>5, <1>n, Zenon

\* s without its i-th element.
Without(s, i) == SubSeq(s, 1, i - 1) \o SubSeq(s, i + 1, Len(s))

\* The kernel uses one of the frames it holds.
LEMMA RemoveDistinct ==
  ASSUME NEW S, NEW s \in Seq(S), NEW i \in 1 .. Len(s)
  PROVE  /\ Without(s, i) \in Seq(S) /\ Len(Without(s, i)) = Len(s) - 1
         /\ Range(s) = {s[i]} \cup Range(Without(s, i))
         /\ IsInjective(s) => IsInjective(Without(s, i)) /\ s[i] \notin Range(Without(s, i))
<1> DEFINE a == SubSeq(s, 1, i - 1)
           m == SubSeq(s, i - 1 + 1, Len(s))
           b == SubSeq(s, i + 1, Len(s))
<1>0. Len(s) \in Nat /\ i \in 0 .. Len(s) /\ i - 1 \in 0 .. Len(s) /\ i \in Int
  BY LenProperties
<1>1. /\ a \in Seq(S) /\ Len(a) = i - 1 /\ m \in Seq(S) /\ Len(m) = Len(s) - (i - 1)
      /\ \A j \in 1 .. Len(s) - (i - 1) : m[j] = s[i - 1 + j]
      /\ Range(s) = Range(a) \cup Range(m)
      /\ IsInjective(s) => /\ IsInjective(a) /\ IsInjective(m)
                           /\ Range(a) \cap Range(m) = {}
  BY <1>0, SplitDistinct
<1>2. /\ b \in Seq(S) /\ Len(b) = Len(s) - i
      /\ \A j \in 1 .. Len(s) - i : b[j] = s[i + j]
      /\ IsInjective(s) => IsInjective(b)
  BY <1>0, SplitDistinct
<1>r. Without(s, i) = a \o b
  BY DEF Without
<1> HIDE DEF a, m, b
<1>3. /\ m # <<>> /\ m[1] = s[i]
      /\ Head(m) = s[i] /\ Len(Tail(m)) = Len(b) /\ Tail(m) \in Seq(S)
      /\ \A j \in 1 .. Len(b) : Tail(m)[j] = b[j]
  <2>1. Len(m) >= 1 /\ m # <<>> /\ m[1] = s[i - 1 + 1] /\ i - 1 + 1 = i
    BY <1>0, <1>1
  <2>2. /\ Head(m) = m[1] /\ Tail(m) \in Seq(S) /\ Len(Tail(m)) = Len(m) - 1
        /\ \A j \in 1 .. Len(Tail(m)) : Tail(m)[j] = m[j + 1]
    BY <1>1, <2>1, HeadTailProperties
  <2>3. Len(Tail(m)) = Len(b)
    BY <1>0, <1>1, <1>2, <2>2
  <2>4. ASSUME NEW j \in 1 .. Len(b) PROVE Tail(m)[j] = b[j]
    <3>1. j + 1 \in 1 .. Len(s) - (i - 1) /\ i - 1 + (j + 1) = i + j /\ j \in 1 .. Len(s) - i
      BY <1>0, <1>2
    <3> QED BY <1>1, <1>2, <2>2, <2>3, <3>1, Zenon
  <2> QED BY <2>1, <2>2, <2>3, <2>4
<1>4. Tail(m) = b
  BY <1>2, <1>3, SeqEqual, Zenon
<1>5. /\ Range(m) = {s[i]} \cup Range(b)
      /\ IsInjective(m) => s[i] \notin Range(b)
  <2>1. /\ Range(m) = {Head(m)} \cup Range(Tail(m))
        /\ IsInjective(m) => IsInjective(Tail(m)) /\ Head(m) \notin Range(Tail(m))
    BY <1>1, <1>3, TailDistinct, Zenon
  <2> QED BY <1>3, <1>4, <2>1, Zenon
<1>6. /\ a \o b \in Seq(S) /\ Len(a \o b) = Len(a) + Len(b)
      /\ Range(a \o b) = Range(a) \cup Range(b)
      /\ IsInjective(a) /\ IsInjective(b) /\ Range(a) \cap Range(b) = {}
           => IsInjective(a \o b)
  BY <1>1, <1>2, ConcatDistinct, Zenon
<1>7. Len(a \o b) = Len(s) - 1
  BY <1>0, <1>1, <1>2, <1>6
<1>8. Range(s) = {s[i]} \cup Range(a \o b)
  BY <1>1, <1>5, <1>6
<1>9. ASSUME IsInjective(s) PROVE IsInjective(a \o b) /\ s[i] \notin Range(a \o b)
  BY <1>1, <1>2, <1>5, <1>6, <1>9
<1> QED BY <1>r, <1>6, <1>7, <1>8, <1>9

-----------------------------------------------------------------------------
(* Rings of descriptors                                                    *)

\* Every descriptor of Descs names a frame of F.
Describe(Descs, F) == \A d \in Descs : d.frame \in F

FramesOf(q) == [i \in 1 .. Len(q) |-> q[i].frame]

\* The frames of a ring of descriptors.
LEMMA FramesOfRing ==
  ASSUME NEW F, NEW Descs, Describe(Descs, F), NEW q \in Seq(Descs)
  PROVE  /\ FramesOf(q) \in Seq(F) /\ Len(FramesOf(q)) = Len(q) /\ Len(q) \in Nat
         /\ \A i \in 1 .. Len(q) : /\ q[i] \in Descs /\ q[i].frame \in F
                                  /\ FramesOf(q)[i] = q[i].frame
<1>0. Len(q) \in Nat /\ \A i \in 1 .. Len(q) : q[i] \in Descs /\ q[i].frame \in F
  <2>1. Len(q) \in Nat /\ \A i \in 1 .. Len(q) : q[i] \in Descs
    BY LenProperties
  <2> QED BY <2>1 DEF Describe
<1>1. FramesOf(q) \in [1 .. Len(q) -> F]
  BY <1>0 DEF FramesOf
<1> QED BY <1>0, <1>1 DEF FramesOf

\* What is left of a ring after its first n descriptors are read.
LEMMA FramesOfRest ==
  ASSUME NEW F, NEW Descs, Describe(Descs, F), NEW q \in Seq(Descs),
         NEW n \in 0 .. Len(q)
  PROVE  /\ SubSeq(q, n + 1, Len(q)) \in Seq(Descs)
         /\ Len(SubSeq(q, n + 1, Len(q))) = Len(q) - n
         /\ \A i \in 1 .. Len(q) - n : SubSeq(q, n + 1, Len(q))[i] = q[n + i]
         /\ FramesOf(SubSeq(q, n + 1, Len(q))) = SubSeq(FramesOf(q), n + 1, Len(q))
<1> DEFINE w == FramesOf(q)
           r == SubSeq(q, n + 1, Len(q))
           v == SubSeq(w, n + 1, Len(w))
<1>w. /\ w \in Seq(F) /\ Len(w) = Len(q) /\ Len(q) \in Nat
      /\ \A i \in 1 .. Len(q) : q[i].frame \in F /\ w[i] = q[i].frame
  <2>1. /\ FramesOf(q) \in Seq(F) /\ Len(FramesOf(q)) = Len(q) /\ Len(q) \in Nat
        /\ \A i \in 1 .. Len(q) : /\ q[i] \in Descs /\ q[i].frame \in F
                                 /\ FramesOf(q)[i] = q[i].frame
    BY FramesOfRing
  <2> QED BY <2>1
<1> HIDE DEF w
<1>0. n \in Nat /\ n <= Len(q) /\ n \in 0 .. Len(w)
  BY <1>w
<1>1. r \in Seq(Descs) /\ Len(r) = Len(q) - n /\ \A i \in 1 .. Len(q) - n : r[i] = q[n + i]
  BY SplitDistinct
<1>2. v \in Seq(F) /\ Len(v) = Len(w) - n /\ \A i \in 1 .. Len(w) - n : v[i] = w[n + i]
  BY <1>w, <1>0, SplitDistinct
<1>3. v = SubSeq(w, n + 1, Len(q))
  BY <1>w
<1> HIDE DEF r, v
<1>4. ASSUME NEW i \in 1 .. Len(r) PROVE r[i].frame = v[i]
  <2>1. i \in 1 .. Len(q) - n /\ n + i \in 1 .. Len(q)
    BY <1>w, <1>0, <1>1
  <2> QED BY <1>w, <1>1, <1>2, <2>1
<1>5. /\ FramesOf(r) \in Seq(F) /\ Len(FramesOf(r)) = Len(r)
      /\ \A i \in 1 .. Len(r) : FramesOf(r)[i] = r[i].frame
  <2>1. /\ FramesOf(r) \in Seq(F) /\ Len(FramesOf(r)) = Len(r) /\ Len(r) \in Nat
        /\ \A i \in 1 .. Len(r) : /\ r[i] \in Descs /\ r[i].frame \in F
                                 /\ FramesOf(r)[i] = r[i].frame
    BY <1>1, FramesOfRing
  <2> QED BY <2>1
<1>6. Len(FramesOf(r)) = Len(v)
  BY <1>w, <1>1, <1>2, <1>5
<1>7. \A i \in 1 .. Len(FramesOf(r)) : FramesOf(r)[i] = v[i]
  BY <1>4, <1>5
<1>8. FramesOf(r) = v
  BY <1>2, <1>5, <1>6, <1>7, SeqEqual, Zenon
<1> QED BY <1>1, <1>3, <1>8 DEF r, w

\* A ring with one more descriptor.
LEMMA FramesOfAppend ==
  ASSUME NEW F, NEW Descs, Describe(Descs, F), NEW q \in Seq(Descs),
         NEW d \in Descs
  PROVE  /\ Append(q, d) \in Seq(Descs) /\ Len(Append(q, d)) = Len(q) + 1
         /\ \A i \in 1 .. Len(q) : Append(q, d)[i] = q[i]
         /\ Append(q, d)[Len(q) + 1] = d
         /\ FramesOf(Append(q, d)) = Append(FramesOf(q), d.frame)
<1> DEFINE w == FramesOf(q)
           r == Append(q, d)
           v == Append(w, d.frame)
<1>w. /\ w \in Seq(F) /\ Len(w) = Len(q) /\ Len(q) \in Nat
      /\ \A i \in 1 .. Len(q) : q[i].frame \in F /\ w[i] = q[i].frame
  <2>1. /\ FramesOf(q) \in Seq(F) /\ Len(FramesOf(q)) = Len(q) /\ Len(q) \in Nat
        /\ \A i \in 1 .. Len(q) : /\ q[i] \in Descs /\ q[i].frame \in F
                                 /\ FramesOf(q)[i] = q[i].frame
    BY FramesOfRing
  <2> QED BY <2>1
<1> HIDE DEF w
<1>1. /\ r \in Seq(Descs) /\ Len(r) = Len(q) + 1 /\ r[Len(q) + 1] = d
      /\ \A i \in 1 .. Len(q) : r[i] = q[i]
  BY AppendProperties
<1>2. /\ v \in Seq(F) /\ Len(v) = Len(w) + 1 /\ v[Len(w) + 1] = d.frame
      /\ \A i \in 1 .. Len(w) : v[i] = w[i]
  <2>1. d.frame \in F
    BY DEF Describe
  <2> QED BY <1>w, <2>1, AppendProperties
<1> HIDE DEF r, v
<1>4. ASSUME NEW i \in 1 .. Len(r) PROVE r[i].frame = v[i]
  <2>1. i \in 1 .. Len(q) \/ i = Len(q) + 1
    BY <1>w, <1>1
  <2> QED BY <1>w, <1>1, <1>2, <2>1
<1>5. /\ FramesOf(r) \in Seq(F) /\ Len(FramesOf(r)) = Len(r)
      /\ \A i \in 1 .. Len(r) : FramesOf(r)[i] = r[i].frame
  <2>1. /\ FramesOf(r) \in Seq(F) /\ Len(FramesOf(r)) = Len(r) /\ Len(r) \in Nat
        /\ \A i \in 1 .. Len(r) : /\ r[i] \in Descs /\ r[i].frame \in F
                                 /\ FramesOf(r)[i] = r[i].frame
    BY <1>1, FramesOfRing
  <2> QED BY <2>1
<1>6. Len(FramesOf(r)) = Len(v)
  BY <1>w, <1>1, <1>2, <1>5
<1>7. \A i \in 1 .. Len(FramesOf(r)) : FramesOf(r)[i] = v[i]
  BY <1>4, <1>5
<1>8. FramesOf(r) = v
  BY <1>2, <1>5, <1>6, <1>7, SeqEqual
<1> QED BY <1>1, <1>8 DEF r, v, w

-----------------------------------------------------------------------------
(* The inductive invariant                                                 *)

Descs  == [frame : Frames, len : Nat]
Filled == {f \in Frames : status[f] = "Filled"}

\* No frame is twice with the kernel, none is with the kernel and with the
\* user, and none of a batch is processed twice.
Apart ==
  /\ IsInjective(fillq) /\ IsInjective(held) /\ IsInjective(RxFrames)
  /\ IsInjective(processed)
  /\ Range(fillq) \cap Range(held) = {}
  /\ (Range(fillq) \cup Range(held)) \cap Range(RxFrames) = {}
  /\ (Filled \cup Range(processed))
       \cap (Range(fillq) \cup Range(held) \cup Range(RxFrames)) = {}

\* What the loops that refill the ring work on.
Processing ==
  /\ pc = "idle" => processed = <<>>
  /\ pc = "refill" => processed = <<rx_cursor>> /\ rx_cursor \in Filled
  /\ pc = "refill_batch" => Range(processed) \cap Filled = {}

\* The length of a packet is where it should be: in its descriptor, then in
\* its frame.
LengthsRight ==
  /\ \A i \in 1 .. Len(rxq) : umem[rxq[i].frame] = rxq[i].len
  /\ \A f \in Filled : umem[f] = len[f]

\* Nothing is lost, and the counters say where the frames are.
Accounted ==
  /\ Frames = Filled \cup Range(processed)
                \cup Range(fillq) \cup Range(held) \cup Range(RxFrames)
  /\ n_frames_to_be_filled = Len(fillq) + Len(held) + Len(rxq)
  /\ pkts_rx + n_frames_to_be_filled = pkts_rx_delivered + NRxFrames

RxInv ==
  /\ RxTypeOK /\ DeliveredIntact
  /\ pc \notin Panics => /\ Apart /\ Processing /\ LengthsRight
                         /\ NRxFrames <= FillQueueSize => Accounted

\* The rx ring as a sequence of frames.
LEMMA RxRing ==
  ASSUME RxTypeOK
  PROVE  /\ Describe(Descs, Frames)
         /\ rxq \in Seq(Descs) /\ Len(rxq) \in Nat /\ RxFrames = FramesOf(rxq)
         /\ RxFrames \in Seq(Frames) /\ Len(RxFrames) = Len(rxq)
         /\ \A i \in 1 .. Len(rxq) : RxFrames[i] = rxq[i].frame /\ rxq[i] \in Descs
<1>1. Describe(Descs, Frames)
  BY DEF Describe, Descs
<1>2. rxq \in Seq(Descs) /\ RxFrames = FramesOf(rxq)
  BY DEF RxTypeOK, Descs, RxFrames, FramesOf
<1>3. /\ FramesOf(rxq) \in Seq(Frames) /\ Len(FramesOf(rxq)) = Len(rxq)
      /\ \A i \in 1 .. Len(rxq) : FramesOf(rxq)[i] = rxq[i].frame
  <2>1. /\ FramesOf(rxq) \in Seq(Frames) /\ Len(FramesOf(rxq)) = Len(rxq) /\ Len(rxq) \in Nat
        /\ \A i \in 1 .. Len(rxq) : /\ rxq[i] \in Descs /\ rxq[i].frame \in Frames
                                 /\ FramesOf(rxq)[i] = rxq[i].frame
    BY <1>1, <1>2, FramesOfRing
  <2> QED BY <2>1
<1>4. Len(rxq) \in Nat /\ \A i \in 1 .. Len(rxq) : rxq[i] \in Descs
  BY <1>2, LenProperties
<1> QED BY <1>1, <1>2, <1>3, <1>4

\* poll_and_consume takes the first n descriptors off the rx ring; the frames
\* they name are distinct, so each gets the length of its own descriptor.
LEMMA Consumed ==
  ASSUME RxTypeOK, IsInjective(RxFrames), NEW n \in 0 .. Len(rxq), PollAndConsume(n)
  PROVE  LET got == SubSeq(RxFrames, 1, n)
         IN  /\ rxq' \in Seq(Descs) /\ Len(rxq') = Len(rxq) - n
             /\ \A i \in 1 .. Len(rxq') : n + i \in 1 .. Len(rxq) /\ rxq'[i] = rxq[n + i]
             /\ n_frames_to_be_filled' \in Nat /\ pkts_rx' \in Nat /\ awake' \in BOOLEAN
             /\ got \in Seq(Frames) /\ Len(got) = n
             /\ \A i \in 1 .. n : got[i] = rxq[i].frame
             /\ IsInjective(got) /\ IsInjective(RxFrames')
             /\ Range(RxFrames) = Range(got) \cup Range(RxFrames')
             /\ Range(got) \cap Range(RxFrames') = {}
             /\ UpdatedStatus(n) \in [Frames -> {"Free", "Filled"}]
             /\ \A f \in Frames : UpdatedStatus(n)[f] =
                                     IF f \in Range(got) THEN "Filled" ELSE status[f]
             /\ UpdatedLen(n) \in [Frames -> Nat]
             /\ \A i \in 1 .. n : UpdatedLen(n)[rxq[i].frame] = rxq[i].len
             /\ \A f \in Frames \ Range(got) : UpdatedLen(n)[f] = len[f]
<1> DEFINE got == SubSeq(RxFrames, 1, n)
           rest == SubSeq(RxFrames, n + 1, Len(RxFrames))
<1>1. /\ rxq \in Seq(Descs) /\ Len(rxq) \in Nat /\ RxFrames = FramesOf(rxq)
      /\ RxFrames \in Seq(Frames) /\ Len(RxFrames) = Len(rxq)
      /\ \A i \in 1 .. Len(rxq) : RxFrames[i] = rxq[i].frame /\ rxq[i] \in Descs
      /\ Describe(Descs, Frames)
  BY RxRing
<1>2. rxq' = SubSeq(rxq, n + 1, Len(rxq))
  BY DEF PollAndConsume
<1>3. /\ rxq' \in Seq(Descs) /\ Len(rxq') = Len(rxq) - n
      /\ \A i \in 1 .. Len(rxq) - n : rxq'[i] = rxq[n + i]
      /\ FramesOf(rxq') = SubSeq(RxFrames, n + 1, Len(rxq))
  <2> DEFINE r == SubSeq(rxq, n + 1, Len(rxq))
  <2>1. /\ r \in Seq(Descs) /\ Len(r) = Len(rxq) - n
        /\ \A i \in 1 .. Len(rxq) - n : r[i] = rxq[n + i]
        /\ FramesOf(r) = SubSeq(FramesOf(rxq), n + 1, Len(rxq))
    BY <1>1, FramesOfRest, Zenon
  <2> HIDE DEF r
  <2>2. rxq' = r
    BY <1>2 DEF r
  <2> QED BY <1>1, <2>1, <2>2
<1>4. RxFrames' = rest
  BY <1>1, <1>3 DEF RxFrames, FramesOf
<1>5. n \in 0 .. Len(RxFrames)
  BY <1>1
<1>6. /\ got \in Seq(Frames) /\ Len(got) = n /\ \A i \in 1 .. n : got[i] = RxFrames[i]
      /\ Range(RxFrames) = Range(got) \cup Range(rest)
      /\ IsInjective(got) /\ IsInjective(rest) /\ Range(got) \cap Range(rest) = {}
  BY <1>1, <1>5, SplitDistinct
<1>7. n_frames_to_be_filled' \in Nat /\ pkts_rx' \in Nat /\ awake' \in BOOLEAN
  <2>1. n \in Nat /\ n <= n_frames_to_be_filled /\ n_frames_to_be_filled \in Nat /\ pkts_rx \in Nat
    BY <1>1 DEF PollAndConsume, Consumable, RxTypeOK
  <2>2. awake' \in BOOLEAN
    BY Zenon DEF PollAndConsume, RxTypeOK
  <2> QED BY <2>1, <2>2 DEF PollAndConsume
<1> HIDE DEF got, rest
<1>8. \A i \in 1 .. n : got[i] = rxq[i].frame /\ i \in 1 .. Len(rxq) /\ rxq[i] \in Descs
  BY <1>1, <1>6
<1>9. ASSUME NEW f \in Frames
      PROVE  /\ Received(n, f) # {} <=> f \in Range(got)
             /\ \A i \in 1 .. n : rxq[i].frame = f => Received(n, f) = {i}
  <2>1. DOMAIN got = 1 .. n
    BY <1>6
  <2>2. Received(n, f) = {i \in 1 .. n : got[i] = f}
    BY <1>8 DEF Received
  <2>3. Received(n, f) # {} <=> f \in Range(got)
    BY <2>1, <2>2 DEF Range
  <2>4. \A i, j \in 1 .. n : got[i] = got[j] => i = j
    BY <1>6, <2>1 DEF IsInjective
  <2>5. ASSUME NEW i \in 1 .. n, rxq[i].frame = f PROVE Received(n, f) = {i}
    BY <1>8, <2>2, <2>4, <2>5
  <2> QED BY <2>3, <2>5
<1>10. /\ UpdatedStatus(n) \in [Frames -> {"Free", "Filled"}]
       /\ \A f \in Frames : UpdatedStatus(n)[f] =
                               IF f \in Range(got) THEN "Filled" ELSE status[f]
  BY <1>9 DEF UpdatedStatus, RxTypeOK
<1>11. \A i \in Int : Max({i}) = i
  BY DEF Max
<1>12. \A i \in 1 .. n : UpdatedLen(n)[rxq[i].frame] = rxq[i].len
  <2> SUFFICES ASSUME NEW i \in 1 .. n PROVE UpdatedLen(n)[rxq[i].frame] = rxq[i].len
    OBVIOUS
  <2>1. rxq[i].frame \in Frames
    BY <1>1, <1>8
  <2>2. Received(n, rxq[i].frame) = {i} /\ Max({i}) = i
    BY <1>9, <1>11, <2>1
  <2> QED BY <2>1, <2>2, Zenon DEF UpdatedLen
<1>13. \A f \in Frames \ Range(got) : UpdatedLen(n)[f] = len[f]
  BY <1>9 DEF UpdatedLen
<1>14. UpdatedLen(n) \in [Frames -> Nat]
  <2>1. ASSUME NEW f \in Frames PROVE UpdatedLen(n)[f] \in Nat
    <3>1. CASE f \in Range(got)
      <4>1. PICK i \in 1 .. n : rxq[i].frame = f
        BY <1>6, <1>8, <3>1 DEF Range
      <4>2. UpdatedLen(n)[f] = rxq[i].len /\ rxq[i] \in Descs
        BY <1>8, <1>12, <4>1
      <4> QED BY <4>2 DEF Descs
    <3>2. CASE f \notin Range(got)
      BY <1>13, <3>2 DEF RxTypeOK
    <3> QED BY <3>1, <3>2
  <2> QED BY <2>1 DEF UpdatedLen
<1>15. \A i \in 1 .. Len(rxq') : n + i \in 1 .. Len(rxq) /\ rxq'[i] = rxq[n + i]
  BY <1>1, <1>3
<1> QED BY <1>3, <1>4, <1>6, <1>7, <1>8, <1>10, <1>12, <1>13, <1>14, <1>15 DEF got

-----------------------------------------------------------------------------
(* The kernel's steps                                                      *)

\* Lengths are numbers, and the frames of the rx ring are in RxFrames.
LEMMA Numbers ==
  ASSUME RxTypeOK
  PROVE  /\ Len(fillq) \in Nat /\ Len(held) \in Nat /\ Len(processed) \in Nat
         /\ Len(rxq) \in Nat /\ NRxFrames \in Nat \ {0} /\ FillQueueSize \in Nat
         /\ \A i \in 1 .. Len(rxq) : rxq[i].frame \in Range(RxFrames)
<1>1. /\ Len(rxq) \in Nat /\ Len(RxFrames) = Len(rxq) /\ RxFrames \in Seq(Frames)
      /\ \A i \in 1 .. Len(rxq) : RxFrames[i] = rxq[i].frame
  BY RxRing
<1>2. \A i \in 1 .. Len(rxq) : rxq[i].frame \in Range(RxFrames)
  BY <1>1 DEF Range
<1>3. fillq \in Seq(Frames) /\ held \in Seq(Frames) /\ processed \in Seq(Frames)
  BY DEF RxTypeOK
<1>4. Len(fillq) \in Nat /\ Len(held) \in Nat /\ Len(processed) \in Nat
  BY <1>3, LenProperties
<1> QED BY <1>1, <1>2, <1>4, RxConstants

\* The kernel takes a frame from the fill ring.
LEMMA TakeFrameStep == ASSUME RxInv, KTakeFrame PROVE RxInv'
<1>1. RxTypeOK /\ fillq \in Seq(Frames) /\ held \in Seq(Frames) /\ fillq # <<>>
  BY ZenonT(30) DEF RxInv, RxTypeOK, KTakeFrame
<1>2. fillq' = Tail(fillq) /\ held' = Append(held, Head(fillq))
  BY DEF KTakeFrame
<1>3. /\ Head(fillq) \in Frames /\ fillq' \in Seq(Frames) /\ Len(fillq') = Len(fillq) - 1
      /\ Range(fillq) = {Head(fillq)} \cup Range(fillq')
      /\ IsInjective(fillq) => IsInjective(fillq') /\ Head(fillq) \notin Range(fillq')
  BY <1>1, <1>2, TailDistinct
<1>4. /\ held' \in Seq(Frames) /\ Len(held') = Len(held) + 1
      /\ Range(held') = Range(held) \cup {Head(fillq)}
      /\ IsInjective(held) /\ Head(fillq) \notin Range(held) => IsInjective(held')
  BY <1>1, <1>2, <1>3, AppendDistinct
<1>5. RxTypeOK'
  BY <1>1, <1>3, <1>4, ZenonT(30) DEF RxTypeOK, KTakeFrame, userVars, setting
<1>6. DeliveredIntact'
  BY DEF RxInv, DeliveredIntact, KTakeFrame, userVars
<1>7. RxFrames' = RxFrames /\ Filled' = Filled
  BY DEF RxFrames, Filled, KTakeFrame, userVars
<1>8. /\ pc' = pc /\ processed' = processed /\ rx_cursor' = rx_cursor /\ rxq' = rxq
      /\ umem' = umem /\ len' = len /\ n_frames_to_be_filled' = n_frames_to_be_filled
      /\ pkts_rx' = pkts_rx /\ pkts_rx_delivered' = pkts_rx_delivered
  BY DEF KTakeFrame, userVars
<1>9. ASSUME pc' \notin Panics PROVE Apart' /\ Processing' /\ LengthsRight'
  <2>1. Apart /\ Processing /\ LengthsRight
    BY <1>8, <1>9 DEF RxInv
  <2>2. Apart'
    BY <1>3, <1>4, <1>7, <1>8, <2>1 DEF Apart
  <2> QED BY <1>7, <1>8, <2>1, <2>2 DEF Processing, LengthsRight
<1>10. ASSUME pc' \notin Panics, NRxFrames <= FillQueueSize PROVE Accounted'
  <2>1. Accounted
    BY <1>8, <1>10 DEF RxInv
  <2>2. Frames = (Filled \cup Range(processed)
                   \cup Range(fillq) \cup Range(held) \cup Range(RxFrames))'
    BY <1>3, <1>4, <1>7, <1>8, <2>1 DEF Accounted
  <2>3. Len(fillq') + Len(held') = Len(fillq) + Len(held)
    BY <1>1, <1>3, <1>4, Numbers
  <2> QED BY <1>8, <2>1, <2>2, <2>3 DEF Accounted
<1> QED BY <1>5, <1>6, <1>9, <1>10 DEF RxInv

\* A packet is written to frame f, which the kernel holds: f moves to the end
\* of the rx ring.
LEMMA Arrives ==
  ASSUME RxTypeOK, NEW i \in 1 .. NRxFrames, KReceive(i)
  PROVE  LET f == held[i]
             d == [frame |-> f, len |-> arrived + 1]
         IN  /\ f \in Frames /\ f \in Range(held) /\ d.frame = f /\ d.len = arrived + 1
             /\ held' \in Seq(Frames) /\ Len(held') = Len(held) - 1
             /\ Range(held) = {f} \cup Range(held')
             /\ IsInjective(held) => IsInjective(held') /\ f \notin Range(held')
             /\ rxq' \in Seq(Descs) /\ Len(rxq') = Len(rxq) + 1 /\ rxq'[Len(rxq) + 1] = d
             /\ \A j \in 1 .. Len(rxq) :
                  rxq'[j] = rxq[j] /\ rxq[j].frame \in Range(RxFrames) /\ rxq[j].frame \in Frames
             /\ Range(RxFrames') = Range(RxFrames) \cup {f}
             /\ IsInjective(RxFrames) /\ f \notin Range(RxFrames) => IsInjective(RxFrames')
             /\ umem' \in [Frames -> Nat] /\ umem'[f] = arrived + 1
             /\ \A g \in Frames \ {f} : umem'[g] = umem[g]
<1> DEFINE f == held[i]
           d == [frame |-> f, len |-> arrived + 1]
<1>1. /\ RxTypeOK /\ held \in Seq(Frames) /\ i \in 1 .. Len(held) /\ umem \in [Frames -> Nat]
      /\ arrived \in Nat
  BY Zenon DEF RxTypeOK, KReceive
<1>2. f \in Frames /\ f \in Range(held) /\ d \in Descs /\ d.frame = f /\ d.len = arrived + 1
  <2>1. f \in Frames /\ f \in Range(held)
    BY <1>1, LenProperties DEF Range
  <2> QED BY <1>1, <2>1 DEF Descs
<1>3. /\ held' = Without(held, i) /\ rxq' = Append(rxq, d)
      /\ umem' = [umem EXCEPT ![f] = arrived + 1] /\ arrived' = arrived + 1
      /\ fillq' = fillq
  BY DEF KReceive, Without
<1> HIDE DEF f, d
<1>5. /\ held' \in Seq(Frames) /\ Len(held') = Len(held) - 1
      /\ Range(held) = {f} \cup Range(held')
      /\ IsInjective(held) => IsInjective(held') /\ f \notin Range(held')
  BY <1>1, <1>3, RemoveDistinct, ZenonT(60) DEF f
<1>r. /\ Describe(Descs, Frames) /\ rxq \in Seq(Descs) /\ RxFrames = FramesOf(rxq)
      /\ Len(rxq) \in Nat /\ RxFrames \in Seq(Frames)
      /\ \A j \in 1 .. Len(rxq) : rxq[j].frame \in Range(RxFrames) /\ rxq[j].frame \in Frames
  BY <1>1, RxRing, Numbers, Zenon DEF Descs
<1>6. /\ rxq' \in Seq(Descs) /\ Len(rxq') = Len(rxq) + 1 /\ rxq'[Len(rxq) + 1] = d
      /\ \A j \in 1 .. Len(rxq) : rxq'[j] = rxq[j]
      /\ FramesOf(rxq') = Append(FramesOf(rxq), f)
  <2> DEFINE r == Append(rxq, d)
  <2>1. /\ r \in Seq(Descs) /\ Len(r) = Len(rxq) + 1
        /\ \A j \in 1 .. Len(rxq) : r[j] = rxq[j]
        /\ r[Len(rxq) + 1] = d
        /\ FramesOf(r) = Append(FramesOf(rxq), d.frame)
    BY <1>2, <1>r, FramesOfAppend
  <2>2. rxq' = r
    BY <1>3
  <2> HIDE DEF r
  <2> QED BY <1>2, <2>1, <2>2
<1>7. RxFrames' = Append(RxFrames, f)
  <2>1. RxFrames' = FramesOf(rxq')
    BY DEF RxFrames, FramesOf
  <2> QED BY <1>r, <1>6, <2>1
<1>8. /\ Range(RxFrames') = Range(RxFrames) \cup {f}
      /\ IsInjective(RxFrames) /\ f \notin Range(RxFrames) => IsInjective(RxFrames')
  BY <1>2, <1>r, <1>7, AppendDistinct
<1>10. umem' \in [Frames -> Nat] /\ umem'[f] = arrived + 1 /\ \A g \in Frames \ {f} : umem'[g] = umem[g]
  BY <1>1, <1>2, <1>3
<1> QED BY <1>2, <1>5, <1>r, <1>6, <1>8, <1>10 DEF f, d

\* So the invariant is kept.
LEMMA ReceiveStep == ASSUME RxInv, NEW i \in 1 .. NRxFrames, KReceive(i) PROVE RxInv'
<1> DEFINE f == held[i]
           d == [frame |-> f, len |-> arrived + 1]
<1>1. RxTypeOK /\ arrived \in Nat /\ Len(rxq) \in Nat
  <2>1. RxTypeOK
    BY DEF RxInv
  <2> QED BY <2>1, Numbers DEF RxTypeOK
<1>3. arrived' = arrived + 1 /\ fillq' = fillq
  BY DEF KReceive
<1>4. /\ pc' = pc /\ processed' = processed /\ rx_cursor' = rx_cursor /\ len' = len
      /\ n_frames_to_be_filled' = n_frames_to_be_filled
      /\ pkts_rx' = pkts_rx /\ pkts_rx_delivered' = pkts_rx_delivered
  BY DEF KReceive, userVars
<1>2. /\ f \in Frames /\ f \in Range(held) /\ d.frame = f /\ d.len = arrived + 1
      /\ held' \in Seq(Frames) /\ Len(held') = Len(held) - 1
      /\ Range(held) = {f} \cup Range(held')
      /\ IsInjective(held) => IsInjective(held') /\ f \notin Range(held')
      /\ rxq' \in Seq(Descs) /\ Len(rxq') = Len(rxq) + 1 /\ rxq'[Len(rxq) + 1] = d
      /\ \A j \in 1 .. Len(rxq) :
           rxq'[j] = rxq[j] /\ rxq[j].frame \in Range(RxFrames) /\ rxq[j].frame \in Frames
      /\ Range(RxFrames') = Range(RxFrames) \cup {f}
      /\ IsInjective(RxFrames) /\ f \notin Range(RxFrames) => IsInjective(RxFrames')
      /\ umem' \in [Frames -> Nat] /\ umem'[f] = arrived + 1
      /\ \A g \in Frames \ {f} : umem'[g] = umem[g]
  BY <1>1, Arrives, ZenonT(30)
<1> HIDE DEF f, d
<1>9. Filled' = Filled
  BY DEF Filled, KReceive, userVars
<1>11. RxTypeOK'
  <2>1. rxq' \in Seq([frame : Frames, len : Nat])
    BY <1>2 DEF Descs
  <2>2. UNCHANGED <<setting, userVars, fillq, awake>> /\ arrived' \in Nat
    BY <1>1, <1>3 DEF KReceive
  <2> QED BY <1>1, <1>2, <2>1, <2>2, Zenon DEF RxTypeOK, userVars, setting
<1>12. DeliveredIntact'
  BY DEF RxInv, DeliveredIntact, KReceive, userVars
<1>13. ASSUME pc' \notin Panics PROVE Apart' /\ Processing' /\ LengthsRight'
  <2>1. Apart /\ Processing /\ LengthsRight
    BY <1>4, <1>13 DEF RxInv
  <2>2. f \notin Range(fillq) /\ f \notin Range(RxFrames) /\ f \notin Filled
    BY <1>2, <2>1 DEF Apart
  <2>3. Apart'
    BY <1>3, <1>4, <1>2, <1>9, <2>1, <2>2 DEF Apart
  <2>4. Processing'
    BY <1>4, <1>9, <2>1 DEF Processing
  <2>5. ASSUME NEW j \in 1 .. Len(rxq') PROVE umem'[rxq'[j].frame] = rxq'[j].len
    <3>1. CASE j = Len(rxq) + 1
      BY <1>2, <3>1
    <3>2. CASE j \in 1 .. Len(rxq)
      <4>1. rxq[j].frame \in Frames \ {f} /\ umem[rxq[j].frame] = rxq[j].len
        BY <1>2, <2>1, <2>2, <3>2 DEF LengthsRight
      <4> QED BY <1>2, <3>2, <4>1
    <3> QED BY <1>2, <3>1, <3>2
  <2>6. \A g \in Filled : umem'[g] = len'[g]
    BY <1>4, <1>2, <2>1, <2>2 DEF LengthsRight, Filled
  <2>7. LengthsRight'
    BY <1>9, <2>5, <2>6 DEF LengthsRight
  <2> QED BY <2>3, <2>4, <2>7
<1>14. ASSUME pc' \notin Panics, NRxFrames <= FillQueueSize PROVE Accounted'
  <2>1. Accounted
    BY <1>4, <1>14 DEF RxInv
  <2>2. Frames = (Filled \cup Range(processed)
                   \cup Range(fillq) \cup Range(held) \cup Range(RxFrames))'
    BY <1>3, <1>4, <1>2, <1>9, <2>1 DEF Accounted
  <2>3. Len(held') + Len(rxq') = Len(held) + Len(rxq) /\ fillq' = fillq
    BY <1>1, <1>3, <1>2, Numbers
  <2>4. Len(fillq) + Len(held') + Len(rxq') = Len(fillq) + Len(held) + Len(rxq)
    BY <1>1, <1>2, <2>3, Numbers
  <2> QED BY <1>4, <2>1, <2>2, <2>3, <2>4 DEF Accounted
<1> QED BY <1>11, <1>12, <1>13, <1>14 DEF RxInv

\* Steps that move no frame: the kernel goes to sleep or drops a packet, a
\* poll panics, a panicked thread does nothing.
LEMMA QuietStep ==
  ASSUME RxInv, KSleep \/ KDrop \/ PollPanic \/ Stopped \/ UNCHANGED vars PROVE RxInv'
<1>1. /\ UNCHANGED <<setting, status, len, n_frames_to_be_filled, rx_cursor, pkts_rx,
                     pkts_rx_delivered, processed, result, delivered>>
      /\ UNCHANGED <<umem, fillq, rxq, held>>
      /\ pc' = pc \/ pc' = "poll_panic"
  BY DEF KSleep, KDrop, PollPanic, Stopped, vars, userVars
<1>2. awake' \in BOOLEAN /\ arrived' \in Nat
  <2>1. awake \in BOOLEAN /\ arrived \in Nat
    BY DEF RxInv, RxTypeOK
  <2>2. awake' = awake \/ awake' = FALSE \/ awake' = TRUE
    BY DEF KSleep, KDrop, PollPanic, Stopped, vars
  <2>3. arrived' = arrived \/ arrived' = arrived + 1
    BY DEF KSleep, KDrop, PollPanic, Stopped, vars
  <2>4. awake' \in BOOLEAN
    BY <2>1, <2>2, Zenon
  <2> QED BY <2>1, <2>3, <2>4
<1>3. RxTypeOK'
  BY <1>1, <1>2 DEF RxInv, RxTypeOK, Panics, setting
<1>4. DeliveredIntact'
  BY <1>1 DEF RxInv, DeliveredIntact
<1>5. RxFrames' = RxFrames /\ Filled' = Filled
  BY <1>1 DEF RxFrames, Filled
<1>6. pc' \notin Panics => pc' = pc
  BY <1>1 DEF Panics
<1>7. Apart => Apart'
  BY <1>1, <1>5, ZenonT(30) DEF Apart
<1>8. LengthsRight => LengthsRight'
  BY <1>1, <1>5 DEF LengthsRight
<1>9. Accounted => Accounted'
  BY <1>1, <1>5 DEF Accounted
<1>10. pc' = pc /\ Processing => Processing'
  BY <1>1, <1>5 DEF Processing
<1> QED BY <1>3, <1>4, <1>6, <1>7, <1>8, <1>9, <1>10 DEF RxInv

-----------------------------------------------------------------------------
(* The loops that refill the fill ring                                     *)

\* FillQueue::produce moves the processed frames to the fill ring.
LEMMA Produced ==
  ASSUME RxTypeOK, fillq' = fillq \o processed, processed' = <<>>
  PROVE  /\ fillq' \in Seq(Frames) /\ Len(fillq') = Len(fillq) + Len(processed)
         /\ Range(fillq') = Range(fillq) \cup Range(processed)
         /\ IsInjective(fillq) /\ IsInjective(processed)
               /\ Range(fillq) \cap Range(processed) = {} => IsInjective(fillq')
         /\ processed' \in Seq(Frames) /\ Range(processed') = {}
         /\ IsInjective(processed')
<1>1. fillq \in Seq(Frames) /\ processed \in Seq(Frames)
  BY DEF RxTypeOK
<1>2. /\ fillq' \in Seq(Frames) /\ Len(fillq') = Len(fillq) + Len(processed)
      /\ Range(fillq') = Range(fillq) \cup Range(processed)
      /\ IsInjective(fillq) /\ IsInjective(processed)
            /\ Range(fillq) \cap Range(processed) = {} => IsInjective(fillq')
  BY <1>1, ConcatDistinct
<1>3. processed' \in Seq(Frames) /\ Range(processed') = {} /\ IsInjective(processed')
  BY DEF Range, IsInjective
<1> QED BY <1>2, <1>3

\* The frame at the cursor is back on the fill ring, Free.
LEMMA RefillStep == ASSUME RxInv, Refill PROVE RxInv'
<1>1. /\ RxTypeOK /\ DeliveredIntact /\ Apart /\ Processing /\ LengthsRight
      /\ NRxFrames <= FillQueueSize => Accounted
      /\ pc = "refill" /\ pc' = "idle"
  BY DEF RxInv, Refill, Panics
<1>2. /\ fillq' = fillq \o processed /\ processed' = <<>>
      /\ pkts_rx_delivered' = pkts_rx_delivered + 1
      /\ n_frames_to_be_filled' = n_frames_to_be_filled + 1
      /\ rx_cursor' = (rx_cursor + 1) % NRxFrames
      /\ status' = [status EXCEPT ![rx_cursor] = "Free"]
      /\ UNCHANGED <<setting, len, pkts_rx, result, delivered, umem, rxq, held, arrived>>
  BY DEF Refill, FillProduce, NextCursor
<1>3. awake' \in BOOLEAN
  BY <1>1, Zenon DEF Refill, FillProduce, RxTypeOK
<1>4. /\ fillq' \in Seq(Frames) /\ Len(fillq') = Len(fillq) + Len(processed)
      /\ Range(fillq') = Range(fillq) \cup Range(processed)
      /\ IsInjective(fillq) /\ IsInjective(processed)
            /\ Range(fillq) \cap Range(processed) = {} => IsInjective(fillq')
      /\ processed' \in Seq(Frames) /\ Range(processed') = {}
      /\ IsInjective(processed')
  BY <1>1, <1>2, Produced
<1>5. /\ processed = <<rx_cursor>> /\ rx_cursor \in Filled /\ rx_cursor \in Frames
      /\ Range(processed) = {rx_cursor} /\ Len(processed) = 1
  BY <1>1 DEF Processing, RxTypeOK, Range
<1>6. rx_cursor' \in Frames
  BY <1>2, <1>5, RxConstants DEF Frames
<1>7. status' \in [Frames -> {"Free", "Filled"}] /\ Filled' = Filled \ {rx_cursor}
  BY <1>1, <1>2, <1>5 DEF RxTypeOK, Filled
<1>8. RxTypeOK'
  BY <1>1, <1>2, <1>3, <1>4, <1>6, <1>7 DEF RxTypeOK, setting
<1>9. DeliveredIntact'
  BY <1>1, <1>2 DEF DeliveredIntact
<1>10. RxFrames' = RxFrames
  BY <1>2 DEF RxFrames
<1>11. Apart'
  <2>1. IsInjective(fillq')
    BY <1>1, <1>4, Zenon DEF Apart
  <2>2. held' = held
    BY <1>2
  <2>3. /\ Range(fillq') \cap Range(held') = {}
        /\ (Range(fillq') \cup Range(held')) \cap Range(RxFrames') = {}
    BY <1>1, <1>4, <1>10, <2>2 DEF Apart
  <2>4. (Filled' \cup Range(processed'))
          \cap (Range(fillq') \cup Range(held') \cup Range(RxFrames')) = {}
    BY <1>1, <1>4, <1>5, <1>7, <1>10, <2>2 DEF Apart
  <2> QED BY <1>1, <1>4, <1>10, <2>1, <2>2, <2>3, <2>4 DEF Apart
<1>12. Processing' /\ LengthsRight'
  BY <1>1, <1>2, <1>7 DEF Processing, LengthsRight
<1>13. ASSUME NRxFrames <= FillQueueSize PROVE Accounted'
  <2>1. Accounted
    BY <1>1, <1>13
  <2>2. Frames = (Filled \cup Range(processed)
                   \cup Range(fillq) \cup Range(held) \cup Range(RxFrames))'
    BY <1>2, <1>4, <1>5, <1>7, <1>10, <2>1 DEF Accounted
  <2>3. /\ n_frames_to_be_filled' = Len(fillq') + Len(held) + Len(rxq)
        /\ pkts_rx + n_frames_to_be_filled' = pkts_rx_delivered' + NRxFrames
    <3>1. /\ n_frames_to_be_filled = Len(fillq) + Len(held) + Len(rxq)
          /\ pkts_rx + n_frames_to_be_filled = pkts_rx_delivered + NRxFrames
      BY <2>1 DEF Accounted
    <3>2. /\ Len(fillq') = Len(fillq) + 1
          /\ n_frames_to_be_filled' = n_frames_to_be_filled + 1
          /\ pkts_rx_delivered' = pkts_rx_delivered + 1
      BY <1>2, <1>4, <1>5
    <3>3. /\ Len(fillq) \in Nat /\ Len(held) \in Nat /\ Len(rxq) \in Nat
          /\ Len(processed) \in Nat /\ NRxFrames \in Nat
          /\ pkts_rx \in Nat /\ pkts_rx_delivered \in Nat
      BY <1>1, Numbers DEF RxTypeOK
    <3> QED BY <3>1, <3>2, <3>3
  <2> QED BY <1>2, <2>2, <2>3 DEF Accounted
<1> QED BY <1>8, <1>9, <1>11, <1>12, <1>13 DEF RxInv

\* The frames of the batch are back on the fill ring.
LEMMA RefillBatchStep == ASSUME RxInv, RefillBatch PROVE RxInv'
<1>1. /\ RxTypeOK /\ DeliveredIntact /\ Apart /\ Processing /\ LengthsRight
      /\ NRxFrames <= FillQueueSize => Accounted
      /\ pc = "refill_batch" /\ pc' = "idle"
  BY DEF RxInv, RefillBatch, Panics
<1>2. /\ fillq' = fillq \o processed /\ processed' = <<>>
      /\ pkts_rx_delivered' = pkts_rx_delivered + Len(processed)
      /\ n_frames_to_be_filled' = n_frames_to_be_filled + Len(processed)
      /\ UNCHANGED <<setting, status, len, rx_cursor, pkts_rx, result, delivered>>
      /\ UNCHANGED <<umem, rxq, held, arrived>>
  BY DEF RefillBatch, FillProduce
<1>3. awake' \in BOOLEAN
  BY <1>1, Zenon DEF RefillBatch, FillProduce, RxTypeOK
<1>4. /\ fillq' \in Seq(Frames) /\ Len(fillq') = Len(fillq) + Len(processed)
      /\ Range(fillq') = Range(fillq) \cup Range(processed)
      /\ IsInjective(fillq) /\ IsInjective(processed)
            /\ Range(fillq) \cap Range(processed) = {} => IsInjective(fillq')
      /\ processed' \in Seq(Frames) /\ Range(processed') = {}
      /\ IsInjective(processed')
  BY <1>1, <1>2, Produced
<1>5. Range(processed) \cap Filled = {}
  BY <1>1 DEF Processing
<1>6. RxFrames' = RxFrames /\ Filled' = Filled
  BY <1>2 DEF RxFrames, Filled
<1>7. RxTypeOK'
  <2>1. n_frames_to_be_filled' \in Nat /\ pkts_rx_delivered' \in Nat
    BY <1>1, <1>2, Numbers DEF RxTypeOK
  <2> QED BY <1>1, <1>2, <1>3, <1>4, <2>1 DEF RxTypeOK, setting
<1>8. DeliveredIntact'
  BY <1>1, <1>2 DEF DeliveredIntact
<1>9. Apart'
  <2>1. IsInjective(fillq')
    BY <1>1, <1>4, Zenon DEF Apart
  <2>2. held' = held
    BY <1>2
  <2>3. /\ Range(fillq') \cap Range(held') = {}
        /\ (Range(fillq') \cup Range(held')) \cap Range(RxFrames') = {}
    BY <1>1, <1>4, <1>6, <2>2 DEF Apart
  <2>4. (Filled' \cup Range(processed'))
          \cap (Range(fillq') \cup Range(held') \cup Range(RxFrames')) = {}
    BY <1>1, <1>4, <1>5, <1>6, <2>2 DEF Apart
  <2> QED BY <1>1, <1>4, <1>6, <2>1, <2>2, <2>3, <2>4 DEF Apart
<1>10. Processing' /\ LengthsRight'
  BY <1>1, <1>2, <1>6 DEF Processing, LengthsRight
<1>11. ASSUME NRxFrames <= FillQueueSize PROVE Accounted'
  <2>1. Accounted
    BY <1>1, <1>11
  <2>2. Frames = (Filled \cup Range(processed)
                   \cup Range(fillq) \cup Range(held) \cup Range(RxFrames))'
    BY <1>2, <1>4, <1>6, <2>1 DEF Accounted
  <2>3. /\ n_frames_to_be_filled' = Len(fillq') + Len(held) + Len(rxq)
        /\ pkts_rx + n_frames_to_be_filled' = pkts_rx_delivered' + NRxFrames
    <3>1. /\ n_frames_to_be_filled = Len(fillq) + Len(held) + Len(rxq)
          /\ pkts_rx + n_frames_to_be_filled = pkts_rx_delivered + NRxFrames
      BY <2>1 DEF Accounted
    <3>2. /\ Len(fillq') = Len(fillq) + Len(processed)
          /\ n_frames_to_be_filled' = n_frames_to_be_filled + Len(processed)
          /\ pkts_rx_delivered' = pkts_rx_delivered + Len(processed)
      BY <1>2, <1>4
    <3>3. /\ Len(fillq) \in Nat /\ Len(held) \in Nat /\ Len(rxq) \in Nat
          /\ Len(processed) \in Nat /\ NRxFrames \in Nat
          /\ pkts_rx \in Nat /\ pkts_rx_delivered \in Nat
      BY <1>1, Numbers DEF RxTypeOK
    <3> QED BY <3>1, <3>2, <3>3
  <2> QED BY <1>2, <2>2, <2>3 DEF Accounted
<1> QED BY <1>7, <1>8, <1>9, <1>10, <1>11 DEF RxInv

\* The poll after a refill panics.
LEMMA RefillPanicStep == ASSUME RxInv, RefillPanic PROVE RxInv'
<1>1. /\ RxTypeOK /\ DeliveredIntact
      /\ fillq' = fillq \o processed /\ processed' = <<>> /\ pc' = "poll_panic"
      /\ UNCHANGED <<setting, status, len, n_frames_to_be_filled, rx_cursor, pkts_rx,
                     pkts_rx_delivered, result, delivered>>
      /\ UNCHANGED <<umem, rxq, held, awake, arrived>>
  BY DEF RxInv, RefillPanic
<1>2. fillq' \in Seq(Frames) /\ processed' \in Seq(Frames)
  BY <1>1, Produced
<1>3. RxTypeOK'
  BY <1>1, <1>2 DEF RxTypeOK, Panics, setting
<1>4. DeliveredIntact'
  BY <1>1 DEF DeliveredIntact
<1> QED BY <1>1, <1>3, <1>4 DEF RxInv, Panics

-----------------------------------------------------------------------------
(* The calls                                                               *)

\* The frames read from the ring hold the packets whose lengths they are
\* given; so do those on the ring and those that wait.
LEMMA ConsumedLengths ==
  ASSUME RxTypeOK, IsInjective(RxFrames), LengthsRight,
         NEW n \in 0 .. Len(rxq), PollAndConsume(n)
  PROVE  LET got == SubSeq(RxFrames, 1, n)
         IN  /\ Range(got) \subseteq Frames
             /\ \A f \in Filled \cup Range(got) : umem[f] = UpdatedLen(n)[f]
             /\ \A i \in 1 .. Len(rxq') : umem[rxq'[i].frame] = rxq'[i].len
<1> DEFINE got == SubSeq(RxFrames, 1, n)
<1>1. /\ got \in Seq(Frames) /\ Len(got) = n /\ n \in Nat /\ Len(rxq) \in Nat /\ n <= Len(rxq)
      /\ \A i \in 1 .. n : got[i] = rxq[i].frame
      /\ \A i \in 1 .. n : UpdatedLen(n)[rxq[i].frame] = rxq[i].len
      /\ \A f \in Frames \ Range(got) : UpdatedLen(n)[f] = len[f]
      /\ \A i \in 1 .. Len(rxq') : n + i \in 1 .. Len(rxq) /\ rxq'[i] = rxq[n + i]
  <2>1. Len(rxq) \in Nat
    BY Numbers
  <2> QED BY <2>1, Consumed
<1> HIDE DEF got
<1>2. \A f \in Range(got) : \E i \in 1 .. n : f = got[i] /\ got[i] \in Frames
  BY <1>1, LenProperties DEF Range
<1>3. ASSUME NEW f \in Range(got) PROVE umem[f] = UpdatedLen(n)[f]
  <2>1. PICK i \in 1 .. n : f = rxq[i].frame
    BY <1>1, <1>2
  <2>2. i \in 1 .. Len(rxq)
    BY <1>1
  <2> QED BY <1>1, <2>1, <2>2 DEF LengthsRight
<1>4. ASSUME NEW f \in Filled, f \notin Range(got) PROVE umem[f] = UpdatedLen(n)[f]
  BY <1>1, <1>4 DEF LengthsRight, Filled
<1>5. \A i \in 1 .. Len(rxq') : umem[rxq'[i].frame] = rxq'[i].len
  BY <1>1 DEF LengthsRight
<1> QED BY <1>2, <1>3, <1>4, <1>5 DEF got

\* The counters after n descriptors are read.
LEMMA ConsumedCounts ==
  ASSUME RxTypeOK, IsInjective(RxFrames), Accounted,
         NEW n \in 0 .. Len(rxq), PollAndConsume(n)
  PROVE  /\ n_frames_to_be_filled' = Len(fillq) + Len(held) + Len(rxq')
         /\ pkts_rx' + n_frames_to_be_filled' = pkts_rx_delivered + NRxFrames
<1>1. Len(rxq') = Len(rxq) - n
  BY Consumed
<1>2. /\ n_frames_to_be_filled' = n_frames_to_be_filled - n /\ pkts_rx' = pkts_rx + n
  BY DEF PollAndConsume
<1>3. /\ n_frames_to_be_filled = Len(fillq) + Len(held) + Len(rxq)
      /\ pkts_rx + n_frames_to_be_filled = pkts_rx_delivered + NRxFrames
  BY DEF Accounted
<1>4. /\ Len(fillq) \in Nat /\ Len(held) \in Nat /\ Len(rxq) \in Nat /\ NRxFrames \in Nat
      /\ pkts_rx \in Nat /\ pkts_rx_delivered \in Nat /\ n \in Nat
  BY Numbers DEF RxTypeOK
<1> QED BY <1>1, <1>2, <1>3, <1>4

\* The frame at the cursor is delivered if it is Filled.
LEMMA RecvStep == ASSUME RxInv, Recv PROVE RxInv'
<1>1. /\ RxTypeOK /\ DeliveredIntact /\ Apart /\ Processing /\ LengthsRight
      /\ NRxFrames <= FillQueueSize => Accounted
      /\ pc = "idle" /\ processed = <<>> /\ IsInjective(RxFrames)
  BY DEF RxInv, Recv, Panics, Processing, Apart
<1>2. PICK n \in 0 .. Len(rxq) :
        /\ PollAndConsume(n) /\ len' = UpdatedLen(n) /\ status' = UpdatedStatus(n)
        /\ TakePacket(UpdatedStatus(n), UpdatedLen(n)) \/ NoPacket(UpdatedStatus(n))
  BY DEF Recv
<1>u. /\ UNCHANGED <<setting, rx_cursor, pkts_rx_delivered>>
      /\ UNCHANGED <<umem, fillq, held, arrived>>
  BY DEF Recv
<1> DEFINE got == SubSeq(RxFrames, 1, n)
<1>3. /\ rxq' \in Seq(Descs) /\ Len(rxq') = Len(rxq) - n
      /\ n_frames_to_be_filled' \in Nat /\ pkts_rx' \in Nat /\ awake' \in BOOLEAN
      /\ got \in Seq(Frames) /\ Len(got) = n
      /\ \A i \in 1 .. n : got[i] = rxq[i].frame
      /\ IsInjective(got) /\ IsInjective(RxFrames')
      /\ Range(RxFrames) = Range(got) \cup Range(RxFrames')
      /\ Range(got) \cap Range(RxFrames') = {}
      /\ UpdatedStatus(n) \in [Frames -> {"Free", "Filled"}]
      /\ \A f \in Frames : UpdatedStatus(n)[f] =
                              IF f \in Range(got) THEN "Filled" ELSE status[f]
      /\ UpdatedLen(n) \in [Frames -> Nat]
  BY <1>1, <1>2, Consumed, ZenonT(30)
<1>4. /\ Range(got) \subseteq Frames
      /\ \A f \in Filled \cup Range(got) : umem[f] = UpdatedLen(n)[f]
      /\ \A i \in 1 .. Len(rxq') : umem[rxq'[i].frame] = rxq'[i].len
  BY <1>1, <1>2, ConsumedLengths
<1> HIDE DEF got
<1>5. rxq' \in Seq([frame : Frames, len : Nat])
  BY <1>3 DEF Descs
<1>6. Filled' = Filled \cup Range(got)
  BY <1>2, <1>3, <1>4 DEF Filled
<1>7. rx_cursor \in Frames
  BY <1>1, ZenonT(30) DEF RxTypeOK
<1>8. LengthsRight'
  BY <1>2, <1>u, <1>4, <1>6 DEF LengthsRight
<1>9. ASSUME processed' = <<>> \/ (rx_cursor \in Filled' /\ processed' = <<rx_cursor>>)
      PROVE  /\ Apart' /\ processed' \in Seq(Frames)
             /\ NRxFrames <= FillQueueSize => Accounted'
  <2>1. /\ processed' \in Seq(Frames) /\ IsInjective(processed')
        /\ Range(processed') \subseteq Filled'
    <3>1. CASE processed' = <<>>
      BY <3>1 DEF Range, IsInjective
    <3>2. CASE rx_cursor \in Filled' /\ processed' = <<rx_cursor>>
      <4>1. /\ DOMAIN processed' = {1} /\ processed'[1] = rx_cursor
            /\ processed' \in Seq(Frames)
        BY <1>7, <3>2
      <4>2. IsInjective(processed')
        BY <4>1 DEF IsInjective
      <4>3. Range(processed') = {rx_cursor}
        BY <4>1 DEF Range
      <4> QED BY <3>2, <4>1, <4>2, <4>3
    <3> QED BY <1>9, <3>1, <3>2
  <2>2. fillq' = fillq /\ held' = held
    BY <1>u
  <2>3. (Filled' \cup Range(processed'))
          \cap (Range(fillq') \cup Range(held') \cup Range(RxFrames')) = {}
    BY <1>1, <1>3, <1>6, <2>1, <2>2 DEF Apart
  <2>4. (Range(fillq') \cup Range(held')) \cap Range(RxFrames') = {}
    BY <1>1, <1>3, <2>2, ZenonT(30) DEF Apart
  <2>5. Apart'
    BY <1>1, <1>3, <2>1, <2>2, <2>3, <2>4 DEF Apart
  <2>6. ASSUME NRxFrames <= FillQueueSize PROVE Accounted'
    <3>1. Accounted
      BY <1>1, <2>6
    <3>2. Range(processed) = {}
      BY <1>1 DEF Range
    <3>3. Frames = (Filled \cup Range(processed)
                     \cup Range(fillq) \cup Range(held) \cup Range(RxFrames))'
      BY <1>3, <1>6, <2>1, <2>2, <3>1, <3>2 DEF Accounted
    <3>4. /\ n_frames_to_be_filled' = Len(fillq) + Len(held) + Len(rxq')
          /\ pkts_rx' + n_frames_to_be_filled' = pkts_rx_delivered + NRxFrames
      BY <1>1, <1>2, <3>1, ConsumedCounts
    <3> QED BY <1>u, <3>3, <3>4 DEF Accounted
  <2> QED BY <2>1, <2>5, <2>6
<1>10. CASE NoPacket(UpdatedStatus(n))
  <2>1. pc' = "idle" /\ delivered' = delivered /\ processed' = <<>> /\ result' = 0
    BY <1>1, <1>10 DEF NoPacket
  <2>2. RxTypeOK'
    BY <1>1, <1>2, <1>u, <1>3, <1>5, <2>1, ZenonT(30) DEF RxTypeOK, setting
  <2>3. DeliveredIntact' /\ Processing'
    BY <1>1, <2>1 DEF DeliveredIntact, Processing
  <2> QED BY <1>8, <1>9, <2>1, <2>2, <2>3 DEF RxInv
<1>11. CASE TakePacket(UpdatedStatus(n), UpdatedLen(n))
  <2> DEFINE d == ReadFromUmem(rx_cursor, UpdatedLen(n)[rx_cursor], "recv")
             Got == [data : Nat, len : Nat, via : {"recv", "recv_apply"}]
  <2>1. rx_cursor \in Filled'
    BY <1>2, <1>3, <1>7, <1>11 DEF TakePacket, Filled
  <2>2. umem[rx_cursor] = UpdatedLen(n)[rx_cursor] /\ umem[rx_cursor] \in Nat
    BY <1>1, <1>4, <1>6, <1>7, <2>1, Zenon DEF RxTypeOK
  <2>3. d \in Got /\ d.data = d.len
    BY <2>2 DEF ReadFromUmem
  <2>4. delivered \in Seq(Got)
    BY <1>1 DEF RxTypeOK
  <2>5. \/ /\ delivered' = Append(delivered, d) /\ processed' = <<rx_cursor>>
           /\ result' = UpdatedLen(n)[rx_cursor] /\ pc' = "refill"
        \/ pc' = "copy_panic" /\ UNCHANGED <<delivered, processed, result>>
    BY <1>11 DEF TakePacket
  <2> HIDE DEF d, Got
  <2>6. delivered' \in Seq(Got) /\ \A i \in DOMAIN delivered' : delivered'[i].data = delivered'[i].len
    <3>1. CASE delivered' = delivered
      BY <1>1, <2>4, <3>1 DEF DeliveredIntact
    <3>2. CASE delivered' = Append(delivered, d)
      <4>1. /\ delivered' \in Seq(Got) /\ Len(delivered) \in Nat
            /\ DOMAIN delivered = 1 .. Len(delivered)
            /\ DOMAIN delivered' = 1 .. Len(delivered) + 1
            /\ \A i \in 1 .. Len(delivered) : delivered'[i] = delivered[i]
            /\ delivered'[Len(delivered) + 1] = d
        BY <2>3, <2>4, <3>2, AppendProperties, LenProperties
      <4>2. ASSUME NEW i \in DOMAIN delivered' PROVE delivered'[i].data = delivered'[i].len
        <5>1. i \in DOMAIN delivered \/ i = Len(delivered) + 1
          BY <4>1
        <5> QED BY <1>1, <2>3, <4>1, <5>1 DEF DeliveredIntact
      <4> QED BY <4>1, <4>2
    <3> QED BY <2>5, <3>1, <3>2
  <2>7. processed' \in Seq(Frames) /\ result' \in Nat
    <3>1. CASE processed' = <<rx_cursor>> /\ result' = UpdatedLen(n)[rx_cursor]
      BY <1>7, <2>2, <3>1
    <3>2. CASE processed' = processed /\ result' = result
      BY <1>1, <3>2 DEF RxTypeOK
    <3> QED BY <2>5, <3>1, <3>2
  <2>8. RxTypeOK'
    <3>1. pc' \in {"idle", "refill", "refill_batch"} \cup Panics
      BY <2>5 DEF Panics
    <3>2. delivered' \in Seq([data : Nat, len : Nat, via : {"recv", "recv_apply"}])
      BY <2>6 DEF Got
    <3> QED BY <1>1, <1>2, <1>u, <1>3, <1>5, <2>7, <3>1, <3>2, Zenon DEF RxTypeOK, setting
  <2>9. DeliveredIntact'
    BY <2>6 DEF DeliveredIntact
  <2>10. ASSUME pc' \notin Panics PROVE pc' = "refill" /\ processed' = <<rx_cursor>>
    BY <2>5, <2>10 DEF Panics
  <2>11. ASSUME pc' \notin Panics PROVE Processing'
    BY <1>u, <2>1, <2>10, <2>11 DEF Processing
  <2> QED BY <1>8, <1>9, <2>1, <2>8, <2>9, <2>10, <2>11 DEF RxInv
<1> QED BY <1>2, <1>10, <1>11

\* The batch is delivered in the order of the rx ring.
LEMMA RecvApplyStep == ASSUME RxInv, RecvApply PROVE RxInv'
<1>1. /\ RxTypeOK /\ DeliveredIntact /\ Apart /\ Processing /\ LengthsRight
      /\ NRxFrames <= FillQueueSize => Accounted
      /\ pc = "idle" /\ processed = <<>> /\ IsInjective(RxFrames)
  BY DEF RxInv, RecvApply, Panics, Processing, Apart
<1> DEFINE From(m) == [i \in 1 .. m |->
             ReadFromUmem(rxq[i].frame, UpdatedLen(m)[rxq[i].frame], "recv_apply")]
<1>2. PICK n \in 0 .. Len(rxq) :
        /\ PollAndConsume(n) /\ len' = UpdatedLen(n)
        /\ delivered' = delivered \o From(n)
        /\ processed' = processed \o [i \in 1 .. n |-> rxq[i].frame]
        /\ pc' = IF n > 0 THEN "refill_batch" ELSE "idle"
  BY Zenon DEF RecvApply
<1>u. /\ UNCHANGED <<setting, status, rx_cursor, pkts_rx_delivered, result>>
      /\ UNCHANGED <<umem, fillq, held, arrived>>
  BY ZenonT(30) DEF RecvApply
<1> DEFINE got == SubSeq(RxFrames, 1, n)
           ds  == From(n)
           Got == [data : Nat, len : Nat, via : {"recv", "recv_apply"}]
<1>3. /\ rxq' \in Seq(Descs) /\ Len(rxq') = Len(rxq) - n
      /\ n_frames_to_be_filled' \in Nat /\ pkts_rx' \in Nat /\ awake' \in BOOLEAN
      /\ got \in Seq(Frames) /\ Len(got) = n
      /\ \A i \in 1 .. n : got[i] = rxq[i].frame
      /\ IsInjective(got) /\ IsInjective(RxFrames')
      /\ Range(RxFrames) = Range(got) \cup Range(RxFrames')
      /\ Range(got) \cap Range(RxFrames') = {}
      /\ UpdatedStatus(n) \in [Frames -> {"Free", "Filled"}]
      /\ \A f \in Frames : UpdatedStatus(n)[f] =
                              IF f \in Range(got) THEN "Filled" ELSE status[f]
      /\ UpdatedLen(n) \in [Frames -> Nat]
  BY <1>1, <1>2, Consumed, ZenonT(30)
<1>4. /\ Range(got) \subseteq Frames
      /\ \A f \in Filled \cup Range(got) : umem[f] = UpdatedLen(n)[f]
      /\ \A i \in 1 .. Len(rxq') : umem[rxq'[i].frame] = rxq'[i].len
  BY <1>1, <1>2, ConsumedLengths, ZenonT(30)
<1> HIDE DEF got
<1>5. rxq' \in Seq([frame : Frames, len : Nat])
  BY <1>3 DEF Descs
<1>6. processed' = got
  <2>1. got = [i \in 1 .. n |-> rxq[i].frame]
    BY <1>3
  <2>2. processed' = <<>> \o got
    BY <1>1, <1>2, <2>1
  <2> QED BY <1>3, <2>2, ConcatEmptySeq, ZenonT(30)
<1>7. Filled' = Filled
  BY <1>u DEF Filled
<1>n. n \in Nat /\ n <= Len(rxq) /\ Len(rxq) \in Nat
  BY <1>1, Numbers
<1>8. ds \in Seq(Got) /\ Len(ds) = n /\ \A i \in 1 .. n : ds[i].data = ds[i].len
  <2>1. ASSUME NEW i \in 1 .. n PROVE ds[i] \in Got /\ ds[i].data = ds[i].len
    <3>1. rxq[i].frame \in Range(got) /\ rxq[i].frame \in Frames
      <4>1. DOMAIN got = 1 .. n /\ got[i] = rxq[i].frame
        BY <1>3, LenProperties
      <4>2. got[i] \in Range(got)
        BY <4>1 DEF Range
      <4> QED BY <1>4, <4>1, <4>2, ZenonT(30)
    <3>2. /\ umem[rxq[i].frame] = UpdatedLen(n)[rxq[i].frame]
          /\ umem[rxq[i].frame] \in Nat
      BY <1>1, <1>4, <3>1, ZenonT(30) DEF RxTypeOK
    <3> QED BY <3>2 DEF ReadFromUmem
  <2> HIDE DEF Got
  <2>2. ds \in [1 .. n -> Got]
    BY <2>1
  <2> QED BY <1>n, <2>1, <2>2
<1>9. delivered \in Seq(Got) /\ delivered' = delivered \o ds
  BY <1>1, <1>2 DEF RxTypeOK
<1> HIDE DEF ds, Got, From
<1>10. /\ delivered' \in Seq(Got)
       /\ \A i \in DOMAIN delivered' : delivered'[i].data = delivered'[i].len
  <2>1. /\ delivered' \in Seq(Got) /\ Len(delivered') = Len(delivered) + Len(ds)
        /\ \A i \in 1 .. Len(delivered) + Len(ds) :
              delivered'[i] = IF i <= Len(delivered) THEN delivered[i]
                              ELSE ds[i - Len(delivered)]
    BY <1>8, <1>9, ConcatProperties, Zenon
  <2>2. /\ DOMAIN delivered = 1 .. Len(delivered) /\ Len(delivered) \in Nat
        /\ DOMAIN delivered' = 1 .. Len(delivered')
    BY <1>9, <2>1, LenProperties
  <2>3. ASSUME NEW i \in DOMAIN delivered' PROVE delivered'[i].data = delivered'[i].len
    <3>1. CASE i <= Len(delivered)
      <4>1. i \in DOMAIN delivered /\ delivered'[i] = delivered[i]
        BY <1>8, <1>n, <2>1, <2>2, <3>1
      <4> QED BY <1>1, <4>1 DEF DeliveredIntact
    <3>2. CASE ~(i <= Len(delivered))
      <4>1. i - Len(delivered) \in 1 .. n /\ delivered'[i] = ds[i - Len(delivered)]
        BY <1>8, <1>n, <2>1, <2>2, <3>2
      <4> QED BY <1>8, <4>1
    <3> QED BY <3>1, <3>2
  <2> QED BY <2>1, <2>3
<1>11. pc' \in {"idle", "refill_batch"} /\ (pc' = "idle" => n = 0)
  BY <1>2, <1>n
<1>12. RxTypeOK'
  <2>1. delivered' \in Seq([data : Nat, len : Nat, via : {"recv", "recv_apply"}])
    BY <1>10 DEF Got
  <2> QED BY <1>1, <1>2, <1>u, <1>3, <1>5, <1>6, <1>11, <2>1, Zenon DEF RxTypeOK, setting
<1>13. DeliveredIntact'
  BY <1>10 DEF DeliveredIntact
<1>14. LengthsRight'
  BY <1>2, <1>u, <1>4, <1>7 DEF LengthsRight
<1>15. Processing'
  <2>1. Range(got) \cap Filled = {}
    BY <1>1, <1>3 DEF Apart
  <2>2. n = 0 => got = <<>>
    BY <1>3
  <2> QED BY <1>6, <1>7, <1>11, <2>1, <2>2 DEF Processing
<1>16. Apart'
  <2>1. fillq' = fillq /\ held' = held
    BY <1>u
  <2>2. (Filled' \cup Range(processed'))
          \cap (Range(fillq') \cup Range(held') \cup Range(RxFrames')) = {}
    BY <1>1, <1>3, <1>6, <1>7, <2>1 DEF Apart
  <2>3. (Range(fillq') \cup Range(held')) \cap Range(RxFrames') = {}
    BY <1>1, <1>3, <2>1 DEF Apart
  <2> QED BY <1>1, <1>3, <1>6, <2>1, <2>2, <2>3 DEF Apart
<1>17. ASSUME NRxFrames <= FillQueueSize PROVE Accounted'
  <2>1. Accounted
    BY <1>1, <1>17
  <2>2. Range(processed) = {}
    BY <1>1 DEF Range
  <2>3. Frames = (Filled \cup Range(processed)
                   \cup Range(fillq) \cup Range(held) \cup Range(RxFrames))'
    BY <1>u, <1>3, <1>6, <1>7, <2>1, <2>2, ZenonT(30) DEF Accounted
  <2>4. /\ n_frames_to_be_filled' = Len(fillq) + Len(held) + Len(rxq')
        /\ pkts_rx' + n_frames_to_be_filled' = pkts_rx_delivered + NRxFrames
    BY <1>1, <1>2, <2>1, ConsumedCounts
  <2> QED BY <1>u, <2>3, <2>4, ZenonT(30) DEF Accounted
<1> QED BY <1>12, <1>13, <1>14, <1>15, <1>16, <1>17 DEF RxInv

-----------------------------------------------------------------------------
(* The theorems                                                            *)

\* XskRx::new puts all the frames on the fill ring, or none of them.
LEMMA RxInit == Init => RxInv
<1> SUFFICES ASSUME Init PROVE RxInv
  OBVIOUS
<1>1. NRxFrames \in Nat \ {0} /\ FillQueueSize \in Nat
  BY RxConstants
<1>2. /\ AllFrames \in Seq(Frames) /\ Len(AllFrames) = NRxFrames
      /\ Range(AllFrames) = Frames /\ IsInjective(AllFrames)
  <2>1. /\ DOMAIN AllFrames = 1 .. NRxFrames
        /\ \A i \in 1 .. NRxFrames : AllFrames[i] = i - 1 /\ i - 1 \in Frames
    BY <1>1 DEF AllFrames, Frames
  <2>2. AllFrames \in [1 .. NRxFrames -> Frames]
    BY <2>1 DEF AllFrames
  <2>3. AllFrames \in Seq(Frames) /\ Len(AllFrames) = NRxFrames
    BY <1>1, <2>2
  <2>4. IsInjective(AllFrames)
    BY <1>1, <2>1 DEF IsInjective
  <2>5. ASSUME NEW f \in Frames PROVE f \in Range(AllFrames)
    <3>1. f + 1 \in 1 .. NRxFrames /\ AllFrames[f + 1] = f
      BY <1>1, <2>1 DEF Frames
    <3> QED BY <2>1, <3>1 DEF Range
  <2>6. Range(AllFrames) \subseteq Frames
    BY <2>1 DEF Range
  <2> QED BY <2>3, <2>4, <2>5, <2>6, Zenon
<1>3. /\ <<>> \in Seq(Frames) /\ Len(<<>>) = 0 /\ Range(<<>>) = {} /\ IsInjective(<<>>)
  BY DEF Range, IsInjective
<1>4. /\ fillq \in Seq(Frames) /\ IsInjective(fillq)
      /\ NRxFrames <= FillQueueSize => fillq = AllFrames
  BY <1>1, <1>2, <1>3 DEF Init, FillRoom
<1>5. RxTypeOK
  <2>1. 0 \in Frames
    BY <1>1 DEF Frames
  <2>2. /\ status \in [Frames -> {"Free", "Filled"}] /\ len \in [Frames -> Nat]
        /\ umem \in [Frames -> Nat]
    BY DEF Init
  <2> QED BY <1>1, <1>4, <2>1, <2>2 DEF Init, RxTypeOK
<1>6. DeliveredIntact
  BY DEF Init, DeliveredIntact
<1>7. Filled = {} /\ RxFrames = <<>> /\ held = <<>> /\ processed = <<>> /\ rxq = <<>>
  BY DEF Init, Filled, RxFrames
<1>8. Apart
  BY <1>3, <1>4, <1>7 DEF Apart
<1>9. Processing /\ LengthsRight
  BY <1>7 DEF Processing, LengthsRight, Init
<1>10. ASSUME NRxFrames <= FillQueueSize PROVE Accounted
  <2>1. fillq = AllFrames
    BY <1>4, <1>10
  <2>2. Frames = Filled \cup Range(processed)
                   \cup Range(fillq) \cup Range(held) \cup Range(RxFrames)
    BY <1>2, <1>3, <1>7, <2>1
  <2>3. n_frames_to_be_filled = NRxFrames /\ pkts_rx = 0 /\ pkts_rx_delivered = 0
    BY DEF Init
  <2> QED BY <1>1, <1>2, <1>3, <1>7, <2>1, <2>2, <2>3 DEF Accounted
<1> QED BY <1>5, <1>6, <1>8, <1>9, <1>10 DEF RxInv

\* RxInv is inductive.
LEMMA RxInductive == Spec => []RxInv
<1>1. RxInv /\ [Next]_vars => RxInv'
  <2> SUFFICES ASSUME RxInv, [Next]_vars PROVE RxInv'
    OBVIOUS
  <2>1. CASE Recv
    BY <2>1, RecvStep
  <2>2. CASE RecvApply
    BY <2>2, RecvApplyStep
  <2>3. CASE Refill
    BY <2>3, RefillStep
  <2>4. CASE RefillBatch
    BY <2>4, RefillBatchStep
  <2>5. CASE RefillPanic
    BY <2>5, RefillPanicStep
  <2>6. CASE KTakeFrame
    BY <2>6, TakeFrameStep
  <2>7. CASE \E i \in 1 .. NRxFrames : KReceive(i)
    BY <2>7, ReceiveStep
  <2>8. CASE KSleep \/ KDrop \/ PollPanic \/ Stopped \/ UNCHANGED vars
    BY <2>8, QuietStep
  <2> QED BY <2>1, <2>2, <2>3, <2>4, <2>5, <2>6, <2>7, <2>8 DEF Next, Calls, Refills, Kernel
<1> QED BY <1>1, RxInit, PTL DEF Spec

\* rx_cursor stays inside rx_frames, n_frames_to_be_filled does not go below
\* zero, and every descriptor names one of the frames: the type invariant.
THEOREM RxTypeCorrect == Spec => []RxTypeOK
<1>1. RxInv => RxTypeOK
  BY DEF RxInv
<1> QED BY <1>1, RxInductive, PTL

\* recv and recv_apply never hand out a packet with the length of another one,
\* for any mix of the two, any kernel and any size of the rings.
THEOREM RxDeliversIntact == Spec => []DeliveredIntact
<1>1. RxInv => DeliveredIntact
  BY DEF RxInv
<1> QED BY <1>1, RxInductive, PTL

\* With a fill ring that holds all the frames, every frame is always in
\* exactly one place.
THEOREM RxFramesOwned ==
  ASSUME NRxFrames <= FillQueueSize PROVE Spec => []RxOwnership
<1>1. ASSUME RxInv PROVE RxOwnership
  <2>1. /\ RxTypeOK /\ fillq \in Seq(Frames) /\ held \in Seq(Frames)
        /\ RxFrames \in Seq(Frames)
    BY <1>1, RxRing DEF RxInv, RxTypeOK
  <2>2. /\ fillq \o held \in Seq(Frames)
        /\ Range(fillq \o held) = Range(fillq) \cup Range(held)
        /\ IsInjective(fillq) /\ IsInjective(held) /\ Range(fillq) \cap Range(held) = {}
             => IsInjective(fillq \o held)
    BY <2>1, ConcatDistinct
  <2>3. /\ Range(KernelSide) = Range(fillq \o held) \cup Range(RxFrames)
        /\ IsInjective(fillq \o held) /\ IsInjective(RxFrames)
             /\ Range(fillq \o held) \cap Range(RxFrames) = {} => IsInjective(KernelSide)
    <3> DEFINE u == fillq \o held
    <3>1. u \in Seq(Frames) /\ KernelSide = u \o RxFrames
      BY <2>2 DEF KernelSide
    <3> HIDE DEF u
    <3>2. /\ Range(KernelSide) = Range(u) \cup Range(RxFrames)
          /\ IsInjective(u) /\ IsInjective(RxFrames) /\ Range(u) \cap Range(RxFrames) = {}
               => IsInjective(KernelSide)
      BY <2>1, <3>1, ConcatDistinct
    <3> QED BY <3>2 DEF u
  <2>4. ASSUME pc \notin Panics
        PROVE  /\ IsInjective(KernelSide) /\ IsInjective(processed)
               /\ \A f \in Frames : f \in Filled \cup Range(processed)
                                      <=> f \notin Range(KernelSide)
    <3>1. Apart /\ Accounted
      BY <1>1, <2>4 DEF RxInv
    <3>2. IsInjective(KernelSide) /\ IsInjective(processed)
      BY <2>2, <2>3, <3>1 DEF Apart
    <3> QED BY <2>2, <2>3, <3>1, <3>2 DEF Apart, Accounted
  <2> QED BY <2>4, ZenonT(30) DEF RxOwnership, Filled
<1> QED BY <1>1, RxInductive, PTL

\* n_frames_to_be_filled counts the frames the kernel has, and the statistics
\* agree with it.
THEOREM RxCountersExact ==
  ASSUME NRxFrames <= FillQueueSize PROVE Spec => []ToBeFilledExact
<1>1. ASSUME RxInv PROVE ToBeFilledExact
  <2>1. /\ RxTypeOK /\ fillq \in Seq(Frames) /\ held \in Seq(Frames)
        /\ RxFrames \in Seq(Frames) /\ Len(RxFrames) = Len(rxq)
    BY <1>1, RxRing DEF RxInv, RxTypeOK
  <2>2. Len(KernelSide) = Len(fillq) + Len(held) + Len(rxq)
    <3>1. fillq \o held \in Seq(Frames) /\ Len(fillq \o held) = Len(fillq) + Len(held)
      BY <2>1, ConcatProperties
    <3>2. Len(KernelSide) = Len(fillq \o held) + Len(RxFrames)
      BY <2>1, <3>1, ConcatProperties, Zenon DEF KernelSide
    <3> QED BY <2>1, <3>1, <3>2
  <2>3. ASSUME Accounted
        PROVE  /\ n_frames_to_be_filled = Len(KernelSide)
               /\ pkts_rx = pkts_rx_delivered + (NRxFrames - n_frames_to_be_filled)
    <3>1. /\ NRxFrames \in Nat /\ pkts_rx \in Nat /\ pkts_rx_delivered \in Nat
          /\ n_frames_to_be_filled \in Nat
      BY <2>1, RxConstants DEF RxTypeOK
    <3>2. pkts_rx + n_frames_to_be_filled = pkts_rx_delivered + NRxFrames
      BY <2>3 DEF Accounted
    <3>3. n_frames_to_be_filled = Len(KernelSide)
      BY <2>2, <2>3 DEF Accounted
    <3> QED BY <3>1, <3>2, <3>3
  <2> QED BY <1>1, <2>3, ZenonT(30) DEF RxInv, ToBeFilledExact
<1> QED BY <1>1, RxInductive, PTL

-----------------------------------------------------------------------------
(* The order of frames and packets                                         *)

\* A fill ring too small for all frames gets none at all, and stays empty.
Starved ==
  NRxFrames > FillQueueSize =>
    fillq = <<>> /\ held = <<>> /\ rxq = <<>> /\ processed = <<>> /\ Filled = {}

\* The packets on the rx ring are in the order of arrival, and no packet is
\* in two of the frames that hold one.
Numbered ==
  /\ \A i \in 1 .. Len(rxq) : 0 < rxq[i].len
  /\ \A i, j \in 1 .. Len(rxq) : i < j => rxq[i].len < rxq[j].len
  /\ \A f \in Filled : 0 < umem[f]
  /\ \A f, g \in Filled \cup Range(RxFrames) : umem[f] = umem[g] => f = g

\* The j-th frame after frame c, of all frames in a circle.
At(c, j) == IF c + j < NRxFrames THEN c + j ELSE c + j - NRxFrames

NFilled == NRxFrames - n_frames_to_be_filled

\* Starting from rx_cursor the circle of frames is made of those that are
\* Filled, those on the rx ring, those the kernel holds and those on the fill
\* ring, each in their order; and the packets in them are in order too.
Circle ==
  /\ NFilled >= 0
  /\ \A f \in Frames : f \in Filled <=> \E j \in 0 .. NFilled - 1 : f = At(rx_cursor, j)
  /\ \A i \in 1 .. Len(rxq) : rxq[i].frame = At(rx_cursor, NFilled + i - 1)
  /\ \A i \in 1 .. Len(held) : held[i] = At(rx_cursor, NFilled + Len(rxq) + i - 1)
  /\ \A i \in 1 .. Len(fillq) :
       fillq[i] = At(rx_cursor, NFilled + Len(rxq) + Len(held) + i - 1)
  /\ \A i, j \in 0 .. NFilled + Len(rxq) - 1 :
       i < j => umem[At(rx_cursor, i)] < umem[At(rx_cursor, j)]

\* A caller of recv only, on a kernel that uses the frames in order.
OnlyRecv == in_order /\ "recv_apply" \notin client

\* What recv returned.
Returned ==
  /\ pc # "refill_batch"
  /\ pc = "refill" => result > 0
  /\ pc = "idle" /\ result = 0 => Filled = {}

RxOrderInv ==
  /\ Starved
  /\ \A f \in Frames : umem[f] <= arrived
  /\ "recv" \notin client => Filled = {}
  /\ pc \notin Panics =>
       /\ Numbered
       /\ OnlyRecv => /\ Returned
                      /\ NRxFrames <= FillQueueSize => Circle

-----------------------------------------------------------------------------
(* The circle of frames                                                    *)

\* The frames of the circle: j steps lead to a frame, and to a different one
\* for each j.
LEMMA AtFrame ==
  ASSUME NEW c \in Frames, NEW j \in 0 .. NRxFrames - 1
  PROVE  /\ At(c, j) \in Frames /\ At(c, 0) = c
         /\ \A i \in 0 .. NRxFrames - 1 : At(c, i) = At(c, j) => i = j
BY RxConstants DEF At, Frames

\* An interval that is not empty begins at its lower end.
LEMMA FromZero == ASSUME NEW m \in Int, NEW j \in 0 .. m PROVE 0 \in 0 .. m
OBVIOUS

\* rx_cursor moves one step along the circle.
LEMMA AtNext ==
  ASSUME NEW c \in Frames
  PROVE  /\ NextCursor(c) \in Frames
         /\ \A j \in 0 .. NRxFrames - 2 : At(NextCursor(c), j) = At(c, j + 1)
         /\ At(NextCursor(c), NRxFrames - 1) = c
<1>1. c \in Nat /\ c < NRxFrames /\ NRxFrames \in Nat \ {0}
  BY RxConstants DEF Frames
<1>2. NextCursor(c) = IF c + 1 = NRxFrames THEN 0 ELSE c + 1
  BY <1>1 DEF NextCursor
<1>3. NextCursor(c) \in Frames
  BY <1>1, <1>2 DEF Frames
<1>4. ASSUME NEW j \in 0 .. NRxFrames - 2 PROVE At(NextCursor(c), j) = At(c, j + 1)
  BY <1>1, <1>2 DEF At
<1>5. At(NextCursor(c), NRxFrames - 1) = c
  BY <1>1, <1>2 DEF At
<1> QED BY <1>3, <1>4, <1>5

-----------------------------------------------------------------------------
(* What the steps do, in terms of these                                    *)

\* What a call reads from the rx ring.
LEMMA Consumes ==
  ASSUME RxInv, pc = "idle", NEW n \in 0 .. Len(rxq), PollAndConsume(n)
  PROVE  LET got == SubSeq(RxFrames, 1, n)
         IN  /\ n \in Nat /\ Len(rxq) \in Nat /\ n <= Len(rxq) /\ Len(rxq') = Len(rxq) - n
             /\ \A i \in 1 .. Len(rxq') : n + i \in 1 .. Len(rxq) /\ rxq'[i] = rxq[n + i]
             /\ \A f : f \in Range(got) <=> \E i \in 1 .. n : f = rxq[i].frame
             /\ Range(got) \subseteq Frames
             /\ Range(RxFrames) = Range(got) \cup Range(RxFrames')
             /\ Range(got) \cap Range(RxFrames') = {}
             /\ \A f \in Frames : UpdatedStatus(n)[f] =
                                     IF f \in Range(got) THEN "Filled" ELSE status[f]
             /\ \A f \in Filled \cup Range(got) : umem[f] = UpdatedLen(n)[f]
             /\ n_frames_to_be_filled' = n_frames_to_be_filled - n
<1> DEFINE got == SubSeq(RxFrames, 1, n)
<1>1. RxTypeOK /\ IsInjective(RxFrames) /\ LengthsRight
  BY DEF RxInv, Panics, Apart
<1>2. Len(rxq) \in Nat
  BY <1>1, Numbers
<1>3. /\ Len(rxq') = Len(rxq) - n
      /\ \A i \in 1 .. Len(rxq') : n + i \in 1 .. Len(rxq) /\ rxq'[i] = rxq[n + i]
      /\ got \in Seq(Frames) /\ Len(got) = n
      /\ \A i \in 1 .. n : got[i] = rxq[i].frame
      /\ Range(RxFrames) = Range(got) \cup Range(RxFrames')
      /\ Range(got) \cap Range(RxFrames') = {}
      /\ \A f \in Frames : UpdatedStatus(n)[f] =
                              IF f \in Range(got) THEN "Filled" ELSE status[f]
  BY <1>1, Consumed, Zenon
<1>4. /\ Range(got) \subseteq Frames
      /\ \A f \in Filled \cup Range(got) : umem[f] = UpdatedLen(n)[f]
  BY <1>1, ConsumedLengths
<1> HIDE DEF got
<1>5. DOMAIN got = 1 .. n
  BY <1>3
<1>6. \A f : f \in Range(got) <=> \E i \in 1 .. n : f = rxq[i].frame
  <2>1. \A i \in 1 .. n : got[i] = rxq[i].frame
    BY <1>3
  <2>2. Range(got) = {got[i] : i \in 1 .. n}
    BY <1>5 DEF Range
  <2> QED BY <2>1, <2>2, ZenonT(30)
<1>7. n_frames_to_be_filled' = n_frames_to_be_filled - n
  BY DEF PollAndConsume
<1>8. n \in Nat /\ n <= Len(rxq)
  BY <1>2
<1> QED BY <1>2, <1>3, <1>4, <1>6, <1>7, <1>8, ZenonT(30) DEF got

\* The frames that are with the kernel.
WithKernel == Range(fillq) \cup Range(held) \cup Range(RxFrames)

\* The kernel takes a frame from the fill ring.
LEMMA Takes ==
  ASSUME RxTypeOK, KTakeFrame
  PROVE  /\ Len(fillq) \in Nat /\ Len(held) \in Nat
         /\ Len(fillq') = Len(fillq) - 1 /\ Len(held') = Len(held) + 1
         /\ \A i \in 1 .. Len(fillq') : fillq'[i] = fillq[i + 1]
         /\ \A i \in 1 .. Len(held) : held'[i] = held[i]
         /\ held'[Len(held) + 1] = fillq[1]
         /\ WithKernel' = WithKernel
<1>1. fillq \in Seq(Frames) /\ held \in Seq(Frames) /\ fillq # <<>>
  BY DEF RxTypeOK, KTakeFrame
<1>2. fillq' = Tail(fillq) /\ held' = Append(held, Head(fillq)) /\ rxq' = rxq
  BY DEF KTakeFrame
<1>3. /\ Head(fillq) \in Frames /\ fillq' \in Seq(Frames) /\ Len(fillq') = Len(fillq) - 1
      /\ Range(fillq) = {Head(fillq)} \cup Range(fillq')
  BY <1>1, <1>2, TailDistinct
<1>4. Range(held') = Range(held) \cup {Head(fillq)}
  BY <1>1, <1>2, <1>3, AppendDistinct
<1>5. Range(RxFrames') = Range(RxFrames)
  BY <1>2 DEF RxFrames
<1>6. WithKernel' = WithKernel
  BY <1>3, <1>4, <1>5 DEF WithKernel
<1>7. /\ Len(fillq) \in Nat /\ Len(held) \in Nat /\ Len(held') = Len(held) + 1
      /\ \A i \in 1 .. Len(fillq') : fillq'[i] = fillq[i + 1]
      /\ \A i \in 1 .. Len(held) : held'[i] = held[i]
      /\ held'[Len(held) + 1] = fillq[1]
  BY <1>1, <1>2, <1>3
<1> QED BY <1>3, <1>6, <1>7

-----------------------------------------------------------------------------
(* Every step keeps the order                                              *)

\* The numbers the circle is described with.
LEMMA CircleNumbers ==
  ASSUME RxTypeOK
  PROVE  /\ NFilled \in Int /\ Len(rxq) \in Nat /\ Len(held) \in Nat /\ Len(fillq) \in Nat
         /\ rx_cursor \in Frames /\ NRxFrames \in Nat \ {0}
BY Numbers DEF RxTypeOK, NFilled

\* Steps that move no frame.
LEMMA QuietOrder ==
  ASSUME RxInv, RxOrderInv, KSleep \/ KDrop \/ PollPanic \/ Stopped \/ UNCHANGED vars
  PROVE  RxOrderInv'
<1>1. /\ UNCHANGED <<client, in_order, status, n_frames_to_be_filled, rx_cursor>>
      /\ UNCHANGED <<processed, result, umem, fillq, rxq, held>>
      /\ pc' \notin Panics => pc' = pc
  BY DEF KSleep, KDrop, PollPanic, Stopped, vars, userVars, setting, Panics
<1>2. arrived' = arrived \/ arrived' = arrived + 1
  BY DEF KSleep, KDrop, PollPanic, Stopped, vars
<1>3. Filled' = Filled /\ RxFrames' = RxFrames /\ NFilled' = NFilled /\ OnlyRecv' = OnlyRecv
  BY <1>1 DEF Filled, RxFrames, NFilled, OnlyRecv
<1>4. Starved'
  BY <1>1, <1>3 DEF RxOrderInv, Starved
<1>5. \A f \in Frames : umem'[f] <= arrived'
  <2>1. arrived \in Nat /\ umem \in [Frames -> Nat]
    BY DEF RxInv, RxTypeOK
  <2>2. \A f \in Frames : umem[f] <= arrived /\ umem[f] \in Nat
    BY <2>1 DEF RxOrderInv
  <2> QED BY <1>1, <1>2, <2>1, <2>2
<1>6. "recv" \notin client' => Filled' = {}
  BY <1>1, <1>3 DEF RxOrderInv
<1>7. Numbered => Numbered'
  BY <1>1, <1>3, ZenonT(30) DEF Numbered
<1>8. Circle => Circle'
  BY <1>1, <1>3 DEF Circle
<1>9. Returned /\ pc' = pc => Returned'
  BY <1>1, <1>3 DEF Returned
<1> QED BY <1>1, <1>3, <1>4, <1>5, <1>6, <1>7, <1>8, <1>9, ZenonT(30) DEF RxOrderInv

\* The kernel takes a frame from the fill ring.
LEMMA TakeOrder == ASSUME RxInv, RxOrderInv, KTakeFrame PROVE RxOrderInv'
<1>1. /\ UNCHANGED <<client, in_order, status, n_frames_to_be_filled, rx_cursor>>
      /\ UNCHANGED <<processed, result, umem, rxq, arrived, pc>>
      /\ fillq # <<>>
  BY DEF KTakeFrame, userVars, setting
<1>2. RxTypeOK
  BY DEF RxInv
<1>3. Filled' = Filled /\ RxFrames' = RxFrames /\ NFilled' = NFilled /\ OnlyRecv' = OnlyRecv
  BY <1>1 DEF Filled, RxFrames, NFilled, OnlyRecv
<1>4. Starved'
  BY <1>1 DEF RxOrderInv, Starved
<1>5. \A f \in Frames : umem'[f] <= arrived'
  BY <1>1 DEF RxOrderInv
<1>6. "recv" \notin client' => Filled' = {}
  BY <1>1, <1>3, ZenonT(30) DEF RxOrderInv
<1>7. Numbered => Numbered'
  BY <1>1, <1>3 DEF Numbered
<1>8. ASSUME Circle PROVE Circle'
  <2>1. /\ Len(fillq') = Len(fillq) - 1 /\ Len(held') = Len(held) + 1
        /\ \A i \in 1 .. Len(fillq') : fillq'[i] = fillq[i + 1]
        /\ \A i \in 1 .. Len(held) : held'[i] = held[i]
        /\ held'[Len(held) + 1] = fillq[1]
    BY <1>2, Takes
  <2>2. /\ NFilled \in Int /\ Len(rxq) \in Nat /\ Len(held) \in Nat /\ Len(fillq) \in Nat
    BY <1>2, CircleNumbers
  <2>3. Len(fillq) > 0
    BY <1>1, <1>2, <2>2 DEF RxTypeOK
  <2>4. ASSUME NEW i \in 1 .. Len(held')
        PROVE  held'[i] = At(rx_cursor, NFilled + Len(rxq) + i - 1)
    <3>1. CASE i \in 1 .. Len(held)
      BY <1>8, <2>1, <3>1, ZenonT(30) DEF Circle
    <3>2. CASE i = Len(held) + 1
      <4>1. fillq[1] = At(rx_cursor, NFilled + Len(rxq) + Len(held) + 1 - 1)
        BY <1>8, <2>2, <2>3 DEF Circle
      <4>2. NFilled + Len(rxq) + Len(held) + 1 - 1 = NFilled + Len(rxq) + i - 1
        BY <2>2, <3>2
      <4> QED BY <2>1, <3>2, <4>1, <4>2
    <3> QED BY <2>1, <2>2, <3>1, <3>2
  <2>5. ASSUME NEW i \in 1 .. Len(fillq')
        PROVE  fillq'[i] = At(rx_cursor, NFilled + Len(rxq) + Len(held') + i - 1)
    <3>1. i + 1 \in 1 .. Len(fillq)
      BY <2>1, <2>2
    <3>2. fillq[i + 1] = At(rx_cursor, NFilled + Len(rxq) + Len(held) + (i + 1) - 1)
      BY <1>8, <3>1 DEF Circle
    <3>3. NFilled + Len(rxq) + Len(held) + (i + 1) - 1 = NFilled + Len(rxq) + Len(held') + i - 1
      BY <2>1, <2>2
    <3> QED BY <2>1, <3>2, <3>3
  <2> QED BY <1>1, <1>3, <1>8, <2>4, <2>5, Zenon DEF Circle
<1>9. Returned => Returned'
  BY <1>1, <1>3 DEF Returned
<1> QED BY <1>1, <1>3, <1>4, <1>5, <1>6, <1>7, <1>8, <1>9 DEF RxOrderInv

\* A kernel that uses the frames in order writes to the first one it holds.
LEMMA FirstRemoved ==
  ASSUME NEW S, NEW s \in Seq(S), 1 \in 1 .. Len(s)
  PROVE  \A j \in 1 .. Len(s) - 1 : Without(s, 1)[j] = s[j + 1]
<1> DEFINE n == 1
           a == SubSeq(s, 1, 0)
           b == SubSeq(s, n + 1, Len(s))
<1>1. Len(s) \in Nat /\ 0 \in 0 .. Len(s) /\ n \in 0 .. Len(s)
  BY LenProperties
<1>n. n = 1
  OBVIOUS
<1>4. Without(s, 1) = a \o b
  BY DEF Without
<1> HIDE DEF n
<1>2. a \in Seq(S) /\ Len(a) = 0
  BY <1>1, SplitDistinct
<1>3. b \in Seq(S) /\ Len(b) = Len(s) - 1 /\ \A j \in 1 .. Len(s) - 1 : b[j] = s[j + 1]
  <2>1. b \in Seq(S) /\ Len(b) = Len(s) - n /\ \A j \in 1 .. Len(s) - n : b[j] = s[n + j]
    BY <1>1, SplitDistinct
  <2> HIDE DEF b
  <2>2. \A j \in 1 .. Len(s) - 1 : n + j = j + 1
    BY <1>1, <1>n
  <2> QED BY <1>1, <1>n, <2>1, <2>2
<1> HIDE DEF a, b
<1>5. \A j \in 1 .. Len(s) - 1 : (a \o b)[j] = b[j]
  <2>1. \A j \in 1 .. Len(a) + Len(b) :
          (a \o b)[j] = IF j <= Len(a) THEN a[j] ELSE b[j - Len(a)]
    BY <1>2, <1>3, ConcatProperties
  <2>2. Len(a) + Len(b) = Len(s) - 1 /\ \A j \in 1 .. Len(s) - 1 : ~(j <= Len(a)) /\ j - Len(a) = j
    BY <1>1, <1>2, <1>3
  <2> QED BY <2>1, <2>2
<1> QED BY <1>1, <1>3, <1>4, <1>5, Zenon

\* The packet that arrives is the last of the packets.
LEMMA ArriveNumbered ==
  ASSUME RxInv, RxOrderInv, pc \notin Panics, Numbered, NEW i \in 1 .. NRxFrames, KReceive(i)
  PROVE  Numbered'
<1> DEFINE f == held[i]
           d == [frame |-> f, len |-> arrived + 1]
<1>1. /\ RxTypeOK /\ Apart /\ LengthsRight /\ arrived \in Nat /\ Len(rxq) \in Nat
      /\ umem \in [Frames -> Nat]
  <2>1. RxTypeOK /\ Apart /\ LengthsRight
    BY DEF RxInv
  <2> QED BY <2>1, Numbers DEF RxTypeOK
<1>2. /\ f \in Frames /\ f \in Range(held) /\ d.len = arrived + 1
      /\ Len(rxq') = Len(rxq) + 1 /\ rxq'[Len(rxq) + 1] = d
      /\ \A j \in 1 .. Len(rxq) : rxq'[j] = rxq[j] /\ rxq[j].frame \in Frames
      /\ Range(RxFrames') = Range(RxFrames) \cup {f}
      /\ umem'[f] = arrived + 1
      /\ \A g \in Frames \ {f} : umem'[g] = umem[g]
  BY <1>1, Arrives, Zenon
<1> HIDE DEF f, d
<1>3. Filled' = Filled /\ Filled \subseteq Frames /\ Range(RxFrames) \subseteq Frames
  <2>1. RxFrames \in Seq(Frames)
    BY <1>1, RxRing
  <2>2. Range(RxFrames) \subseteq Frames
    BY <2>1 DEF Range
  <2> QED BY <2>2 DEF Filled, KReceive, userVars
<1>4. f \notin Filled /\ f \notin Range(RxFrames)
  BY <1>1, <1>2 DEF Apart
<1>5. \A g \in Frames : umem[g] <= arrived /\ umem[g] \in Nat
  BY <1>1, ZenonT(30) DEF RxOrderInv
<1>6. \A j \in 1 .. Len(rxq) : rxq[j].len <= arrived /\ rxq[j].len \in Nat /\ 0 < rxq[j].len
  <2>1. \A j \in 1 .. Len(rxq) : umem[rxq[j].frame] = rxq[j].len
    BY <1>1 DEF LengthsRight
  <2> QED BY <1>2, <1>5, <2>1 DEF Numbered
<1>7. \A j \in 1 .. Len(rxq') : 0 < rxq'[j].len
  <2> SUFFICES ASSUME NEW j \in 1 .. Len(rxq') PROVE 0 < rxq'[j].len
    OBVIOUS
  <2>1. j \in 1 .. Len(rxq) \/ j = Len(rxq) + 1
    BY <1>1, <1>2
  <2> QED BY <1>1, <1>2, <1>6, <2>1
<1>8. ASSUME NEW j \in 1 .. Len(rxq'), NEW m \in 1 .. Len(rxq'), j < m
      PROVE  rxq'[j].len < rxq'[m].len
  <2>1. j \in 1 .. Len(rxq) /\ (m \in 1 .. Len(rxq) \/ m = Len(rxq) + 1)
    <3>1. Len(rxq) \in Nat /\ Len(rxq') = Len(rxq) + 1 /\ j < m
      BY <1>1, <1>2, <1>8
    <3> QED BY <3>1
  <2>2. CASE m \in 1 .. Len(rxq)
    BY <1>2, <1>8, <2>1, <2>2, ZenonT(30) DEF Numbered
  <2>3. CASE m = Len(rxq) + 1
    BY <1>1, <1>2, <1>6, <2>1, <2>3
  <2> QED BY <2>1, <2>2, <2>3
<1>9. \A g \in Filled' : 0 < umem'[g]
  BY <1>2, <1>3, <1>4, ZenonT(30) DEF Numbered
<1>10. ASSUME NEW g \in Filled' \cup Range(RxFrames'), NEW h \in Filled' \cup Range(RxFrames'),
              umem'[g] = umem'[h]
       PROVE  g = h
  <2>1. /\ g = f \/ (g \in Filled \cup Range(RxFrames) /\ g \in Frames \ {f})
        /\ h = f \/ (h \in Filled \cup Range(RxFrames) /\ h \in Frames \ {f})
    BY <1>2, <1>3, <1>4, Zenon
  <2>2. \A x \in Frames : umem[x] # arrived + 1
    BY <1>1, <1>5
  <2>3. \A x \in Frames \ {f} : umem'[x] = umem[x] /\ umem'[x] # arrived + 1
    BY <1>2, <2>2, Zenon
  <2> QED BY <1>2, <1>10, <2>1, <2>3, ZenonT(30) DEF Numbered
<1> QED BY <1>7, <1>8, <1>9, <1>10 DEF Numbered

\* It goes to the frame after those on the rx ring.
LEMMA ArriveCircle ==
  ASSUME RxInv, RxOrderInv, pc \notin Panics, Circle, NRxFrames <= FillQueueSize,
         NEW i \in 1 .. NRxFrames, KReceive(i), in_order
  PROVE  Circle'
<1> DEFINE f == held[1]
           d == [frame |-> f, len |-> arrived + 1]
           k == NFilled + Len(rxq)
<1>1. /\ RxTypeOK /\ Accounted /\ arrived \in Nat /\ umem \in [Frames -> Nat]
      /\ held \in Seq(Frames)
  <2>1. RxTypeOK /\ Accounted
    BY DEF RxInv
  <2> QED BY <2>1, Zenon DEF RxTypeOK
<1>2. i = 1 /\ i \in 1 .. Len(held) /\ held' = Without(held, i)
  BY DEF KReceive, Without
<1>3. /\ f \in Frames /\ d.frame = f
      /\ Len(held') = Len(held) - 1
      /\ Len(rxq') = Len(rxq) + 1 /\ rxq'[Len(rxq) + 1] = d
      /\ \A j \in 1 .. Len(rxq) : rxq'[j] = rxq[j]
      /\ umem'[f] = arrived + 1
      /\ \A g \in Frames \ {f} : umem'[g] = umem[g]
  BY <1>1, <1>2, Arrives, Zenon
<1>4. /\ NFilled \in Int /\ Len(rxq) \in Nat /\ Len(held) \in Nat /\ Len(fillq) \in Nat
      /\ rx_cursor \in Frames /\ NRxFrames \in Nat \ {0}
  BY <1>1, CircleNumbers
<1>5. k \in 0 .. NRxFrames - 1
  <2>1. n_frames_to_be_filled = Len(fillq) + Len(held) + Len(rxq)
    BY <1>1 DEF Accounted
  <2>2. NFilled >= 0 /\ n_frames_to_be_filled \in Nat /\ Len(held) >= 1
    BY <1>1, <1>2, <1>4 DEF Circle, RxTypeOK
  <2> QED BY <1>4, <2>1, <2>2 DEF NFilled
<1>6. UNCHANGED <<status, n_frames_to_be_filled, rx_cursor, fillq>>
  BY DEF KReceive, userVars
<1>7. Filled' = Filled /\ NFilled' = NFilled
  BY <1>6 DEF Filled, NFilled
<1>8. f = At(rx_cursor, k)
  <2>1. f = At(rx_cursor, k + 1 - 1)
    BY <1>2 DEF Circle
  <2>2. k + 1 - 1 = k
    BY <1>4
  <2> QED BY <2>1, <2>2
<1>9. \A j \in 1 .. Len(held) - 1 : held'[j] = held[j + 1]
  BY <1>1, <1>2, FirstRemoved, ZenonT(30)
<1> HIDE DEF f, d
<1>10. ASSUME NEW j \in 1 .. Len(rxq') PROVE rxq'[j].frame = At(rx_cursor, NFilled + j - 1)
  <2>1. CASE j \in 1 .. Len(rxq)
    BY <1>3, <2>1 DEF Circle
  <2>2. CASE j = Len(rxq) + 1
    <3>1. NFilled + j - 1 = k
      BY <1>4, <2>2
    <3> QED BY <1>3, <1>8, <2>2, <3>1
  <2> QED BY <1>3, <1>4, <2>1, <2>2
<1>11. ASSUME NEW j \in 1 .. Len(held')
       PROVE  held'[j] = At(rx_cursor, NFilled + Len(rxq') + j - 1)
  <2>1. j + 1 \in 1 .. Len(held) /\ j \in 1 .. Len(held) - 1
    BY <1>3, <1>4
  <2>2. held[j + 1] = At(rx_cursor, NFilled + Len(rxq) + (j + 1) - 1)
    BY <2>1, ZenonT(30) DEF Circle
  <2>3. NFilled + Len(rxq) + (j + 1) - 1 = NFilled + Len(rxq') + j - 1
    BY <1>3, <1>4
  <2> QED BY <1>9, <2>1, <2>2, <2>3
<1>12. ASSUME NEW j \in 1 .. Len(fillq')
       PROVE  fillq'[j] = At(rx_cursor, NFilled + Len(rxq') + Len(held') + j - 1)
  <2>1. NFilled + Len(rxq') + Len(held') + j - 1 = NFilled + Len(rxq) + Len(held) + j - 1
    BY <1>3, <1>4
  <2> QED BY <1>6, <2>1 DEF Circle
<1>13. ASSUME NEW j \in 0 .. NFilled + Len(rxq') - 1, NEW m \in 0 .. NFilled + Len(rxq') - 1,
              j < m
       PROVE  umem'[At(rx_cursor, j)] < umem'[At(rx_cursor, m)]
  <2>1. NFilled + Len(rxq') - 1 = k
    BY <1>3, <1>4
  <2>2. /\ j \in 0 .. k - 1 /\ j \in 0 .. NRxFrames - 1
        /\ m = k \/ (m \in 0 .. k - 1 /\ m \in 0 .. NRxFrames - 1)
    <3>1. j \in 0 .. k /\ m \in 0 .. k /\ j < m /\ k \in Nat /\ k < NRxFrames
      BY <1>4, <1>5, <1>13, <2>1
    <3> QED BY <1>4, <3>1
  <2>3. \A x \in 0 .. k - 1 :
          /\ At(rx_cursor, x) \in Frames \ {f}
          /\ umem'[At(rx_cursor, x)] = umem[At(rx_cursor, x)]
          /\ umem[At(rx_cursor, x)] \in Nat /\ umem[At(rx_cursor, x)] <= arrived
    <3> SUFFICES ASSUME NEW x \in 0 .. k - 1
                 PROVE  /\ At(rx_cursor, x) \in Frames \ {f}
                        /\ umem'[At(rx_cursor, x)] = umem[At(rx_cursor, x)]
                        /\ umem[At(rx_cursor, x)] \in Nat /\ umem[At(rx_cursor, x)] <= arrived
      OBVIOUS
    <3>1. x \in 0 .. NRxFrames - 1 /\ x # k
      BY <1>4, <1>5
    <3>2. At(rx_cursor, x) \in Frames /\ At(rx_cursor, x) # f
      BY <1>4, <1>5, <1>8, <3>1, AtFrame, ZenonT(30)
    <3> QED BY <1>1, <1>3, <3>2, ZenonT(30) DEF RxOrderInv
  <2>4. CASE m = k
    BY <1>1, <1>3, <1>8, <2>2, <2>3, <2>4
  <2>5. CASE m \in 0 .. k - 1
    <3>1. \A x, y \in 0 .. k - 1 : x < y => umem[At(rx_cursor, x)] < umem[At(rx_cursor, y)]
      <4>1. k - 1 = NFilled + Len(rxq) - 1
        BY <1>4
      <4> QED BY <4>1, Zenon DEF Circle
    <3>2. umem[At(rx_cursor, j)] < umem[At(rx_cursor, m)]
      BY <1>13, <2>2, <2>5, <3>1, ZenonT(30)
    <3> QED BY <2>2, <2>3, <2>5, <3>2, Zenon
  <2> QED BY <2>2, <2>4, <2>5
<1> QED BY <1>6, <1>7, <1>10, <1>11, <1>12, <1>13, Zenon DEF Circle

\* A packet is written to a frame the kernel holds.
LEMMA ArriveOrder ==
  ASSUME RxInv, RxOrderInv, NEW i \in 1 .. NRxFrames, KReceive(i) PROVE RxOrderInv'
<1>1. /\ UNCHANGED <<client, in_order, status, n_frames_to_be_filled, rx_cursor>>
      /\ UNCHANGED <<processed, result, fillq, pc>>
      /\ arrived' = arrived + 1 /\ i \in 1 .. Len(held) /\ (in_order => i = 1)
  BY DEF KReceive, userVars, setting
<1>2. RxTypeOK /\ arrived \in Nat /\ umem \in [Frames -> Nat]
  BY DEF RxInv, RxTypeOK
<1>3. Filled' = Filled /\ OnlyRecv' = OnlyRecv
  BY <1>1 DEF Filled, OnlyRecv
<1>4. Starved'
  <2>1. held # <<>>
    BY <1>1
  <2> QED BY <2>1 DEF RxOrderInv, Starved
<1>5. \A f \in Frames : umem'[f] <= arrived'
  <2>1. /\ held[i] \in Frames /\ umem'[held[i]] = arrived + 1
        /\ \A g \in Frames \ {held[i]} : umem'[g] = umem[g]
    BY <1>2, Arrives, Zenon
  <2>2. \A g \in Frames : umem[g] <= arrived /\ umem[g] \in Nat
    BY <1>2 DEF RxOrderInv
  <2> QED BY <1>1, <1>2, <2>1, <2>2
<1>6. "recv" \notin client' => Filled' = {}
  BY <1>1, <1>3 DEF RxOrderInv
<1>7. pc \notin Panics => Numbered'
  BY ArriveNumbered DEF RxOrderInv
<1>8. pc \notin Panics /\ OnlyRecv /\ NRxFrames <= FillQueueSize => Circle'
  BY ArriveCircle DEF RxOrderInv, OnlyRecv
<1>9. Returned => Returned'
  BY <1>1, <1>3 DEF Returned
<1> QED BY <1>1, <1>3, <1>4, <1>5, <1>6, <1>7, <1>8, <1>9, ZenonT(30) DEF RxOrderInv
=============================================================================
