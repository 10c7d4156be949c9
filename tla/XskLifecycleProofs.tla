------------------------- MODULE XskLifecycleProofs -------------------------
(***************************************************************************)
(* Theorems about XskLifecycle, for every configuration, every failure of  *)
(* the construction and every interleaving of the drops.                   *)
(***************************************************************************)
EXTENDS XskLifecycle, SequenceTheorems, TLAPS

\* A leaf that names no prover is tried with SMT, with Zenon, and with SMT
\* again, given more time.
USE SMT, Zenon, SMTT(30), SMTT(40)

Values == Resources \cup Vectors \cup {"fill_q", "comp_q", "tx_q", "rx_q"}
Lists  == [Owners -> Seq(Values)]

\* x is in one of the lists a.
In(a, x) == \E o \in Owners : \E i \in 1 .. Len(a[o]) : a[o][i] = x

\* No value has two owners or is twice in the list of one.
Single(a) ==
  \A o, p \in Owners : \A i \in 1 .. Len(a[o]), j \in 1 .. Len(a[p]) :
    a[o][i] = a[p][j] => o = p /\ i = j

\* What needs the UMEM: its rings, the queues and the socket.
Users == {"fill_q", "comp_q", "tx_q", "rx_q", "socket"}

\* The UMEM is the last to be dropped, by the owner of all that need it.
UmemLast(a) ==
  \A o \in Owners : \A i \in 1 .. Len(a[o]) :
    a[o][i] = "umem" =>
      /\ i = Len(a[o])
      /\ \A p \in Owners \ {o} : \A j \in 1 .. Len(a[p]) : a[p][j] \notin Users

\* Behind a queue or a socket its owner has frames left.
Guarded(a, l) ==
  \A o \in Owners : \A i \in 1 .. Len(a[o]) :
    a[o][i] \in {"tx_q", "rx_q", "socket"} =>
      \E j \in i + 1 .. Len(a[o]) : a[o][j] \in Vectors /\ l[a[o][j]] > 0

\* The strong count of the memory is the number of frames; once it is zero
\* the memory is released, or its last holder is about to.
MmapCounted ==
  /\ refs["mmap"] = left["frames"] + left["tx_frames"] + left["rx_frames"]
  /\ \A v \in Vectors : left[v] > 0 => In(owns, v)
  /\ refs["mmap"] > 0 \/ In(owns, "mmap") => acquired["mmap"] = 1 /\ released["mmap"] = 0
  /\ refs["mmap"] > 0 => ~In(owns, "mmap")
  /\ refs["mmap"] = 0 /\ ~In(owns, "mmap") => released["mmap"] = acquired["mmap"]

\* The same of the socket, whose holders are the two queues.
Queues(a) == (IF In(a, "tx_q") THEN 1 ELSE 0) + (IF In(a, "rx_q") THEN 1 ELSE 0)
SocketCounted ==
  /\ refs["socket"] = Queues(owns)
  /\ refs["socket"] > 0 \/ In(owns, "socket") =>
       acquired["socket"] = 1 /\ released["socket"] = 0
  /\ refs["socket"] > 0 => ~In(owns, "socket")
  /\ refs["socket"] = 0 /\ ~In(owns, "socket") => released["socket"] = acquired["socket"]

\* The UMEM is registered while it is held, as long as one of its rings is,
\* and for ever once forgotten.
UmemCounted ==
  /\ forgotten \/ In(owns, "umem") => acquired["umem"] = 1 /\ released["umem"] = 0
  /\ forgotten => ~In(owns, "umem")
  /\ ~forgotten /\ ~In(owns, "umem") =>
       /\ released["umem"] = acquired["umem"]
       /\ ~In(owns, "fill_q") /\ ~In(owns, "comp_q")

Starting == {"umem_config", "socket_config", "new", "mmap", "err"}
Building == Starting \cup {"umem", "socket", "split", "assemble"}

\* What new has built so far.
Phase ==
  /\ pc \in Building => /\ dropping = {} /\ ~forgotten
                        /\ \A o \in Owners \ {"main"} : owns[o] = <<>>
  /\ pc \in Starting => owns["main"] = <<>> /\ acquired["mmap"] = 0
  /\ pc \in Starting \cup {"umem"} => acquired["umem"] = 0 /\ refs["mmap"] = 0
  /\ pc \in Starting \cup {"umem", "socket"} => acquired["socket"] = 0
  /\ pc = "umem" => owns["main"] = <<"mmap">>
  /\ pc = "socket" => owns["main"] = <<"frames", "comp_q", "fill_q", "umem">>
  /\ pc = "split" => owns["main"] = <<"rx_q", "tx_q", "frames", "comp_q", "fill_q", "umem">>
  /\ pc = "assemble" => owns["main"] = <<"rx_frames", "tx_frames", "rx_q", "tx_q", "frames",
                                         "comp_q", "fill_q", "umem">>
  /\ pc \in {"socket", "split", "assemble"} => left["frames"] = umem_config.frame_count
  /\ pc \in {"socket", "split"} => left["tx_frames"] = 0 /\ left["rx_frames"] = 0
  /\ pc = "assemble" =>
       /\ left["tx_frames"] = args.n_tx_frames
       /\ left["rx_frames"] = umem_config.frame_count - args.n_tx_frames

\* What the configuration is known to satisfy.
Configured ==
  /\ umem_config \in UmemConfigs /\ socket_config \in SocketConfigs /\ args \in Args
  /\ pc \notin {"umem_config", "err"} => umem_config.frame_count # 0
  /\ acquired["umem"] = 1 => KernelTakesUmem(umem_config)

BothHaveFrames == args.api = "Xsk" \/ args.n_tx_frames > 0

LifeInv ==
  /\ LifecycleTypeOK /\ Configured /\ Phase
  /\ Single(owns) /\ UmemLast(owns)
  /\ MmapCounted /\ SocketCounted /\ UmemCounted
  /\ BothHaveFrames => Guarded(owns, left)

-----------------------------------------------------------------------------
(* What a drop does to the lists: it pops the head of one, puts a resource *)
(* in its place, or pushes one in front of it.                             *)

Others(a, b, o) == b \in Lists /\ \A p \in Owners \ {o} : b[p] = a[p]
Popped(a, b, o) ==
  /\ Others(a, b, o)
  /\ Len(a[o]) > 0 /\ Len(b[o]) = Len(a[o]) - 1
  /\ \A i \in 1 .. Len(b[o]) : b[o][i] = a[o][i + 1]
PutFirst(a, b, o, x) ==
  /\ Others(a, b, o)
  /\ Len(a[o]) > 0 /\ Len(b[o]) = Len(a[o]) /\ b[o][1] = x
  /\ \A i \in 2 .. Len(b[o]) : b[o][i] = a[o][i]
Pushed(a, b, o, x) ==
  /\ Others(a, b, o)
  /\ Len(a[o]) > 0 /\ Len(b[o]) = Len(a[o]) + 1 /\ b[o][1] = x
  /\ \A i \in 2 .. Len(b[o]) : b[o][i] = a[o][i - 1]

\* Nothing in place of the head pops it.
LEMMA PopList ==
  ASSUME NEW a \in Lists, NEW o \in Owners, a[o] # <<>>
  PROVE  Popped(a, [a EXCEPT ![o] = <<>> \o Tail(@)], o)
<1> DEFINE b == [a EXCEPT ![o] = <<>> \o Tail(@)]
<1>1. a[o] \in Seq(Values) BY DEF Lists
<1>2. Len(a[o]) \in Nat /\ Len(a[o]) > 0 BY <1>1, EmptySeq, LenProperties
<1>3. /\ Tail(a[o]) \in Seq(Values) /\ Len(Tail(a[o])) = Len(a[o]) - 1
      /\ \A i \in 1 .. Len(Tail(a[o])) : Tail(a[o])[i] = a[o][i + 1]
  BY <1>1, HeadTailProperties
<1>4. <<>> \o Tail(a[o]) = Tail(a[o]) BY <1>3, ConcatEmptySeq
<1>5. b[o] = Tail(a[o]) BY <1>4 DEF Lists
<1>6. b \in Lists BY <1>3, <1>4 DEF Lists
<1>7. Others(a, b, o) BY <1>6 DEF Others, Lists
<1> HIDE DEF b
<1>8. Popped(a, b, o) BY <1>2, <1>3, <1>5, <1>7 DEF Popped
<1> QED BY <1>8 DEF b

\* One resource in place of the head replaces it.
LEMMA PutList ==
  ASSUME NEW a \in Lists, NEW o \in Owners, a[o] # <<>>, NEW x \in Values
  PROVE  PutFirst(a, [a EXCEPT ![o] = <<x>> \o Tail(@)], o, x)
<1> DEFINE b == [a EXCEPT ![o] = <<x>> \o Tail(@)]
<1>1. a[o] \in Seq(Values) BY DEF Lists
<1>2. Len(a[o]) \in Nat /\ Len(a[o]) > 0 BY <1>1, EmptySeq, LenProperties
<1>3. /\ Tail(a[o]) \in Seq(Values) /\ Len(Tail(a[o])) = Len(a[o]) - 1
      /\ \A i \in 1 .. Len(Tail(a[o])) : Tail(a[o])[i] = a[o][i + 1]
  BY <1>1, HeadTailProperties
<1>4. <<x>> \in Seq(Values) /\ Len(<<x>>) = 1 /\ <<x>>[1] = x OBVIOUS
<1>5. /\ <<x>> \o Tail(a[o]) \in Seq(Values) /\ Len(<<x>> \o Tail(a[o])) = Len(a[o])
      /\ \A i \in 1 .. Len(a[o]) :
           (<<x>> \o Tail(a[o]))[i] = IF i <= 1 THEN <<x>>[i] ELSE Tail(a[o])[i - 1]
  BY <1>2, <1>3, <1>4, ConcatProperties
<1>6. b[o] = <<x>> \o Tail(a[o]) BY DEF Lists
<1>7. b \in Lists BY <1>5 DEF Lists
<1>8. Others(a, b, o) BY <1>7 DEF Others, Lists
<1>9. b[o][1] = x BY <1>2, <1>4, <1>5, <1>6
<1>10. \A i \in 2 .. Len(a[o]) : b[o][i] = a[o][i] BY <1>2, <1>3, <1>5, <1>6
<1> HIDE DEF b
<1>11. PutFirst(a, b, o, x) BY <1>2, <1>5, <1>6, <1>8, <1>9, <1>10 DEF PutFirst
<1> QED BY <1>11 DEF b

\* The head in its own place changes nothing.
LEMMA KeepList ==
  ASSUME NEW a \in Lists, NEW o \in Owners, a[o] # <<>>
  PROVE  [a EXCEPT ![o] = (<<>> \o <<Head(a[o])>>) \o Tail(@)] = a
<1> DEFINE h == Head(a[o])
<1>1. a[o] \in Seq(Values) BY DEF Lists
<1>2. Len(a[o]) \in Nat /\ Len(a[o]) > 0 BY <1>1, EmptySeq, LenProperties
<1>3. /\ h \in Values /\ h = a[o][1]
      /\ Tail(a[o]) \in Seq(Values) /\ Len(Tail(a[o])) = Len(a[o]) - 1
      /\ \A i \in 1 .. Len(Tail(a[o])) : Tail(a[o])[i] = a[o][i + 1]
  BY <1>1, <1>2, HeadTailProperties
<1> HIDE DEF h
<1>4. <<h>> \in Seq(Values) /\ Len(<<h>>) = 1 /\ <<h>>[1] = h BY <1>3
<1>5. <<>> \o <<h>> = <<h>> BY <1>4, ConcatEmptySeq
<1>6. /\ <<h>> \o Tail(a[o]) \in Seq(Values) /\ Len(<<h>> \o Tail(a[o])) = Len(a[o])
      /\ \A i \in 1 .. Len(a[o]) :
           (<<h>> \o Tail(a[o]))[i] = IF i <= 1 THEN <<h>>[i] ELSE Tail(a[o])[i - 1]
  BY <1>2, <1>3, <1>4, ConcatProperties
<1>7. \A i \in 1 .. Len(a[o]) : (<<h>> \o Tail(a[o]))[i] = a[o][i]
  BY <1>2, <1>3, <1>4, <1>6
<1>8. <<h>> \o Tail(a[o]) = a[o] BY <1>1, <1>6, <1>7, SeqEqual
<1>9. [a EXCEPT ![o] = (<<>> \o <<h>>) \o Tail(@)] = a BY <1>5, <1>8 DEF Lists
<1> QED BY <1>9 DEF h

\* A resource and the head in the head's place: the resource is in front.
LEMMA PushList ==
  ASSUME NEW a \in Lists, NEW o \in Owners, a[o] # <<>>, NEW x \in Values
  PROVE  Pushed(a, [a EXCEPT ![o] = (<<x>> \o <<Head(a[o])>>) \o Tail(@)], o, x)
<1> DEFINE h == Head(a[o])
<1>1. a[o] \in Seq(Values) BY DEF Lists
<1>2. Len(a[o]) \in Nat /\ Len(a[o]) > 0 BY <1>1, EmptySeq, LenProperties
<1>3. /\ h \in Values /\ h = a[o][1]
      /\ Tail(a[o]) \in Seq(Values) /\ Len(Tail(a[o])) = Len(a[o]) - 1
      /\ \A i \in 1 .. Len(Tail(a[o])) : Tail(a[o])[i] = a[o][i + 1]
  BY <1>1, <1>2, HeadTailProperties
<1> HIDE DEF h
<1> DEFINE s == <<x>> \o <<h>>
           b == [a EXCEPT ![o] = s \o Tail(@)]
<1>4. s \in Seq(Values) /\ Len(s) = 2 /\ s[1] = x /\ s[2] = h BY <1>3
<1> HIDE DEF s
<1>5. /\ s \o Tail(a[o]) \in Seq(Values) /\ Len(s \o Tail(a[o])) = Len(a[o]) + 1
      /\ \A i \in 1 .. Len(a[o]) + 1 :
           (s \o Tail(a[o]))[i] = IF i <= 2 THEN s[i] ELSE Tail(a[o])[i - 2]
  <2>1. Len(s) + Len(Tail(a[o])) = Len(a[o]) + 1 BY <1>2, <1>3, <1>4
  <2> DEFINE t == Tail(a[o])
  <2>2. t \in Seq(Values) BY <1>3
  <2> HIDE DEF t
  <2>3. /\ s \o t \in Seq(Values) /\ Len(s \o t) = Len(s) + Len(t)
        /\ \A i \in 1 .. Len(s) + Len(t) :
             (s \o t)[i] = IF i <= Len(s) THEN s[i] ELSE t[i - Len(s)]
    BY <1>4, <2>2, ConcatProperties, Zenon
  <2> QED BY <1>4, <2>1, <2>3 DEF t
<1>6. b[o] = s \o Tail(a[o]) BY DEF Lists
<1>7. b \in Lists BY <1>5 DEF Lists
<1>8. Others(a, b, o) BY <1>7 DEF Others, Lists
<1>9. b[o][1] = x /\ b[o][2] = h BY <1>2, <1>4, <1>5, <1>6
<1>10. \A i \in 2 .. Len(a[o]) + 1 : b[o][i] = a[o][i - 1]
  BY <1>2, <1>3, <1>5, <1>6, <1>9
<1> HIDE DEF b
<1>11. Pushed(a, b, o, x) BY <1>2, <1>5, <1>6, <1>8, <1>9, <1>10, ZenonT(30) DEF Pushed
<1> QED BY <1>11 DEF b, s, h

\* The same value, as far from the end of the list of p.
Kept(a, b, p, k, i) ==
  /\ k \in 1 .. Len(a[p]) /\ i \in 1 .. Len(b[p])
  /\ Len(a[p]) - k = Len(b[p]) - i /\ a[p][k] = b[p][i]

\* The head of the list of o is gone or the values new are in front of it;
\* all others are kept.
Moved(a, b, o, gone, new) ==
  /\ b \in Lists /\ Len(a[o]) > 0 /\ gone \subseteq {a[o][1]}
  /\ \A x \in new : Len(b[o]) > 0 /\ b[o][1] = x
  /\ \A p \in Owners : \A i \in 1 .. Len(b[p]) :
       \/ p = o /\ i = 1 /\ b[p][i] \in new
       \/ \E k \in 1 .. Len(a[p]) : Kept(a, b, p, k, i) /\ a[p][k] \notin gone
  /\ \A p \in Owners : \A k \in 1 .. Len(a[p]) :
       \/ p = o /\ k = 1 /\ a[p][k] \in gone
       \/ \E i \in 1 .. Len(b[p]) : Kept(a, b, p, k, i)

\* Lengths are numbers.
LEMMA LengthsOf ==
  ASSUME NEW a \in Lists
  PROVE  \A p \in Owners : Len(a[p]) \in Nat
BY DEF Lists

\* The head of a list is nowhere else.
LEMMA HeadOnce ==
  ASSUME NEW a \in Lists, Single(a), NEW o \in Owners, Len(a[o]) > 0,
         NEW p \in Owners, NEW k \in 1 .. Len(a[p]), a[p][k] = a[o][1]
  PROVE  p = o /\ k = 1
<1>1. 1 \in 1 .. Len(a[o]) BY LengthsOf
<1> QED BY <1>1 DEF Single

\* The lists other than that of o are kept.
LEMMA OthersKept ==
  ASSUME NEW a \in Lists, NEW b, NEW o \in Owners, Others(a, b, o),
         NEW p \in Owners \ {o}, NEW k \in 1 .. Len(a[p])
  PROVE  Len(b[p]) = Len(a[p]) /\ Kept(a, b, p, k, k)
BY DEF Others, Kept

\* Popping moves the lists so.
LEMMA PopMoves ==
  ASSUME NEW a \in Lists, NEW b, NEW o \in Owners, Popped(a, b, o), Single(a)
  PROVE  Moved(a, b, o, {a[o][1]}, {})
<1>1. b \in Lists /\ Others(a, b, o) /\ Len(a[o]) > 0 /\ Len(b[o]) = Len(a[o]) - 1
  BY DEF Popped, Others
<1>2. \A p \in Owners : Len(a[p]) \in Nat /\ Len(b[p]) \in Nat BY <1>1, LengthsOf
<1>3. ASSUME NEW p \in Owners, NEW i \in 1 .. Len(b[p])
      PROVE  \E k \in 1 .. Len(a[p]) : Kept(a, b, p, k, i) /\ a[p][k] \notin {a[o][1]}
  <2>1. CASE p = o
    <3>1. i + 1 \in 1 .. Len(a[o]) /\ i + 1 # 1 /\ Len(a[o]) - (i + 1) = Len(b[o]) - i
      BY <1>1, <1>2, <2>1
    <3>2. a[o][i + 1] = b[o][i] BY <2>1 DEF Popped
    <3>3. Kept(a, b, p, i + 1, i) BY <2>1, <3>1, <3>2 DEF Kept
    <3>4. a[p][i + 1] # a[o][1] BY <1>1, <2>1, <3>1, HeadOnce
    <3> QED BY <2>1, <3>1, <3>3, <3>4
  <2>2. CASE p # o
    <3>1. i \in 1 .. Len(a[p]) BY <1>1, <2>2 DEF Others
    <3>2. Kept(a, b, p, i, i) BY <1>1, <2>2, <3>1, OthersKept
    <3>3. a[p][i] # a[o][1] BY <1>1, <2>2, <3>1, HeadOnce
    <3> QED BY <3>1, <3>2, <3>3
  <2> QED BY <2>1, <2>2
<1>4. ASSUME NEW p \in Owners, NEW k \in 1 .. Len(a[p])
      PROVE  \/ p = o /\ k = 1 /\ a[p][k] \in {a[o][1]}
             \/ \E i \in 1 .. Len(b[p]) : Kept(a, b, p, k, i)
  <2>1. CASE p = o /\ k # 1
    <3>1. k - 1 \in 1 .. Len(b[o]) /\ (k - 1) + 1 = k /\ Len(a[o]) - k = Len(b[o]) - (k - 1)
      BY <1>1, <1>2, <2>1
    <3>2. b[o][k - 1] = a[o][(k - 1) + 1] BY <3>1, Zenon DEF Popped
    <3>3. Kept(a, b, p, k, k - 1) BY <2>1, <3>1, <3>2 DEF Kept
    <3> QED BY <2>1, <3>1, <3>3
  <2>2. CASE p # o
    <3>1. k \in 1 .. Len(b[p]) BY <1>1, <2>2 DEF Others
    <3> QED BY <1>1, <2>2, <3>1, OthersKept
  <2> QED BY <2>1, <2>2
<1> QED BY <1>1, <1>3, <1>4 DEF Moved

\* So does putting a resource in the place of the head.
LEMMA PutMoves ==
  ASSUME NEW a \in Lists, NEW b, NEW o \in Owners, NEW x, PutFirst(a, b, o, x), Single(a)
  PROVE  Moved(a, b, o, {a[o][1]}, {x})
<1>1. /\ b \in Lists /\ Others(a, b, o) /\ Len(a[o]) > 0 /\ Len(b[o]) = Len(a[o])
      /\ b[o][1] = x
  BY DEF PutFirst, Others
<1>2. \A p \in Owners : Len(a[p]) \in Nat /\ Len(b[p]) \in Nat BY <1>1, LengthsOf
<1>3. ASSUME NEW k \in 2 .. Len(a[o]) PROVE Kept(a, b, o, k, k)
  BY <1>1, <1>2 DEF Kept, PutFirst
<1>4. ASSUME NEW p \in Owners, NEW i \in 1 .. Len(b[p])
      PROVE  \/ p = o /\ i = 1 /\ b[p][i] \in {x}
             \/ \E k \in 1 .. Len(a[p]) : Kept(a, b, p, k, i) /\ a[p][k] \notin {a[o][1]}
  <2>1. CASE p = o /\ i = 1 BY <1>1, <2>1
  <2>2. CASE ~(p = o /\ i = 1)
    <3>1. i \in 1 .. Len(a[p]) BY <1>1, <1>2 DEF Others
    <3>2. Kept(a, b, p, i, i)
      <4>1. CASE p = o
        <5>1. i \in 2 .. Len(a[o]) BY <1>1, <1>2, <2>2, <4>1
        <5> QED BY <1>3, <4>1, <5>1
      <4>2. CASE p # o BY <1>1, <3>1, <4>2, OthersKept
      <4> QED BY <4>1, <4>2
    <3>3. a[p][i] # a[o][1] BY <1>1, <2>2, <3>1, HeadOnce
    <3> QED BY <3>1, <3>2, <3>3
  <2> QED BY <2>1, <2>2
<1>5. ASSUME NEW p \in Owners, NEW k \in 1 .. Len(a[p])
      PROVE  \/ p = o /\ k = 1 /\ a[p][k] \in {a[o][1]}
             \/ \E i \in 1 .. Len(b[p]) : Kept(a, b, p, k, i)
  <2>1. CASE p = o /\ k # 1
    <3>1. k \in 2 .. Len(a[o]) /\ k \in 1 .. Len(b[o]) BY <1>1, <1>2, <2>1
    <3> QED BY <1>3, <2>1, <3>1
  <2>2. CASE p # o
    <3>1. k \in 1 .. Len(b[p]) BY <1>1, <2>2 DEF Others
    <3> QED BY <1>1, <2>2, <3>1, OthersKept
  <2> QED BY <2>1, <2>2
<1>6. \A y \in {x} : Len(b[o]) > 0 /\ b[o][1] = y BY <1>1
<1> QED BY <1>1, <1>4, <1>5, <1>6, Zenon DEF Moved

\* And so does pushing one.
LEMMA PushMoves ==
  ASSUME NEW a \in Lists, NEW b, NEW o \in Owners, NEW x, Pushed(a, b, o, x)
  PROVE  Moved(a, b, o, {}, {x})
<1>1. /\ b \in Lists /\ Others(a, b, o) /\ Len(a[o]) > 0 /\ Len(b[o]) = Len(a[o]) + 1
      /\ b[o][1] = x
  BY DEF Pushed, Others
<1>2. \A p \in Owners : Len(a[p]) \in Nat /\ Len(b[p]) \in Nat BY <1>1, LengthsOf
<1>3. ASSUME NEW k \in 1 .. Len(a[o]) PROVE Kept(a, b, o, k, k + 1) /\ k + 1 \in 1 .. Len(b[o])
  <2>1. k + 1 \in 2 .. Len(b[o]) /\ k + 1 \in 1 .. Len(b[o]) /\ (k + 1) - 1 = k
        /\ Len(a[o]) - k = Len(b[o]) - (k + 1)
    BY <1>1, <1>2
  <2>2. b[o][k + 1] = a[o][(k + 1) - 1] BY <2>1 DEF Pushed
  <2> QED BY <2>1, <2>2 DEF Kept
<1>4. ASSUME NEW p \in Owners, NEW i \in 1 .. Len(b[p])
      PROVE  \/ p = o /\ i = 1 /\ b[p][i] \in {x}
             \/ \E k \in 1 .. Len(a[p]) : Kept(a, b, p, k, i) /\ a[p][k] \notin {}
  <2>1. CASE p = o /\ i = 1 BY <1>1, <2>1
  <2>2. CASE p = o /\ i # 1
    <3>1. i - 1 \in 1 .. Len(a[o]) /\ (i - 1) + 1 = i BY <1>1, <1>2, <2>2
    <3>2. Kept(a, b, o, i - 1, i) BY <1>3, <3>1
    <3> QED BY <2>2, <3>1, <3>2
  <2>3. CASE p # o
    <3>1. i \in 1 .. Len(a[p]) BY <1>1, <2>3 DEF Others
    <3> QED BY <1>1, <2>3, <3>1, OthersKept
  <2> QED BY <2>1, <2>2, <2>3
<1>5. ASSUME NEW p \in Owners, NEW k \in 1 .. Len(a[p])
      PROVE  \E i \in 1 .. Len(b[p]) : Kept(a, b, p, k, i)
  <2>1. CASE p = o BY <1>3, <2>1
  <2>2. CASE p # o
    <3>1. k \in 1 .. Len(b[p]) BY <1>1, <2>2 DEF Others
    <3> QED BY <1>1, <2>2, <3>1, OthersKept
  <2> QED BY <2>1, <2>2
<1>6. \A y \in {x} : Len(b[o]) > 0 /\ b[o][1] = y BY <1>1, <1>2
<1> QED BY <1>1, <1>4, <1>5, <1>6 DEF Moved

\* Lists that stay are moved by nothing.
LEMMA SameMoves ==
  ASSUME NEW a \in Lists, NEW o \in Owners, Len(a[o]) > 0
  PROVE  Moved(a, a, o, {}, {})
<1>1. ASSUME NEW p \in Owners, NEW k \in 1 .. Len(a[p]) PROVE Kept(a, a, p, k, k)
  BY DEF Kept
<1> QED BY <1>1 DEF Moved

\* A move of the lists leaves no value held twice.
LEMMA MovedSingle ==
  ASSUME NEW a \in Lists, NEW b, NEW o \in Owners, NEW gone, NEW new,
         Moved(a, b, o, gone, new), Single(a), \A x \in new : ~In(a, x)
  PROVE  Single(b)
<1>1. b \in Lists BY DEF Moved
<1>2. \A p \in Owners : Len(a[p]) \in Nat /\ Len(b[p]) \in Nat BY <1>1, LengthsOf
<1> SUFFICES ASSUME NEW p \in Owners, NEW q \in Owners, NEW i \in 1 .. Len(b[p]),
                    NEW j \in 1 .. Len(b[q]), b[p][i] = b[q][j]
             PROVE  p = q /\ i = j
  BY DEF Single
<1>3. \/ p = o /\ i = 1 /\ b[p][i] \in new
      \/ \E k \in 1 .. Len(a[p]) : Kept(a, b, p, k, i) /\ a[p][k] \notin gone
  BY DEF Moved
<1>4. \/ q = o /\ j = 1 /\ b[q][j] \in new
      \/ \E k \in 1 .. Len(a[q]) : Kept(a, b, q, k, j) /\ a[q][k] \notin gone
  BY DEF Moved
<1>5. CASE b[p][i] \in new
  <2>1. ~In(a, b[p][i]) BY <1>5
  <2> QED BY <1>3, <1>4, <2>1 DEF Kept, In
<1>6. CASE b[p][i] \notin new
  <2>1. PICK k \in 1 .. Len(a[p]) : Kept(a, b, p, k, i) BY <1>3, <1>6
  <2>2. PICK m \in 1 .. Len(a[q]) : Kept(a, b, q, m, j) BY <1>4, <1>6
  <2>3. p = q /\ k = m BY <2>1, <2>2 DEF Kept, Single
  <2>4. Len(a[p]) - k = Len(b[p]) - i /\ Len(a[p]) - k = Len(b[p]) - j
    BY <2>1, <2>2, <2>3 DEF Kept
  <2> QED BY <1>2, <2>3, <2>4
<1> QED BY <1>5, <1>6

\* The values held are the old ones without the gone and with the new.
LEMMA MovedIn ==
  ASSUME NEW a \in Lists, NEW b, NEW o \in Owners, NEW gone, NEW new,
         Moved(a, b, o, gone, new), NEW x
  PROVE  In(b, x) <=> (In(a, x) /\ x \notin gone) \/ x \in new
<1>1. ASSUME In(b, x), x \notin new PROVE In(a, x) /\ x \notin gone
  <2>1. PICK p \in Owners : \E i \in 1 .. Len(b[p]) : b[p][i] = x BY <1>1 DEF In
  <2>2. PICK i \in 1 .. Len(b[p]) : b[p][i] = x BY <2>1
  <2>3. PICK k \in 1 .. Len(a[p]) : Kept(a, b, p, k, i) /\ a[p][k] \notin gone
    BY <1>1, <2>2 DEF Moved
  <2> QED BY <2>2, <2>3 DEF Kept, In
<1>2. ASSUME In(a, x), x \notin gone PROVE In(b, x)
  <2>1. PICK p \in Owners : \E k \in 1 .. Len(a[p]) : a[p][k] = x BY <1>2 DEF In
  <2>2. PICK k \in 1 .. Len(a[p]) : a[p][k] = x BY <2>1
  <2>3. PICK i \in 1 .. Len(b[p]) : Kept(a, b, p, k, i) BY <1>2, <2>2 DEF Moved
  <2> QED BY <2>2, <2>3 DEF Kept, In
<1>3. ASSUME x \in new PROVE In(b, x)
  <2>1. Len(b[o]) > 0 /\ b[o][1] = x /\ b \in Lists BY <1>3 DEF Moved
  <2>2. 1 \in 1 .. Len(b[o]) BY <2>1, LengthsOf
  <2> QED BY <2>1, <2>2 DEF In
<1> QED BY <1>1, <1>2, <1>3

\* The UMEM stays last if it is not put in front, and a new user of it comes
\* only in place of another.
LEMMA MovedUmemLast ==
  ASSUME NEW a \in Lists, NEW b, NEW o \in Owners, NEW gone, NEW new,
         Moved(a, b, o, gone, new), UmemLast(a), "umem" \notin new,
         \A x \in new : x \in Users => a[o][1] \in Users
  PROVE  UmemLast(b)
<1>1. b \in Lists /\ Len(a[o]) > 0 BY DEF Moved
<1>2. \A p \in Owners : Len(a[p]) \in Nat /\ Len(b[p]) \in Nat BY <1>1, LengthsOf
<1> SUFFICES ASSUME NEW p \in Owners, NEW i \in 1 .. Len(b[p]), b[p][i] = "umem"
             PROVE  /\ i = Len(b[p])
                    /\ \A q \in Owners \ {p} : \A j \in 1 .. Len(b[q]) : b[q][j] \notin Users
  BY DEF UmemLast
<1>3. PICK k \in 1 .. Len(a[p]) : Kept(a, b, p, k, i) BY DEF Moved
<1>4. /\ k = Len(a[p])
      /\ \A q \in Owners \ {p} : \A j \in 1 .. Len(a[q]) : a[q][j] \notin Users
  BY <1>3 DEF UmemLast, Kept
<1>5. Len(a[p]) - k = Len(b[p]) - i BY <1>3 DEF Kept
<1>6. i = Len(b[p]) BY <1>2, <1>4, <1>5
<1>7. ASSUME NEW q \in Owners \ {p}, NEW j \in 1 .. Len(b[q]) PROVE b[q][j] \notin Users
  <2>1. CASE q = o /\ b[q][j] \in new
    <3>1. 1 \in 1 .. Len(a[o]) BY <1>1, <1>2
    <3> QED BY <1>4, <2>1, <3>1
  <2>2. CASE ~(q = o /\ b[q][j] \in new)
    <3>1. PICK m \in 1 .. Len(a[q]) : Kept(a, b, q, m, j) BY <2>2, ZenonT(30) DEF Moved
    <3> QED BY <1>4, <3>1 DEF Kept
  <2> QED BY <2>1, <2>2
<1> QED BY <1>6, <1>7

\* Queues stay guarded: what guards one is behind the head.
LEMMA MovedGuarded ==
  ASSUME NEW a \in Lists, NEW b, NEW o \in Owners, NEW gone, NEW new,
         Moved(a, b, o, gone, new), Single(a), NEW l, NEW m, Guarded(a, l),
         \A v \in Vectors : v # a[o][1] => m[v] = l[v],
         \A x \in new : x \in {"tx_q", "rx_q", "socket"} => a[o][1] \in {"tx_q", "rx_q", "socket"}
  PROVE  Guarded(b, m)
<1>1. b \in Lists /\ Len(a[o]) > 0 /\ gone \subseteq {a[o][1]} BY DEF Moved
<1>2. \A p \in Owners : Len(a[p]) \in Nat /\ Len(b[p]) \in Nat BY <1>1, LengthsOf
<1> SUFFICES ASSUME NEW p \in Owners, NEW i \in 1 .. Len(b[p]),
                    b[p][i] \in {"tx_q", "rx_q", "socket"}
             PROVE  \E j \in i + 1 .. Len(b[p]) : b[p][j] \in Vectors /\ m[b[p][j]] > 0
  BY DEF Guarded
<1>3. PICK k \in 1 .. Len(a[p]) : /\ a[p][k] \in {"tx_q", "rx_q", "socket"}
                                  /\ i = 1 \/ Len(a[p]) - k = Len(b[p]) - i
  <2>1. CASE p = o /\ i = 1 /\ b[p][i] \in new
    <3>1. 1 \in 1 .. Len(a[p]) BY <1>1, <1>2, <2>1
    <3> QED BY <2>1, <3>1
  <2>2. CASE ~(p = o /\ i = 1 /\ b[p][i] \in new)
    <3>1. PICK k \in 1 .. Len(a[p]) : Kept(a, b, p, k, i) BY <2>2 DEF Moved
    <3> QED BY <3>1 DEF Kept
  <2> QED BY <2>1, <2>2
<1>4. PICK j \in k + 1 .. Len(a[p]) : a[p][j] \in Vectors /\ l[a[p][j]] > 0
  BY <1>3 DEF Guarded
<1>5. j \in 1 .. Len(a[p]) /\ j # 1 BY <1>2, <1>4
<1>6. a[p][j] # a[o][1] BY <1>1, <1>5, HeadOnce
<1>7. PICK n \in 1 .. Len(b[p]) : Kept(a, b, p, j, n) BY <1>1, <1>5, <1>6 DEF Moved
<1>8. Len(a[p]) - j = Len(b[p]) - n /\ b[p][n] = a[p][j] BY <1>7 DEF Kept
<1>9. m[b[p][n]] > 0 /\ b[p][n] \in Vectors BY <1>4, <1>6, <1>8
<1>10. n \in i + 1 .. Len(b[p])
  <2>1. CASE i # 1 BY <1>2, <1>3, <1>4, <1>8, <2>1
  <2>2. CASE i = 1 BY <1>2, <1>9, <2>2 DEF Vectors
  <2> QED BY <2>1, <2>2
<1> QED BY <1>9, <1>10

-----------------------------------------------------------------------------
(* The drops preserve the invariant.                                       *)

\* The type of the lists, and that nothing is dropped during construction.
LEMMA DropFacts ==
  ASSUME LifeInv, NEW o \in Owners, NEW S, NextToDrop(o, S)
  PROVE  /\ owns \in Lists /\ owns[o] # <<>> /\ Len(owns[o]) > 0
         /\ Head(owns[o]) = owns[o][1] /\ owns[o][1] \in S /\ In(owns, owns[o][1])
         /\ pc \in {"returned", "panic"}
<1>1. owns \in Lists BY DEF LifeInv, LifecycleTypeOK, Lists, Values
<1>2. owns[o] # <<>> /\ Head(owns[o]) \in S /\ dropping # {} BY DEF NextToDrop
<1>3. owns[o] \in Seq(Values) /\ Len(owns[o]) \in Nat BY <1>1 DEF Lists
<1>4. Len(owns[o]) > 0 /\ Head(owns[o]) = owns[o][1]
  BY <1>2, <1>3, EmptySeq, HeadTailProperties
<1>5. 1 \in 1 .. Len(owns[o]) BY <1>3, <1>4
<1>6. pc \notin Building BY <1>2 DEF LifeInv, Phase
<1>7. pc \in {"returned", "panic"}
  BY <1>6 DEF LifeInv, LifecycleTypeOK, Building, Starting
<1> QED BY <1>1, <1>2, <1>4, <1>5, <1>7 DEF In

\* What every drop preserves.
LEMMA DropKeeps ==
  ASSUME LifeInv, NEW o \in Owners, NEW S, NextToDrop(o, S), InDrop,
         NEW gone, NEW new, Moved(owns, owns', o, gone, new),
         new \subseteq {"mmap", "socket"}, \A x \in new : ~In(owns, x),
         "socket" \in new => S = {"tx_q", "rx_q"},
         \A v \in Vectors : v # owns[o][1] => left'[v] = left[v]
  PROVE  /\ owns' \in Lists /\ Single(owns)' /\ UmemLast(owns)'
         /\ Phase' /\ Configured' /\ (BothHaveFrames => Guarded(owns, left))'
         /\ \A x : In(owns, x)' <=> (In(owns, x) /\ x \notin gone) \/ x \in new
<1>1. /\ owns \in Lists /\ owns[o][1] \in S /\ pc \in {"returned", "panic"} BY DropFacts
<1>2. owns' \in Lists BY DEF Moved
<1>3. Single(owns) /\ UmemLast(owns) BY DEF LifeInv
<1>4. Single(owns') BY <1>1, <1>3, MovedSingle, Zenon
<1>5. \A x \in new : x \in Users => owns[o][1] \in Users BY <1>1 DEF Users
<1>6. UmemLast(owns') BY <1>1, <1>3, <1>5, MovedUmemLast, Zenon
<1>7. \A x : In(owns', x) <=> (In(owns, x) /\ x \notin gone) \/ x \in new
  BY <1>1, MovedIn
<1>8. Configured' BY DEF LifeInv, Configured, InDrop, configVars
<1>9. Phase' BY <1>1 DEF InDrop, Phase, Building, Starting
<1>10. ASSUME BothHaveFrames' PROVE Guarded(owns', left')
  <2>1. Guarded(owns, left) BY <1>10 DEF BothHaveFrames, InDrop, configVars, LifeInv
  <2>2. \A x \in new : x \in {"tx_q", "rx_q", "socket"} =>
          owns[o][1] \in {"tx_q", "rx_q", "socket"}
    BY <1>1
  <2> QED BY <1>1, <1>3, <2>1, <2>2, MovedGuarded
<1> QED BY <1>2, <1>4, <1>6, <1>7, <1>8, <1>9, <1>10

\* A ring of the UMEM.
LEMMA DropRingKeeps ==
  ASSUME LifeInv, NEW o \in Owners, DropRing(o)
  PROVE  LifeInv'
<1> DEFINE S == {"fill_q", "comp_q"}
           h == owns[o][1]
           new == {}
<1>1. NextToDrop(o, S) /\ InDrop /\ left' = left /\ refs' = refs /\ released' = released
      /\ owns' = [owns EXCEPT ![o] = <<>> \o Tail(@)]
  BY DEF DropRing, Replace
<1>2. owns \in Lists /\ owns[o] # <<>> /\ h \in S BY <1>1, DropFacts
<1> HIDE DEF h
<1>3. Moved(owns, owns', o, {h}, new) BY <1>1, <1>2, PopList, PopMoves, Zenon DEF h, LifeInv
<1>4. /\ owns' \in Lists /\ Single(owns)' /\ UmemLast(owns)'
      /\ Phase' /\ Configured' /\ (BothHaveFrames => Guarded(owns, left))'
      /\ \A x : In(owns, x)' <=> (In(owns, x) /\ x \notin {h}) \/ x \in new
  <2>1. new \subseteq {"mmap", "socket"} /\ (\A x \in new : ~In(owns, x))
        /\ ("socket" \in new => S = {"tx_q", "rx_q"})
        /\ \A v \in Vectors : v # owns[o][1] => left'[v] = left[v]
    BY <1>1
  <2> HIDE DEF S, new
  <2> QED BY <1>1, <1>3, <2>1, DropKeeps, Zenon
<1>5. \A x : x # h => (In(owns, x)' <=> In(owns, x)) BY <1>4
<1>6. ~In(owns', h) BY <1>4
<1>7. LifecycleTypeOK' BY <1>1, <1>4 DEF LifeInv, LifecycleTypeOK, InDrop, Lists, Values
<1>8. MmapCounted'
  <2>1. \A x \in Vectors \cup {"mmap"} : In(owns, x)' <=> In(owns, x)
    BY <1>2, <1>5 DEF Vectors
  <2> QED BY <1>1, <2>1, Zenon DEF LifeInv, MmapCounted, InDrop
<1>9. SocketCounted'
  <2>1. /\ In(owns, "tx_q")' <=> In(owns, "tx_q")
        /\ In(owns, "rx_q")' <=> In(owns, "rx_q")
        /\ In(owns, "socket")' <=> In(owns, "socket")
    BY <1>2, <1>5
  <2> QED BY <1>1, <2>1 DEF LifeInv, SocketCounted, Queues, InDrop
<1>10. UmemCounted'
  <2>1. /\ In(owns, "umem")' <=> In(owns, "umem")
        /\ In(owns, "fill_q")' => In(owns, "fill_q")
        /\ In(owns, "comp_q")' => In(owns, "comp_q")
    BY <1>2, <1>4, <1>5
  <2> QED BY <1>1, <2>1 DEF LifeInv, UmemCounted, InDrop
<1> QED BY <1>4, <1>7, <1>8, <1>9, <1>10 DEF LifeInv

\* A queue, with the socket if it is the last.
LEMMA DropQueueKeeps ==
  ASSUME LifeInv, NEW o \in Owners, DropQueue(o)
  PROVE  LifeInv'
<1> DEFINE S == {"tx_q", "rx_q"}
           h == owns[o][1]
           new == IF refs["socket"] = 1 THEN {"socket"} ELSE {}
<1>1. NextToDrop(o, S) /\ InDrop /\ left' = left /\ released' = released
      /\ refs' = [refs EXCEPT !["socket"] = @ - 1]
      /\ owns' = [owns EXCEPT ![o] = Last("socket") \o Tail(@)]
  BY DEF DropQueue, Replace, Decrement
<1>2. owns \in Lists /\ owns[o] # <<>> /\ h \in S /\ In(owns, h) BY <1>1, DropFacts
<1> HIDE DEF h
<1>3. refs["socket"] \in Nat /\ refs["mmap"] \in Nat /\ SocketCounted
      /\ refs'["socket"] = refs["socket"] - 1 /\ refs'["mmap"] = refs["mmap"]
  BY <1>1 DEF LifeInv, LifecycleTypeOK
<1>4. refs["socket"] > 0 /\ refs["socket"] = Queues(owns) /\ ~In(owns, "socket")
      /\ acquired["socket"] = 1 /\ released["socket"] = 0
  BY <1>2, <1>3 DEF SocketCounted, Queues
<1>5. Moved(owns, owns', o, {h}, new)
  <2>1. CASE refs["socket"] = 1
    <3>1. owns' = [owns EXCEPT ![o] = <<"socket">> \o Tail(@)] BY <1>1, <2>1 DEF Last
    <3>2. "socket" \in Values BY DEF Values, Resources
    <3> QED BY <1>2, <2>1, <3>1, <3>2, PutList, PutMoves, Zenon DEF h, LifeInv
  <2>2. CASE refs["socket"] # 1
    <3>1. owns' = [owns EXCEPT ![o] = <<>> \o Tail(@)] BY <1>1, <2>2 DEF Last
    <3> QED BY <1>2, <2>2, <3>1, PopList, PopMoves, Zenon DEF h, LifeInv
  <2> QED BY <2>1, <2>2
<1>6. new \subseteq {"mmap", "socket"} /\ \A x \in new : ~In(owns, x) BY <1>4
<1>7. /\ owns' \in Lists /\ Single(owns)' /\ UmemLast(owns)'
      /\ Phase' /\ Configured' /\ (BothHaveFrames => Guarded(owns, left))'
      /\ \A x : In(owns, x)' <=> (In(owns, x) /\ x \notin {h}) \/ x \in new
  <2>1. ("socket" \in new => S = {"tx_q", "rx_q"})
        /\ \A v \in Vectors : v # owns[o][1] => left'[v] = left[v]
    BY <1>1
  <2> HIDE DEF S, new
  <2> QED BY <1>1, <1>5, <1>6, <2>1, DropKeeps, Zenon
<1>8. LifecycleTypeOK'
  <2>1. refs["socket"] - 1 \in Nat BY <1>3, <1>4
  <2> QED BY <1>1, <1>7, <2>1 DEF LifeInv, LifecycleTypeOK, InDrop, Lists, Values
<1>9. \A x : x # h /\ x # "socket" => (In(owns, x)' <=> In(owns, x)) BY <1>7
<1>10. MmapCounted'
  <2>1. \A x \in Vectors \cup {"mmap"} : In(owns, x)' <=> In(owns, x)
    BY <1>2, <1>9 DEF Vectors
  <2> QED BY <1>1, <1>3, <2>1, Zenon DEF LifeInv, MmapCounted, InDrop
<1>11. SocketCounted'
  <2>1. ~In(owns', h) BY <1>2, <1>7
  <2>2. In(owns, "socket")' <=> refs["socket"] = 1 BY <1>2, <1>4, <1>7
  <2>3. refs'["socket"] = Queues(owns')
    <3>1. CASE h = "tx_q"
      <4>1. In(owns, "rx_q")' <=> In(owns, "rx_q") BY <1>9, <3>1
      <4> QED BY <1>2, <1>3, <1>4, <2>1, <3>1, <4>1 DEF Queues
    <3>2. CASE h = "rx_q"
      <4>1. In(owns, "tx_q")' <=> In(owns, "tx_q") BY <1>9, <3>2
      <4> QED BY <1>2, <1>3, <1>4, <2>1, <3>2, <4>1 DEF Queues
    <3> QED BY <1>2, <3>1, <3>2
  <2> QED BY <1>1, <1>3, <1>4, <2>2, <2>3 DEF SocketCounted, InDrop
<1>12. UmemCounted'
  <2>1. /\ In(owns, "umem")' <=> In(owns, "umem")
        /\ In(owns, "fill_q")' <=> In(owns, "fill_q")
        /\ In(owns, "comp_q")' <=> In(owns, "comp_q")
    BY <1>2, <1>9
  <2> QED BY <1>1, <2>1 DEF LifeInv, UmemCounted, InDrop
<1> QED BY <1>7, <1>8, <1>10, <1>11, <1>12 DEF LifeInv

\* A frame of a vector, with the memory if it is the last of all; or a vector
\* without frames.
LEMMA DropFrameKeeps ==
  ASSUME LifeInv, NEW o \in Owners, DropFrame(o)
  PROVE  LifeInv'
<1> DEFINE h == owns[o][1]
           gone == IF left[h] = 0 THEN {h} ELSE {}
           new == IF left[h] # 0 /\ refs["mmap"] = 1 THEN {"mmap"} ELSE {}
<1>1. NextToDrop(o, Vectors) /\ InDrop /\ released' = released
  BY DEF DropFrame
<1>2. owns \in Lists /\ owns[o] # <<>> /\ h \in Vectors /\ In(owns, h) /\ Head(owns[o]) = h
      /\ Len(owns[o]) > 0
  BY <1>1, DropFacts
<1>3. /\ left[h] = 0 => /\ left' = left /\ refs' = refs
                        /\ owns' = [owns EXCEPT ![o] = <<>> \o Tail(@)]
      /\ left[h] # 0 => /\ left' = [left EXCEPT ![h] = @ - 1]
                        /\ refs' = [refs EXCEPT !["mmap"] = @ - 1]
                        /\ owns' = [owns EXCEPT ![o] =
                                      (Last("mmap") \o <<Head(owns[o])>>) \o Tail(@)]
  BY <1>2, Zenon DEF DropFrame, Replace, Decrement
<1>4. /\ left \in [Vectors -> Nat] /\ refs \in [{"mmap", "socket"} -> Nat] /\ MmapCounted
      /\ left["frames"] \in Nat /\ left["tx_frames"] \in Nat /\ left["rx_frames"] \in Nat
      /\ left[h] \in Nat /\ refs["mmap"] \in Nat
  BY <1>2 DEF LifeInv, LifecycleTypeOK, Vectors
<1>5. refs["mmap"] = left["frames"] + left["tx_frames"] + left["rx_frames"]
  BY <1>4 DEF MmapCounted
<1>6. left[h] # 0 => refs["mmap"] > 0 BY <1>2, <1>4, <1>5 DEF Vectors
<1>7. left[h] # 0 => ~In(owns, "mmap") BY <1>4, <1>6 DEF MmapCounted
<1> HIDE DEF h
<1>8. Moved(owns, owns', o, gone, new)
  <2>0. Single(owns) BY DEF LifeInv
  <2>1. CASE left[h] = 0
    <3>1. Popped(owns, owns', o) BY <1>2, <1>3, <2>1, PopList
    <3>2. Moved(owns, owns', o, {h}, {}) BY <1>2, <2>0, <3>1, PopMoves DEF h
    <3> QED BY <2>1, <3>2
  <2>2. CASE left[h] # 0 /\ refs["mmap"] = 1
    <3>1. owns' = [owns EXCEPT ![o] = (<<"mmap">> \o <<Head(owns[o])>>) \o Tail(@)]
      BY <1>3, <2>2 DEF Last
    <3>2. "mmap" \in Values BY DEF Values, Resources
    <3>3. Pushed(owns, owns', o, "mmap") BY <1>2, <3>1, <3>2, PushList, Zenon
    <3>4. Moved(owns, owns', o, {}, {"mmap"}) BY <1>2, <3>3, PushMoves
    <3> QED BY <2>2, <3>4
  <2>3. CASE left[h] # 0 /\ refs["mmap"] # 1
    <3>1. owns' = [owns EXCEPT ![o] = (<<>> \o <<Head(owns[o])>>) \o Tail(@)]
      BY <1>3, <2>3 DEF Last
    <3>2. owns' = owns BY <1>2, <3>1, KeepList
    <3>3. Moved(owns, owns, o, {}, {}) BY <1>2, SameMoves
    <3> QED BY <2>3, <3>2, <3>3
  <2> QED BY <2>1, <2>2, <2>3
<1>9. /\ new \subseteq {"mmap", "socket"} /\ (\A x \in new : ~In(owns, x))
      /\ "socket" \notin new
      /\ \A v \in Vectors : v # owns[o][1] => left'[v] = left[v]
  BY <1>3, <1>4, <1>7, Zenon DEF h
<1>10. /\ owns' \in Lists /\ Single(owns)' /\ UmemLast(owns)'
       /\ Phase' /\ Configured' /\ (BothHaveFrames => Guarded(owns, left))'
       /\ \A x : In(owns, x)' <=> (In(owns, x) /\ x \notin gone) \/ x \in new
  <2> HIDE DEF gone, new
  <2> QED BY <1>1, <1>8, <1>9, DropKeeps, Zenon
<1>11. LifecycleTypeOK'
  <2>1. left[h] # 0 => left[h] - 1 \in Nat /\ refs["mmap"] - 1 \in Nat BY <1>4, <1>6
  <2>2. left' \in [Vectors -> Nat] BY <1>2, <1>3, <1>4, <2>1, Zenon
  <2>3. refs' \in [{"mmap", "socket"} -> Nat] BY <1>3, <1>4, <2>1, Zenon
  <2> QED BY <1>1, <1>10, <2>2, <2>3 DEF LifeInv, LifecycleTypeOK, InDrop, Lists, Values
<1>12. \A x : x # h /\ x # "mmap" => (In(owns, x)' <=> In(owns, x)) BY <1>10
<1>13. MmapCounted'
  <2>1. refs'["mmap"] = left'["frames"] + left'["tx_frames"] + left'["rx_frames"]
    <3>1. CASE left[h] = 0 BY <1>3, <1>5, <3>1
    <3>2. CASE left[h] # 0
      <4>1. refs'["mmap"] = refs["mmap"] - 1 BY <1>3, <1>4, <3>2, Zenon
      <4>2. \A v \in Vectors : left'[v] = IF v = h THEN left[v] - 1 ELSE left[v]
        BY <1>2, <1>3, <1>4, <3>2
      <4>3. /\ left'["frames"] = IF "frames" = h THEN left["frames"] - 1 ELSE left["frames"]
            /\ left'["tx_frames"] = IF "tx_frames" = h THEN left["tx_frames"] - 1 ELSE left["tx_frames"]
            /\ left'["rx_frames"] = IF "rx_frames" = h THEN left["rx_frames"] - 1 ELSE left["rx_frames"]
        BY <4>2 DEF Vectors
      <4> QED BY <1>2, <1>4, <1>5, <4>1, <4>3 DEF Vectors
    <3> QED BY <3>1, <3>2
  <2>2. ASSUME NEW v \in Vectors, left'[v] > 0 PROVE In(owns', v)
    <3>1. left[v] > 0 /\ (v = h => left[h] # 0)
      <4>1. CASE left[h] = 0 BY <1>3, <2>2, <4>1
      <4>2. CASE left[h] # 0 BY <1>2, <1>3, <1>4, <2>2, <4>2
      <4> QED BY <4>1, <4>2
    <3>2. In(owns, v) BY <1>4, <3>1 DEF MmapCounted
    <3> QED BY <1>10, <3>1, <3>2
  <2>3. CASE left[h] = 0
    <3>1. In(owns, "mmap")' <=> In(owns, "mmap") BY <1>2, <1>10, <2>3 DEF Vectors
    <3> QED BY <1>1, <1>3, <1>4, <2>1, <2>2, <2>3, <3>1 DEF MmapCounted, InDrop
  <2>4. CASE left[h] # 0
    <3>1. In(owns, "mmap")' <=> refs["mmap"] = 1 BY <1>7, <1>10, <2>4
    <3>2. acquired["mmap"] = 1 /\ released["mmap"] = 0 BY <1>4, <1>6, <2>4 DEF MmapCounted
    <3>3. refs'["mmap"] = refs["mmap"] - 1 BY <1>3, <1>4, <2>4, Zenon
    <3>4. acquired' = acquired /\ released' = released BY <1>1 DEF InDrop
    <3> QED BY <1>4, <1>6, <2>1, <2>2, <2>4, <3>1, <3>2, <3>3, <3>4 DEF MmapCounted
  <2> QED BY <2>3, <2>4
<1>14. SocketCounted'
  <2>1. /\ In(owns, "tx_q")' <=> In(owns, "tx_q")
        /\ In(owns, "rx_q")' <=> In(owns, "rx_q")
        /\ In(owns, "socket")' <=> In(owns, "socket")
    BY <1>2, <1>12 DEF Vectors
  <2>2. refs'["socket"] = refs["socket"] BY <1>3, <1>4, Zenon
  <2> QED BY <1>1, <2>1, <2>2 DEF LifeInv, SocketCounted, Queues, InDrop
<1>15. UmemCounted'
  <2>1. /\ In(owns, "umem")' <=> In(owns, "umem")
        /\ In(owns, "fill_q")' <=> In(owns, "fill_q")
        /\ In(owns, "comp_q")' <=> In(owns, "comp_q")
    BY <1>2, <1>12 DEF Vectors
  <2> QED BY <1>1, <2>1 DEF LifeInv, UmemCounted, InDrop
<1> QED BY <1>10, <1>11, <1>13, <1>14, <1>15 DEF LifeInv

\* The memory, after its last frame.
LEMMA DropMmapKeeps ==
  ASSUME LifeInv, NEW o \in Owners, DropMmap(o)
  PROVE  LifeInv'
<1> DEFINE S == {"mmap"}
           new == {}
<1>1. NextToDrop(o, S) /\ InDrop /\ left' = left /\ refs' = refs
      /\ released' = [released EXCEPT !["mmap"] = @ + 1]
      /\ owns' = [owns EXCEPT ![o] = <<>> \o Tail(@)]
  BY DEF DropMmap, Replace, Release
<1>2. owns \in Lists /\ owns[o] # <<>> /\ owns[o][1] = "mmap" /\ In(owns, "mmap")
  BY <1>1, DropFacts
<1>3. Moved(owns, owns', o, {"mmap"}, new) BY <1>1, <1>2, PopList, PopMoves, Zenon DEF LifeInv
<1>4. /\ owns' \in Lists /\ Single(owns)' /\ UmemLast(owns)'
      /\ Phase' /\ Configured' /\ (BothHaveFrames => Guarded(owns, left))'
      /\ \A x : In(owns, x)' <=> (In(owns, x) /\ x \notin {"mmap"}) \/ x \in new
  <2>1. new \subseteq {"mmap", "socket"} /\ (\A x \in new : ~In(owns, x))
        /\ "socket" \notin new
        /\ \A v \in Vectors : v # owns[o][1] => left'[v] = left[v]
    BY <1>1
  <2> HIDE DEF S, new
  <2> QED BY <1>1, <1>3, <2>1, DropKeeps, Zenon
<1>5. \A x : x # "mmap" => (In(owns, x)' <=> In(owns, x)) BY <1>4
<1>6. ~In(owns, "mmap")' BY <1>4
<1>7. released \in [Resources -> Nat] /\ released["mmap"] = 0 /\ acquired["mmap"] = 1
  BY <1>2 DEF LifeInv, LifecycleTypeOK, MmapCounted
<1>8. /\ \A r \in Resources : released'[r] = IF r = "mmap" THEN 1 ELSE released[r]
      /\ released' \in [Resources -> Nat]
  BY <1>1, <1>7 DEF Resources
<1>9. LifecycleTypeOK' BY <1>1, <1>4, <1>8 DEF LifeInv, LifecycleTypeOK, InDrop, Lists, Values
<1>10. MmapCounted'
  <2>1. \A x \in Vectors : In(owns, x)' <=> In(owns, x) BY <1>5 DEF Vectors
  <2>2. refs["mmap"] = 0 BY <1>2 DEF LifeInv, LifecycleTypeOK, MmapCounted
  <2>3. released'["mmap"] = 1 BY <1>8 DEF Resources
  <2> QED BY <1>1, <1>6, <1>7, <2>1, <2>2, <2>3, Zenon DEF LifeInv, MmapCounted, InDrop
<1>11. SocketCounted'
  <2>1. /\ In(owns, "tx_q")' <=> In(owns, "tx_q")
        /\ In(owns, "rx_q")' <=> In(owns, "rx_q")
        /\ In(owns, "socket")' <=> In(owns, "socket")
    BY <1>5
  <2>2. released'["socket"] = released["socket"] BY <1>8 DEF Resources
  <2> QED BY <1>1, <2>1, <2>2 DEF LifeInv, SocketCounted, Queues, InDrop
<1>12. UmemCounted'
  <2>1. /\ In(owns, "umem")' <=> In(owns, "umem")
        /\ In(owns, "fill_q")' <=> In(owns, "fill_q")
        /\ In(owns, "comp_q")' <=> In(owns, "comp_q")
    BY <1>5
  <2>2. released'["umem"] = released["umem"] BY <1>8 DEF Resources
  <2> QED BY <1>1, <2>1, <2>2 DEF LifeInv, UmemCounted, InDrop
<1> QED BY <1>4, <1>9, <1>10, <1>11, <1>12 DEF LifeInv

\* The socket, after its last queue.
LEMMA DropSocketKeeps ==
  ASSUME LifeInv, NEW o \in Owners, DropSocket(o)
  PROVE  LifeInv'
<1> DEFINE S == {"socket"}
           new == {}
<1>1. NextToDrop(o, S) /\ InDrop /\ left' = left /\ refs' = refs
      /\ released' = [released EXCEPT !["socket"] = @ + 1]
      /\ owns' = [owns EXCEPT ![o] = <<>> \o Tail(@)]
  BY DEF DropSocket, Replace, Release
<1>2. owns \in Lists /\ owns[o] # <<>> /\ owns[o][1] = "socket" /\ In(owns, "socket")
  BY <1>1, DropFacts
<1>3. Moved(owns, owns', o, {"socket"}, new) BY <1>1, <1>2, PopList, PopMoves, Zenon DEF LifeInv
<1>4. /\ owns' \in Lists /\ Single(owns)' /\ UmemLast(owns)'
      /\ Phase' /\ Configured' /\ (BothHaveFrames => Guarded(owns, left))'
      /\ \A x : In(owns, x)' <=> (In(owns, x) /\ x \notin {"socket"}) \/ x \in new
  <2>1. new \subseteq {"mmap", "socket"} /\ (\A x \in new : ~In(owns, x))
        /\ "socket" \notin new
        /\ \A v \in Vectors : v # owns[o][1] => left'[v] = left[v]
    BY <1>1
  <2> HIDE DEF S, new
  <2> QED BY <1>1, <1>3, <2>1, DropKeeps, Zenon
<1>5. \A x : x # "socket" => (In(owns, x)' <=> In(owns, x)) BY <1>4
<1>6. ~In(owns, "socket")' BY <1>4
<1>7. released \in [Resources -> Nat] /\ released["socket"] = 0 /\ acquired["socket"] = 1
  BY <1>2 DEF LifeInv, LifecycleTypeOK, SocketCounted
<1>8. /\ \A r \in Resources : released'[r] = IF r = "socket" THEN 1 ELSE released[r]
      /\ released' \in [Resources -> Nat]
  BY <1>1, <1>7 DEF Resources
<1>9. LifecycleTypeOK' BY <1>1, <1>4, <1>8 DEF LifeInv, LifecycleTypeOK, InDrop, Lists, Values
<1>10. MmapCounted'
  <2>1. \A x \in Vectors \cup {"mmap"} : In(owns, x)' <=> In(owns, x) BY <1>5 DEF Vectors
  <2>2. released'["mmap"] = released["mmap"] BY <1>8 DEF Resources
  <2> QED BY <1>1, <2>1, <2>2, Zenon DEF LifeInv, MmapCounted, InDrop
<1>11. SocketCounted'
  <2>1. /\ In(owns, "tx_q")' <=> In(owns, "tx_q")
        /\ In(owns, "rx_q")' <=> In(owns, "rx_q")
    BY <1>5
  <2>2. refs["socket"] = 0 BY <1>2 DEF LifeInv, LifecycleTypeOK, SocketCounted
  <2>3. released'["socket"] = 1 BY <1>8 DEF Resources
  <2> QED BY <1>1, <1>6, <1>7, <2>1, <2>2, <2>3 DEF LifeInv, SocketCounted, Queues, InDrop
<1>12. UmemCounted'
  <2>1. /\ In(owns, "umem")' <=> In(owns, "umem")
        /\ In(owns, "fill_q")' <=> In(owns, "fill_q")
        /\ In(owns, "comp_q")' <=> In(owns, "comp_q")
    BY <1>5
  <2>2. released'["umem"] = released["umem"] BY <1>8 DEF Resources
  <2> QED BY <1>1, <2>1, <2>2 DEF LifeInv, UmemCounted, InDrop
<1> QED BY <1>4, <1>9, <1>10, <1>11, <1>12 DEF LifeInv

\* The UMEM: no socket is left that would make the kernel refuse.
LEMMA DropUmemKeeps ==
  ASSUME LifeInv, NEW o \in Owners, DropUmem(o)
  PROVE  LifeInv'
<1> DEFINE S == {"umem"}
           new == {}
<1>1. NextToDrop(o, S) /\ InDrop /\ left' = left /\ refs' = refs
      /\ owns' = [owns EXCEPT ![o] = <<>> \o Tail(@)]
  BY DEF DropUmem, Replace
<1>2. /\ owns \in Lists /\ owns[o] # <<>> /\ owns[o][1] = "umem" /\ In(owns, "umem")
      /\ Len(owns[o]) > 0
  BY <1>1, DropFacts
<1>3. ASSUME NEW u \in Users PROVE ~In(owns, u)
  <2>1. SUFFICES ASSUME NEW p \in Owners, NEW j \in 1 .. Len(owns[p]), owns[p][j] = u
                 PROVE  FALSE
    BY DEF In
  <2>2. UmemLast(owns) BY DEF LifeInv
  <2>3. Len(owns[o]) \in Nat /\ 1 \in 1 .. Len(owns[o]) BY <1>2, LengthsOf
  <2>4. /\ 1 = Len(owns[o])
        /\ \A q \in Owners \ {o} : \A i \in 1 .. Len(owns[q]) : owns[q][i] \notin Users
    BY <1>2, <2>2, <2>3, Zenon DEF UmemLast
  <2>5. p = o BY <2>1, <2>4
  <2>6. j \in 1 .. 1 BY <2>4, <2>5, Zenon
  <2>7. j = 1 BY <2>6
  <2> QED BY <1>2, <2>1, <2>5, <2>7, ZenonT(30) DEF Users
<1>4. /\ ~In(owns, "fill_q") /\ ~In(owns, "comp_q") /\ ~In(owns, "tx_q")
      /\ ~In(owns, "rx_q") /\ ~In(owns, "socket")
  BY <1>3 DEF Users
<1>5. refs["socket"] = 0 /\ released["socket"] = acquired["socket"]
  BY <1>4 DEF LifeInv, SocketCounted, Queues
<1>6. ~Live("socket")
  <2>1. acquired["socket"] \in 0 .. 1 BY DEF LifeInv, LifecycleTypeOK, Resources
  <2> QED BY <1>5, <2>1 DEF Live
<1>7. released' = [released EXCEPT !["umem"] = @ + 1] BY <1>6 DEF DropUmem, Release
<1>8. Moved(owns, owns', o, {"umem"}, new) BY <1>1, <1>2, PopList, PopMoves, Zenon DEF LifeInv
<1>9. /\ owns' \in Lists /\ Single(owns)' /\ UmemLast(owns)'
      /\ Phase' /\ Configured' /\ (BothHaveFrames => Guarded(owns, left))'
      /\ \A x : In(owns, x)' <=> (In(owns, x) /\ x \notin {"umem"}) \/ x \in new
  <2>1. new \subseteq {"mmap", "socket"} /\ (\A x \in new : ~In(owns, x))
        /\ "socket" \notin new
        /\ \A v \in Vectors : v # owns[o][1] => left'[v] = left[v]
    BY <1>1
  <2> HIDE DEF S, new
  <2> QED BY <1>1, <1>8, <2>1, DropKeeps, Zenon
<1>10. \A x : x # "umem" => (In(owns, x)' <=> In(owns, x)) BY <1>9
<1>11. ~In(owns, "umem")' BY <1>9
<1>12. released \in [Resources -> Nat] /\ released["umem"] = 0 /\ acquired["umem"] = 1
       /\ ~forgotten
  BY <1>2 DEF LifeInv, LifecycleTypeOK, UmemCounted
<1>13. /\ \A r \in Resources : released'[r] = IF r = "umem" THEN 1 ELSE released[r]
       /\ released' \in [Resources -> Nat]
  BY <1>7, <1>12 DEF Resources
<1>14. LifecycleTypeOK'
  BY <1>1, <1>9, <1>13 DEF LifeInv, LifecycleTypeOK, InDrop, Lists, Values
<1>15. MmapCounted'
  <2>1. \A x \in Vectors \cup {"mmap"} : In(owns, x)' <=> In(owns, x) BY <1>10 DEF Vectors
  <2>2. released'["mmap"] = released["mmap"] BY <1>13 DEF Resources
  <2> QED BY <1>1, <2>1, <2>2, Zenon DEF LifeInv, MmapCounted, InDrop
<1>16. SocketCounted'
  <2>1. /\ In(owns, "tx_q")' <=> In(owns, "tx_q")
        /\ In(owns, "rx_q")' <=> In(owns, "rx_q")
        /\ In(owns, "socket")' <=> In(owns, "socket")
    BY <1>10
  <2>2. released'["socket"] = released["socket"] BY <1>13 DEF Resources
  <2> QED BY <1>1, <2>1, <2>2 DEF LifeInv, SocketCounted, Queues, InDrop
<1>17. UmemCounted'
  <2>1. ~In(owns, "fill_q")' /\ ~In(owns, "comp_q")' BY <1>4, <1>10
  <2>2. released'["umem"] = 1 BY <1>13 DEF Resources
  <2> QED BY <1>1, <1>11, <1>12, <2>1, <2>2 DEF UmemCounted, InDrop
<1> QED BY <1>9, <1>14, <1>15, <1>16, <1>17 DEF LifeInv

-----------------------------------------------------------------------------
(* Construction: the lists that new leaves behind each of its steps.       *)

\* Lists in which only the locals of new hold something.
Locals(s) == [o \in Owners |-> IF o = "main" THEN s ELSE <<>>]

UmemLocals   == <<"frames", "comp_q", "fill_q", "umem">>
SocketLocals == <<"rx_q", "tx_q", "frames", "comp_q", "fill_q", "umem">>
SplitLocals  == <<"rx_frames", "tx_frames", "rx_q", "tx_q", "frames",
                  "comp_q", "fill_q", "umem">>
PanicLocals  == <<"rx_frames", "fill_q", "rx_q", "tx_q", "comp_q",
                  "tx_frames", "frames">>

\* What an Xsk and an Xsk2 leave behind when new returns.
XskLists  == [o \in Owners |-> CASE o = "main" -> <<"frames">>
                                 [] o = "xsk" -> XskFields
                                 [] OTHER -> <<>>]
Xsk2Lists == [o \in Owners |-> CASE o = "main" -> <<"frames">>
                                 [] o = "tx" -> TxFields
                                 [] o = "rx" -> RxFields
                                 [] OTHER -> <<>>]

\* The lists once there is memory.
LEMMA MmapLocalsFacts ==
  LET a == Locals(<<"mmap">>) IN
    /\ a \in Lists /\ Single(a) /\ UmemLast(a)
    /\ \A x : In(a, x) <=> x \in {"mmap"}
    /\ \A l : Guarded(a, l)
<1> DEFINE a == Locals(<<"mmap">>)
           Place(o, i) == \/ o = "main" /\ i = 1 /\ a[o][i] = "mmap"
<1>1. a \in Lists
  BY DEF Locals, Lists, Owners, Values, Resources, Vectors
<1>2. Len(a["main"]) = 1 /\ Len(a["xsk"]) = 0 /\ Len(a["tx"]) = 0 /\ Len(a["rx"]) = 0
  BY DEF Locals, Owners
<1>3. /\ a["main"][1] = "mmap"
  BY DEF Locals, Owners
<1> HIDE DEF a
<1>4. ASSUME NEW o \in Owners, NEW i \in 1 .. Len(a[o]) PROVE Place(o, i)
  <2>1. CASE o = "main"
    <3>1. i \in 1 .. 1 BY <1>2, <2>1, Zenon
    <3>2. i = 1 BY <3>1
    <3> QED BY <1>3, <2>1, <3>2
  <2>2. CASE o = "xsk"
    <3>1. i \in 1 .. 0 BY <1>2, <2>2
    <3> QED BY <3>1
  <2>3. CASE o = "tx"
    <3>1. i \in 1 .. 0 BY <1>2, <2>3
    <3> QED BY <3>1
  <2>4. CASE o = "rx"
    <3>1. i \in 1 .. 0 BY <1>2, <2>4
    <3> QED BY <3>1
  <2> QED BY <2>1, <2>2, <2>3, <2>4 DEF Owners
<1>5. Single(a)
  <2> SUFFICES ASSUME NEW o \in Owners, NEW p \in Owners, NEW i \in 1 .. Len(a[o]),
                      NEW j \in 1 .. Len(a[p]), a[o][i] = a[p][j]
               PROVE  o = p /\ i = j
    BY DEF Single
  <2>1. Place(o, i) /\ Place(p, j) BY <1>4
  <2> QED BY <2>1
<1>6. UmemLast(a) BY <1>2, <1>4 DEF UmemLast, Users
<1>7. ASSUME NEW x, In(a, x) PROVE x \in {"mmap"}
  BY <1>4, <1>7 DEF In
<1>8. ASSUME NEW x \in {"mmap"}
      PROVE  In(a, x)
  <2>1. /\ \A i \in 1 .. 1 : In(a, a["main"][i])
    BY <1>2 DEF In, Owners
  <2> QED BY <1>3, <2>1
<1>9. \A l : Guarded(a, l) BY <1>4 DEF Guarded
<1> QED BY <1>1, <1>5, <1>6, <1>7, <1>8, <1>9 DEF a

\* The lists once there is a UMEM.
LEMMA UmemLocalsFacts ==
  LET a == Locals(UmemLocals) IN
    /\ a \in Lists /\ Single(a) /\ UmemLast(a)
    /\ \A x : In(a, x) <=> x \in {"frames", "comp_q", "fill_q", "umem"}
    /\ \A l : Guarded(a, l)
<1> DEFINE a == Locals(UmemLocals)
           Place(o, i) == \/ o = "main" /\ i = 1 /\ a[o][i] = "frames"
                          \/ o = "main" /\ i = 2 /\ a[o][i] = "comp_q"
                          \/ o = "main" /\ i = 3 /\ a[o][i] = "fill_q"
                          \/ o = "main" /\ i = 4 /\ a[o][i] = "umem"
<1>1. a \in Lists
  BY DEF Locals, UmemLocals, Lists, Owners, Values, Resources, Vectors
<1>2. Len(a["main"]) = 4 /\ Len(a["xsk"]) = 0 /\ Len(a["tx"]) = 0 /\ Len(a["rx"]) = 0
  BY DEF Locals, UmemLocals, Owners
<1>3. /\ a["main"][1] = "frames" /\ a["main"][2] = "comp_q"
      /\ a["main"][3] = "fill_q" /\ a["main"][4] = "umem"
  BY DEF Locals, UmemLocals, Owners
<1> HIDE DEF a
<1>4. ASSUME NEW o \in Owners, NEW i \in 1 .. Len(a[o]) PROVE Place(o, i)
  <2>1. CASE o = "main"
    <3>1. i \in 1 .. 4 BY <1>2, <2>1, Zenon
    <3>2. i = 1 \/ i = 2 \/ i = 3 \/ i = 4 BY <3>1
    <3> QED BY <1>3, <2>1, <3>2
  <2>2. CASE o = "xsk"
    <3>1. i \in 1 .. 0 BY <1>2, <2>2
    <3> QED BY <3>1
  <2>3. CASE o = "tx"
    <3>1. i \in 1 .. 0 BY <1>2, <2>3
    <3> QED BY <3>1
  <2>4. CASE o = "rx"
    <3>1. i \in 1 .. 0 BY <1>2, <2>4
    <3> QED BY <3>1
  <2> QED BY <2>1, <2>2, <2>3, <2>4 DEF Owners
<1>5. Single(a)
  <2> SUFFICES ASSUME NEW o \in Owners, NEW p \in Owners, NEW i \in 1 .. Len(a[o]),
                      NEW j \in 1 .. Len(a[p]), a[o][i] = a[p][j]
               PROVE  o = p /\ i = j
    BY DEF Single
  <2>1. Place(o, i) /\ Place(p, j) BY <1>4
  <2> QED BY <2>1
<1>6. UmemLast(a) BY <1>2, <1>4 DEF UmemLast, Users
<1>7. ASSUME NEW x, In(a, x) PROVE x \in {"frames", "comp_q", "fill_q", "umem"}
  BY <1>4, <1>7 DEF In
<1>8. ASSUME NEW x \in {"frames", "comp_q", "fill_q", "umem"}
      PROVE  In(a, x)
  <2>1. /\ \A i \in 1 .. 4 : In(a, a["main"][i])
    BY <1>2 DEF In, Owners
  <2> QED BY <1>3, <2>1
<1>9. \A l : Guarded(a, l) BY <1>4 DEF Guarded
<1> QED BY <1>1, <1>5, <1>6, <1>7, <1>8, <1>9 DEF a

\* The lists once there is a socket.
LEMMA SocketLocalsFacts ==
  LET a == Locals(SocketLocals) IN
    /\ a \in Lists /\ Single(a) /\ UmemLast(a)
    /\ \A x : In(a, x) <=> x \in {"rx_q", "tx_q", "frames", "comp_q",
                                   "fill_q", "umem"}
    /\ \A l : l["frames"] > 0 => Guarded(a, l)
<1> DEFINE a == Locals(SocketLocals)
           Place(o, i) == \/ o = "main" /\ i = 1 /\ a[o][i] = "rx_q"
                          \/ o = "main" /\ i = 2 /\ a[o][i] = "tx_q"
                          \/ o = "main" /\ i = 3 /\ a[o][i] = "frames"
                          \/ o = "main" /\ i = 4 /\ a[o][i] = "comp_q"
                          \/ o = "main" /\ i = 5 /\ a[o][i] = "fill_q"
                          \/ o = "main" /\ i = 6 /\ a[o][i] = "umem"
<1>1. a \in Lists
  BY DEF Locals, SocketLocals, Lists, Owners, Values, Resources, Vectors
<1>2. Len(a["main"]) = 6 /\ Len(a["xsk"]) = 0 /\ Len(a["tx"]) = 0 /\ Len(a["rx"]) = 0
  BY DEF Locals, SocketLocals, Owners
<1>3. /\ a["main"][1] = "rx_q" /\ a["main"][2] = "tx_q"
      /\ a["main"][3] = "frames" /\ a["main"][4] = "comp_q"
      /\ a["main"][5] = "fill_q" /\ a["main"][6] = "umem"
  BY DEF Locals, SocketLocals, Owners
<1> HIDE DEF a
<1>4. ASSUME NEW o \in Owners, NEW i \in 1 .. Len(a[o]) PROVE Place(o, i)
  <2>1. CASE o = "main"
    <3>1. i \in 1 .. 6 BY <1>2, <2>1, Zenon
    <3>2. i = 1 \/ i = 2 \/ i = 3 \/ i = 4 \/ i = 5 \/ i = 6 BY <3>1
    <3> QED BY <1>3, <2>1, <3>2
  <2>2. CASE o = "xsk"
    <3>1. i \in 1 .. 0 BY <1>2, <2>2
    <3> QED BY <3>1
  <2>3. CASE o = "tx"
    <3>1. i \in 1 .. 0 BY <1>2, <2>3
    <3> QED BY <3>1
  <2>4. CASE o = "rx"
    <3>1. i \in 1 .. 0 BY <1>2, <2>4
    <3> QED BY <3>1
  <2> QED BY <2>1, <2>2, <2>3, <2>4 DEF Owners
<1>5. Single(a)
  <2> SUFFICES ASSUME NEW o \in Owners, NEW p \in Owners, NEW i \in 1 .. Len(a[o]),
                      NEW j \in 1 .. Len(a[p]), a[o][i] = a[p][j]
               PROVE  o = p /\ i = j
    BY DEF Single
  <2>1. Place(o, i) /\ Place(p, j) BY <1>4
  <2> QED BY <2>1
<1>6. UmemLast(a) BY <1>2, <1>4 DEF UmemLast, Users
<1>7. ASSUME NEW x, In(a, x) PROVE x \in {"rx_q", "tx_q", "frames", "comp_q",
                                        "fill_q", "umem"}
  BY <1>4, <1>7 DEF In
<1>8. ASSUME NEW x \in {"rx_q", "tx_q", "frames", "comp_q", "fill_q", "umem"}
      PROVE  In(a, x)
  <2>1. /\ \A i \in 1 .. 6 : In(a, a["main"][i])
    BY <1>2 DEF In, Owners
  <2> QED BY <1>3, <2>1
<1>9. ASSUME NEW l, l["frames"] > 0 PROVE Guarded(a, l)
  <2> SUFFICES ASSUME NEW o \in Owners, NEW i \in 1 .. Len(a[o]),
                      a[o][i] \in {"tx_q", "rx_q", "socket"}
               PROVE  \E j \in i + 1 .. Len(a[o]) : a[o][j] \in Vectors /\ l[a[o][j]] > 0
    BY DEF Guarded
  <2>1. \/ o = "main" /\ i = 1
        \/ o = "main" /\ i = 2
    BY <1>4
  <2>2. CASE o = "main" /\ i = 1
    <3>1. Len(a[o]) = 6 BY <1>2, <2>2
    <3>2. 3 \in i + 1 .. Len(a[o]) BY <2>2, <3>1
    <3> QED BY <1>3, <1>9, <2>2, <3>2 DEF Vectors
  <2>3. CASE o = "main" /\ i = 2
    <3>1. Len(a[o]) = 6 BY <1>2, <2>3
    <3>2. 3 \in i + 1 .. Len(a[o]) BY <2>3, <3>1
    <3> QED BY <1>3, <1>9, <2>3, <3>2 DEF Vectors
  <2> QED BY <1>9, <2>1, <2>2, <2>3
<1> QED BY <1>1, <1>5, <1>6, <1>7, <1>8, <1>9 DEF a

\* The lists once the frames are split.
LEMMA SplitLocalsFacts ==
  LET a == Locals(SplitLocals) IN
    /\ a \in Lists /\ Single(a) /\ UmemLast(a)
    /\ \A x : In(a, x) <=> x \in {"rx_frames", "tx_frames", "rx_q", "tx_q",
                                   "frames", "comp_q", "fill_q", "umem"}
    /\ \A l : l["frames"] > 0 => Guarded(a, l)
<1> DEFINE a == Locals(SplitLocals)
           Place(o, i) == \/ o = "main" /\ i = 1 /\ a[o][i] = "rx_frames"
                          \/ o = "main" /\ i = 2 /\ a[o][i] = "tx_frames"
                          \/ o = "main" /\ i = 3 /\ a[o][i] = "rx_q"
                          \/ o = "main" /\ i = 4 /\ a[o][i] = "tx_q"
                          \/ o = "main" /\ i = 5 /\ a[o][i] = "frames"
                          \/ o = "main" /\ i = 6 /\ a[o][i] = "comp_q"
                          \/ o = "main" /\ i = 7 /\ a[o][i] = "fill_q"
                          \/ o = "main" /\ i = 8 /\ a[o][i] = "umem"
<1>1. a \in Lists
  BY DEF Locals, SplitLocals, Lists, Owners, Values, Resources, Vectors
<1>2. Len(a["main"]) = 8 /\ Len(a["xsk"]) = 0 /\ Len(a["tx"]) = 0 /\ Len(a["rx"]) = 0
  BY DEF Locals, SplitLocals, Owners
<1>3. /\ a["main"][1] = "rx_frames" /\ a["main"][2] = "tx_frames"
      /\ a["main"][3] = "rx_q" /\ a["main"][4] = "tx_q"
      /\ a["main"][5] = "frames" /\ a["main"][6] = "comp_q"
      /\ a["main"][7] = "fill_q" /\ a["main"][8] = "umem"
  BY DEF Locals, SplitLocals, Owners
<1> HIDE DEF a
<1>4. ASSUME NEW o \in Owners, NEW i \in 1 .. Len(a[o]) PROVE Place(o, i)
  <2>1. CASE o = "main"
    <3>1. i \in 1 .. 8 BY <1>2, <2>1
    <3>2. i = 1 \/ i = 2 \/ i = 3 \/ i = 4 \/ i = 5 \/ i = 6 \/ i = 7 \/ i = 8 BY <3>1
    <3> QED BY <1>3, <2>1, <3>2
  <2>2. CASE o = "xsk"
    <3>1. i \in 1 .. 0 BY <1>2, <2>2
    <3> QED BY <3>1
  <2>3. CASE o = "tx"
    <3>1. i \in 1 .. 0 BY <1>2, <2>3
    <3> QED BY <3>1
  <2>4. CASE o = "rx"
    <3>1. i \in 1 .. 0 BY <1>2, <2>4
    <3> QED BY <3>1
  <2> QED BY <2>1, <2>2, <2>3, <2>4 DEF Owners
<1>5. Single(a)
  <2> SUFFICES ASSUME NEW o \in Owners, NEW p \in Owners, NEW i \in 1 .. Len(a[o]),
                      NEW j \in 1 .. Len(a[p]), a[o][i] = a[p][j]
               PROVE  o = p /\ i = j
    BY DEF Single
  <2>1. Place(o, i) /\ Place(p, j) BY <1>4
  <2> QED BY <2>1
<1>6. UmemLast(a) BY <1>2, <1>4 DEF UmemLast, Users
<1>7. ASSUME NEW x, In(a, x) PROVE x \in {"rx_frames", "tx_frames", "rx_q",
                                        "tx_q", "frames", "comp_q", "fill_q",
                                        "umem"}
  BY <1>4, <1>7 DEF In
<1>8. ASSUME NEW x \in {"rx_frames", "tx_frames", "rx_q", "tx_q", "frames",
                       "comp_q", "fill_q", "umem"}
      PROVE  In(a, x)
  <2>1. /\ \A i \in 1 .. 8 : In(a, a["main"][i])
    BY <1>2 DEF In, Owners
  <2> QED BY <1>3, <2>1
<1>9. ASSUME NEW l, l["frames"] > 0 PROVE Guarded(a, l)
  <2> SUFFICES ASSUME NEW o \in Owners, NEW i \in 1 .. Len(a[o]),
                      a[o][i] \in {"tx_q", "rx_q", "socket"}
               PROVE  \E j \in i + 1 .. Len(a[o]) : a[o][j] \in Vectors /\ l[a[o][j]] > 0
    BY DEF Guarded
  <2>1. \/ o = "main" /\ i = 3
        \/ o = "main" /\ i = 4
    BY <1>4
  <2>2. CASE o = "main" /\ i = 3
    <3>1. Len(a[o]) = 8 BY <1>2, <2>2
    <3>2. 5 \in i + 1 .. Len(a[o]) BY <2>2, <3>1
    <3> QED BY <1>3, <1>9, <2>2, <3>2 DEF Vectors
  <2>3. CASE o = "main" /\ i = 4
    <3>1. Len(a[o]) = 8 BY <1>2, <2>3
    <3>2. 5 \in i + 1 .. Len(a[o]) BY <2>3, <3>1
    <3> QED BY <1>3, <1>9, <2>3, <3>2 DEF Vectors
  <2> QED BY <1>9, <2>1, <2>2, <2>3
<1> QED BY <1>1, <1>5, <1>6, <1>7, <1>8, <1>9 DEF a

\* The lists when XskRx::new panics.
LEMMA PanicLocalsFacts ==
  LET a == Locals(PanicLocals) IN
    /\ a \in Lists /\ Single(a) /\ UmemLast(a)
    /\ \A x : In(a, x) <=> x \in {"rx_frames", "fill_q", "rx_q", "tx_q",
                                   "comp_q", "tx_frames", "frames"}
    /\ \A l : l["frames"] > 0 => Guarded(a, l)
<1> DEFINE a == Locals(PanicLocals)
           Place(o, i) == \/ o = "main" /\ i = 1 /\ a[o][i] = "rx_frames"
                          \/ o = "main" /\ i = 2 /\ a[o][i] = "fill_q"
                          \/ o = "main" /\ i = 3 /\ a[o][i] = "rx_q"
                          \/ o = "main" /\ i = 4 /\ a[o][i] = "tx_q"
                          \/ o = "main" /\ i = 5 /\ a[o][i] = "comp_q"
                          \/ o = "main" /\ i = 6 /\ a[o][i] = "tx_frames"
                          \/ o = "main" /\ i = 7 /\ a[o][i] = "frames"
<1>1. a \in Lists
  BY DEF Locals, PanicLocals, Lists, Owners, Values, Resources, Vectors
<1>2. Len(a["main"]) = 7 /\ Len(a["xsk"]) = 0 /\ Len(a["tx"]) = 0 /\ Len(a["rx"]) = 0
  BY DEF Locals, PanicLocals, Owners
<1>3. /\ a["main"][1] = "rx_frames" /\ a["main"][2] = "fill_q"
      /\ a["main"][3] = "rx_q" /\ a["main"][4] = "tx_q"
      /\ a["main"][5] = "comp_q" /\ a["main"][6] = "tx_frames"
      /\ a["main"][7] = "frames"
  BY DEF Locals, PanicLocals, Owners
<1> HIDE DEF a
<1>4. ASSUME NEW o \in Owners, NEW i \in 1 .. Len(a[o]) PROVE Place(o, i)
  <2>1. CASE o = "main"
    <3>1. i \in 1 .. 7 BY <1>2, <2>1, Zenon
    <3>2. i = 1 \/ i = 2 \/ i = 3 \/ i = 4 \/ i = 5 \/ i = 6 \/ i = 7 BY <3>1
    <3> QED BY <1>3, <2>1, <3>2
  <2>2. CASE o = "xsk"
    <3>1. i \in 1 .. 0 BY <1>2, <2>2
    <3> QED BY <3>1
  <2>3. CASE o = "tx"
    <3>1. i \in 1 .. 0 BY <1>2, <2>3
    <3> QED BY <3>1
  <2>4. CASE o = "rx"
    <3>1. i \in 1 .. 0 BY <1>2, <2>4
    <3> QED BY <3>1
  <2> QED BY <2>1, <2>2, <2>3, <2>4 DEF Owners
<1>5. Single(a)
  <2> SUFFICES ASSUME NEW o \in Owners, NEW p \in Owners, NEW i \in 1 .. Len(a[o]),
                      NEW j \in 1 .. Len(a[p]), a[o][i] = a[p][j]
               PROVE  o = p /\ i = j
    BY DEF Single
  <2>1. Place(o, i) /\ Place(p, j) BY <1>4
  <2> QED BY <2>1
<1>6. UmemLast(a) BY <1>2, <1>4 DEF UmemLast, Users
<1>7. ASSUME NEW x, In(a, x) PROVE x \in {"rx_frames", "fill_q", "rx_q", "tx_q",
                                        "comp_q", "tx_frames", "frames"}
  BY <1>4, <1>7 DEF In
<1>8. ASSUME NEW x \in {"rx_frames", "fill_q", "rx_q", "tx_q", "comp_q",
                       "tx_frames", "frames"}
      PROVE  In(a, x)
  <2>1. /\ \A i \in 1 .. 7 : In(a, a["main"][i])
    BY <1>2 DEF In, Owners
  <2> QED BY <1>3, <2>1
<1>9. ASSUME NEW l, l["frames"] > 0 PROVE Guarded(a, l)
  <2> SUFFICES ASSUME NEW o \in Owners, NEW i \in 1 .. Len(a[o]),
                      a[o][i] \in {"tx_q", "rx_q", "socket"}
               PROVE  \E j \in i + 1 .. Len(a[o]) : a[o][j] \in Vectors /\ l[a[o][j]] > 0
    BY DEF Guarded
  <2>1. \/ o = "main" /\ i = 3
        \/ o = "main" /\ i = 4
    BY <1>4
  <2>2. CASE o = "main" /\ i = 3
    <3>1. Len(a[o]) = 7 BY <1>2, <2>2
    <3>2. 7 \in i + 1 .. Len(a[o]) BY <2>2, <3>1
    <3> QED BY <1>3, <1>9, <2>2, <3>2 DEF Vectors
  <2>3. CASE o = "main" /\ i = 4
    <3>1. Len(a[o]) = 7 BY <1>2, <2>3
    <3>2. 7 \in i + 1 .. Len(a[o]) BY <2>3, <3>1
    <3> QED BY <1>3, <1>9, <2>3, <3>2 DEF Vectors
  <2> QED BY <1>9, <2>1, <2>2, <2>3
<1> QED BY <1>1, <1>5, <1>6, <1>7, <1>8, <1>9 DEF a

\* The lists when Xsk::new returns.
LEMMA XskListsFacts ==
  LET a == XskLists IN
    /\ a \in Lists /\ Single(a) /\ UmemLast(a)
    /\ \A x : In(a, x) <=> x \in {"frames", "fill_q", "comp_q", "tx_q",
                                   "rx_q", "tx_frames", "rx_frames", "umem"}
    /\ \A l : l["tx_frames"] > 0 \/ l["rx_frames"] > 0 => Guarded(a, l)
<1> DEFINE a == XskLists
           Place(o, i) == \/ o = "main" /\ i = 1 /\ a[o][i] = "frames"
                          \/ o = "xsk" /\ i = 1 /\ a[o][i] = "fill_q"
                          \/ o = "xsk" /\ i = 2 /\ a[o][i] = "comp_q"
                          \/ o = "xsk" /\ i = 3 /\ a[o][i] = "tx_q"
                          \/ o = "xsk" /\ i = 4 /\ a[o][i] = "rx_q"
                          \/ o = "xsk" /\ i = 5 /\ a[o][i] = "tx_frames"
                          \/ o = "xsk" /\ i = 6 /\ a[o][i] = "rx_frames"
                          \/ o = "xsk" /\ i = 7 /\ a[o][i] = "umem"
<1>1. a \in Lists
  BY DEF XskLists, XskFields, Lists, Owners, Values, Resources, Vectors
<1>2. Len(a["main"]) = 1 /\ Len(a["xsk"]) = 7 /\ Len(a["tx"]) = 0 /\ Len(a["rx"]) = 0
  BY DEF XskLists, XskFields, Owners
<1>3. /\ a["main"][1] = "frames" /\ a["xsk"][1] = "fill_q"
      /\ a["xsk"][2] = "comp_q" /\ a["xsk"][3] = "tx_q"
      /\ a["xsk"][4] = "rx_q" /\ a["xsk"][5] = "tx_frames"
      /\ a["xsk"][6] = "rx_frames" /\ a["xsk"][7] = "umem"
  BY ZenonT(30) DEF XskLists, XskFields, Owners
<1> HIDE DEF a
<1>4. ASSUME NEW o \in Owners, NEW i \in 1 .. Len(a[o]) PROVE Place(o, i)
  <2>1. CASE o = "main"
    <3>1. i \in 1 .. 1 BY <1>2, <2>1, Zenon
    <3>2. i = 1 BY <3>1
    <3> QED BY <1>3, <2>1, <3>2
  <2>2. CASE o = "xsk"
    <3>1. i \in 1 .. 7 BY <1>2, <2>2, Zenon
    <3>2. i = 1 \/ i = 2 \/ i = 3 \/ i = 4 \/ i = 5 \/ i = 6 \/ i = 7 BY <3>1
    <3> QED BY <1>3, <2>2, <3>2
  <2>3. CASE o = "tx"
    <3>1. i \in 1 .. 0 BY <1>2, <2>3
    <3> QED BY <3>1
  <2>4. CASE o = "rx"
    <3>1. i \in 1 .. 0 BY <1>2, <2>4
    <3> QED BY <3>1
  <2> QED BY <2>1, <2>2, <2>3, <2>4 DEF Owners
<1>5. Single(a)
  <2> SUFFICES ASSUME NEW o \in Owners, NEW p \in Owners, NEW i \in 1 .. Len(a[o]),
                      NEW j \in 1 .. Len(a[p]), a[o][i] = a[p][j]
               PROVE  o = p /\ i = j
    BY DEF Single
  <2>1. Place(o, i) /\ Place(p, j) BY <1>4
  <2> QED BY <2>1
<1>6. UmemLast(a) BY <1>2, <1>4 DEF UmemLast, Users
<1>7. ASSUME NEW x, In(a, x) PROVE x \in {"frames", "fill_q", "comp_q", "tx_q",
                                        "rx_q", "tx_frames", "rx_frames",
                                        "umem"}
  BY <1>4, <1>7 DEF In
<1>8. ASSUME NEW x \in {"frames", "fill_q", "comp_q", "tx_q", "rx_q",
                       "tx_frames", "rx_frames", "umem"}
      PROVE  In(a, x)
  <2>1. /\ \A i \in 1 .. 1 : In(a, a["main"][i])
        /\ \A i \in 1 .. 7 : In(a, a["xsk"][i])
    BY <1>2, Zenon DEF In, Owners
  <2> QED BY <1>3, <2>1
<1>9. ASSUME NEW l, l["tx_frames"] > 0 \/ l["rx_frames"] > 0 PROVE Guarded(a, l)
  <2> SUFFICES ASSUME NEW o \in Owners, NEW i \in 1 .. Len(a[o]),
                      a[o][i] \in {"tx_q", "rx_q", "socket"}
               PROVE  \E j \in i + 1 .. Len(a[o]) : a[o][j] \in Vectors /\ l[a[o][j]] > 0
    BY DEF Guarded
  <2>1. \/ o = "xsk" /\ i = 3
        \/ o = "xsk" /\ i = 4
    BY <1>4
  <2>2. CASE o = "xsk" /\ i = 3 /\ l["tx_frames"] > 0
    <3>1. Len(a[o]) = 7 BY <1>2, <2>2
    <3>2. 5 \in i + 1 .. Len(a[o]) BY <2>2, <3>1
    <3> QED BY <1>3, <1>9, <2>2, <3>2 DEF Vectors
  <2>3. CASE o = "xsk" /\ i = 3 /\ l["rx_frames"] > 0
    <3>1. Len(a[o]) = 7 BY <1>2, <2>3
    <3>2. 6 \in i + 1 .. Len(a[o]) BY <2>3, <3>1
    <3> QED BY <1>3, <1>9, <2>3, <3>2 DEF Vectors
  <2>4. CASE o = "xsk" /\ i = 4 /\ l["tx_frames"] > 0
    <3>1. Len(a[o]) = 7 BY <1>2, <2>4
    <3>2. 5 \in i + 1 .. Len(a[o]) BY <2>4, <3>1
    <3> QED BY <1>3, <1>9, <2>4, <3>2 DEF Vectors
  <2>5. CASE o = "xsk" /\ i = 4 /\ l["rx_frames"] > 0
    <3>1. Len(a[o]) = 7 BY <1>2, <2>5
    <3>2. 6 \in i + 1 .. Len(a[o]) BY <2>5, <3>1
    <3> QED BY <1>3, <1>9, <2>5, <3>2 DEF Vectors
  <2> QED BY <1>9, <2>1, <2>2, <2>3, <2>4, <2>5
<1> QED BY <1>1, <1>5, <1>6, <1>7, <1>8, <1>9 DEF a

\* The lists when Xsk2::new returns.
LEMMA Xsk2ListsFacts ==
  LET a == Xsk2Lists IN
    /\ a \in Lists /\ Single(a) /\ UmemLast(a)
    /\ \A x : In(a, x) <=> x \in {"frames", "tx_q", "comp_q", "tx_frames",
                                   "fill_q", "rx_q", "rx_frames"}
    /\ \A l : l["tx_frames"] > 0 /\ l["rx_frames"] > 0 => Guarded(a, l)
<1> DEFINE a == Xsk2Lists
           Place(o, i) == \/ o = "main" /\ i = 1 /\ a[o][i] = "frames"
                          \/ o = "tx" /\ i = 1 /\ a[o][i] = "tx_q"
                          \/ o = "tx" /\ i = 2 /\ a[o][i] = "comp_q"
                          \/ o = "tx" /\ i = 3 /\ a[o][i] = "tx_frames"
                          \/ o = "rx" /\ i = 1 /\ a[o][i] = "fill_q"
                          \/ o = "rx" /\ i = 2 /\ a[o][i] = "rx_q"
                          \/ o = "rx" /\ i = 3 /\ a[o][i] = "rx_frames"
<1>1. a \in Lists
  BY DEF Xsk2Lists, TxFields, RxFields, Lists, Owners, Values, Resources, Vectors
<1>2. Len(a["main"]) = 1 /\ Len(a["xsk"]) = 0 /\ Len(a["tx"]) = 3 /\ Len(a["rx"]) = 3
  BY DEF Xsk2Lists, TxFields, RxFields, Owners
<1>3. /\ a["main"][1] = "frames" /\ a["tx"][1] = "tx_q"
      /\ a["tx"][2] = "comp_q" /\ a["tx"][3] = "tx_frames"
      /\ a["rx"][1] = "fill_q" /\ a["rx"][2] = "rx_q"
      /\ a["rx"][3] = "rx_frames"
  BY DEF Xsk2Lists, TxFields, RxFields, Owners
<1> HIDE DEF a
<1>4. ASSUME NEW o \in Owners, NEW i \in 1 .. Len(a[o]) PROVE Place(o, i)
  <2>1. CASE o = "main"
    <3>1. i \in 1 .. 1 BY <1>2, <2>1, Zenon
    <3>2. i = 1 BY <3>1
    <3> QED BY <1>3, <2>1, <3>2
  <2>2. CASE o = "xsk"
    <3>1. i \in 1 .. 0 BY <1>2, <2>2
    <3> QED BY <3>1
  <2>3. CASE o = "tx"
    <3>1. i \in 1 .. 3 BY <1>2, <2>3, Zenon
    <3>2. i = 1 \/ i = 2 \/ i = 3 BY <3>1
    <3> QED BY <1>3, <2>3, <3>2
  <2>4. CASE o = "rx"
    <3>1. i \in 1 .. 3 BY <1>2, <2>4, Zenon
    <3>2. i = 1 \/ i = 2 \/ i = 3 BY <3>1
    <3> QED BY <1>3, <2>4, <3>2
  <2> QED BY <2>1, <2>2, <2>3, <2>4 DEF Owners
<1>5. Single(a)
  <2> SUFFICES ASSUME NEW o \in Owners, NEW p \in Owners, NEW i \in 1 .. Len(a[o]),
                      NEW j \in 1 .. Len(a[p]), a[o][i] = a[p][j]
               PROVE  o = p /\ i = j
    BY DEF Single
  <2>1. Place(o, i) /\ Place(p, j) BY <1>4
  <2> QED BY <2>1
<1>6. UmemLast(a) BY <1>2, <1>4 DEF UmemLast, Users
<1>7. ASSUME NEW x, In(a, x) PROVE x \in {"frames", "tx_q", "comp_q",
                                        "tx_frames", "fill_q", "rx_q",
                                        "rx_frames"}
  BY <1>4, <1>7 DEF In
<1>8. ASSUME NEW x \in {"frames", "tx_q", "comp_q", "tx_frames", "fill_q",
                       "rx_q", "rx_frames"}
      PROVE  In(a, x)
  <2>1. /\ \A i \in 1 .. 1 : In(a, a["main"][i])
        /\ \A i \in 1 .. 3 : In(a, a["tx"][i])
        /\ \A i \in 1 .. 3 : In(a, a["rx"][i])
    BY <1>2 DEF In, Owners
  <2> QED BY <1>3, <2>1
<1>9. ASSUME NEW l, l["tx_frames"] > 0 /\ l["rx_frames"] > 0 PROVE Guarded(a, l)
  <2> SUFFICES ASSUME NEW o \in Owners, NEW i \in 1 .. Len(a[o]),
                      a[o][i] \in {"tx_q", "rx_q", "socket"}
               PROVE  \E j \in i + 1 .. Len(a[o]) : a[o][j] \in Vectors /\ l[a[o][j]] > 0
    BY DEF Guarded
  <2>1. \/ o = "tx" /\ i = 1
        \/ o = "rx" /\ i = 2
    BY <1>4
  <2>2. CASE o = "tx" /\ i = 1
    <3>1. Len(a[o]) = 3 BY <1>2, <2>2
    <3>2. 3 \in i + 1 .. Len(a[o]) BY <2>2, <3>1
    <3> QED BY <1>3, <1>9, <2>2, <3>2 DEF Vectors
  <2>3. CASE o = "rx" /\ i = 2
    <3>1. Len(a[o]) = 3 BY <1>2, <2>3
    <3>2. 3 \in i + 1 .. Len(a[o]) BY <2>3, <3>1
    <3> QED BY <1>3, <1>9, <2>3, <3>2 DEF Vectors
  <2> QED BY <1>9, <2>1, <2>2, <2>3
<1> QED BY <1>1, <1>5, <1>6, <1>7, <1>8, <1>9 DEF a

\* Nothing is held.
LEMMA EmptyFacts ==
  LET a == Locals(<<>>) IN
    /\ a \in Lists /\ Single(a) /\ UmemLast(a)
    /\ \A x : ~In(a, x)
    /\ \A l : Guarded(a, l)
<1> DEFINE a == Locals(<<>>)
<1>1. a \in Lists BY DEF Locals, Lists
<1>2. \A o \in Owners : Len(a[o]) = 0 BY DEF Locals
<1> HIDE DEF a
<1>3. ASSUME NEW o \in Owners, NEW i \in 1 .. Len(a[o]) PROVE FALSE BY <1>2
<1> QED BY <1>1, <1>3 DEF a, Single, UmemLast, In, Guarded

\* The locals of new change as a whole.
LEMMA LocalsExcept ==
  ASSUME NEW s, NEW t
  PROVE  [Locals(s) EXCEPT !["main"] = t] = Locals(t)
BY Zenon DEF Locals, Owners

\* The lists that the steps concatenate.
LEMMA ConcatLocals ==
  /\ <<"rx_q", "tx_q">> \o UmemLocals = SocketLocals
  /\ <<"rx_frames", "tx_frames">> \o SocketLocals = SplitLocals
  /\ <<"rx_frames", "fill_q", "rx_q">> \o TxFields \o <<"frames">> = PanicLocals
<1>1. <<"rx_q", "tx_q">> \o UmemLocals = SocketLocals
  <2> DEFINE s == <<"rx_q", "tx_q">> \o UmemLocals
  <2>1. s \in Seq(Values) /\ SocketLocals \in Seq(Values)
    BY DEF UmemLocals, SocketLocals, Values, Resources, Vectors
  <2>2. Len(s) = 6 /\ Len(SocketLocals) = 6 BY DEF UmemLocals, SocketLocals
  <2>3. /\ s[1] = SocketLocals[1] /\ s[2] = SocketLocals[2]
        /\ s[3] = SocketLocals[3] /\ s[4] = SocketLocals[4]
        /\ s[5] = SocketLocals[5] /\ s[6] = SocketLocals[6]
    BY DEF UmemLocals, SocketLocals
  <2> HIDE DEF s
  <2>4. ASSUME NEW i \in 1 .. 6 PROVE s[i] = SocketLocals[i]
    <3>1. i = 1 \/ i = 2 \/ i = 3 \/ i = 4 \/ i = 5 \/ i = 6 OBVIOUS
    <3> QED BY <2>3, <3>1
  <2> QED BY <2>1, <2>2, <2>4, SeqEqual DEF s
<1>2. <<"rx_frames", "tx_frames">> \o SocketLocals = SplitLocals
  <2> DEFINE s == <<"rx_frames", "tx_frames">> \o SocketLocals
  <2>1. s \in Seq(Values) /\ SplitLocals \in Seq(Values)
    BY DEF SocketLocals, SplitLocals, Values, Resources, Vectors
  <2>2. Len(s) = 8 /\ Len(SplitLocals) = 8 BY DEF SocketLocals, SplitLocals
  <2>3. /\ s[1] = SplitLocals[1] /\ s[2] = SplitLocals[2]
        /\ s[3] = SplitLocals[3] /\ s[4] = SplitLocals[4]
        /\ s[5] = SplitLocals[5] /\ s[6] = SplitLocals[6]
        /\ s[7] = SplitLocals[7] /\ s[8] = SplitLocals[8]
    BY DEF SocketLocals, SplitLocals
  <2> HIDE DEF s
  <2>4. ASSUME NEW i \in 1 .. 8 PROVE s[i] = SplitLocals[i]
    <3>1. i = 1 \/ i = 2 \/ i = 3 \/ i = 4 \/ i = 5 \/ i = 6 \/ i = 7 \/ i = 8 OBVIOUS
    <3> QED BY <2>3, <3>1
  <2> QED BY <2>1, <2>2, <2>4, SeqEqual, Zenon DEF s
<1>3. <<"rx_frames", "fill_q", "rx_q">> \o TxFields \o <<"frames">> = PanicLocals
  <2> DEFINE s == <<"rx_frames", "fill_q", "rx_q">> \o TxFields \o <<"frames">>
  <2>1. s \in Seq(Values) /\ PanicLocals \in Seq(Values)
    BY DEF TxFields, PanicLocals, Values, Resources, Vectors
  <2>2. Len(s) = 7 /\ Len(PanicLocals) = 7 BY DEF TxFields, PanicLocals
  <2>3. /\ s[1] = PanicLocals[1] /\ s[2] = PanicLocals[2]
        /\ s[3] = PanicLocals[3] /\ s[4] = PanicLocals[4]
        /\ s[5] = PanicLocals[5] /\ s[6] = PanicLocals[6]
        /\ s[7] = PanicLocals[7]
    BY DEF TxFields, PanicLocals
  <2> HIDE DEF s
  <2>4. ASSUME NEW i \in 1 .. 7 PROVE s[i] = PanicLocals[i]
    <3>1. i = 1 \/ i = 2 \/ i = 3 \/ i = 4 \/ i = 5 \/ i = 6 \/ i = 7 OBVIOUS
    <3> QED BY <2>3, <3>1
  <2> QED BY <2>1, <2>2, <2>4, SeqEqual DEF s
<1> QED BY <1>1, <1>2, <1>3

\* During construction only the locals of new hold something.
LEMMA BuildingFacts ==
  ASSUME LifeInv, pc \in Building
  PROVE  /\ dropping = {} /\ forgotten = FALSE /\ owns = Locals(owns["main"])
         /\ left["frames"] \in Nat /\ left["tx_frames"] \in Nat /\ left["rx_frames"] \in Nat
         /\ left \in [Vectors -> Nat] /\ refs \in [{"mmap", "socket"} -> Nat]
         /\ acquired \in [Resources -> 0 .. 1] /\ released \in [Resources -> Nat]
         /\ umem_config.frame_count \in Nat /\ args.n_tx_frames \in Nat
<1>1. dropping = {} /\ ~forgotten /\ \A o \in Owners \ {"main"} : owns[o] = <<>>
  BY DEF LifeInv, Phase
<1>2. /\ owns \in Lists /\ left \in [Vectors -> Nat] /\ refs \in [{"mmap", "socket"} -> Nat]
      /\ acquired \in [Resources -> 0 .. 1] /\ released \in [Resources -> Nat]
      /\ forgotten \in BOOLEAN
  BY DEF LifeInv, LifecycleTypeOK, Lists, Values
<1>3. owns = Locals(owns["main"]) BY <1>1, <1>2 DEF Locals, Lists
<1>4. umem_config.frame_count \in FrameCounts /\ args.n_tx_frames \in TxFrameCounts
  BY DEF LifeInv, Configured, UmemConfigs, Args
<1>5. umem_config.frame_count \in Nat /\ args.n_tx_frames \in Nat
  <2>1. FrameCounts \subseteq 0 .. U32 - 1 /\ TxFrameCounts \subseteq Nat /\ U32 \in Nat
    BY LifecycleConstants
  <2>2. umem_config.frame_count \in 0 .. U32 - 1 BY <1>4, <2>1, Zenon
  <2>3. args.n_tx_frames \in Nat BY <1>4, <2>1, Zenon
  <2> QED BY <2>2, <2>3
<1> QED BY <1>1, <1>2, <1>3, <1>5 DEF Vectors

\* A step that changes neither the lists nor the heap.
LEMMA HeapSame ==
  ASSUME LifeInv, UNCHANGED <<configVars, owns, heapVars>>, Phase',
         pc' \in {"umem_config", "socket_config", "new", "mmap", "umem", "socket",
                  "split", "assemble", "returned", "err", "panic"},
         dropping' \subseteq Owners,
         pc' \notin {"umem_config", "err"} => umem_config.frame_count # 0
  PROVE  LifeInv'
<1> USE DEF configVars, heapVars
<1>1. LifecycleTypeOK' BY DEF LifeInv, LifecycleTypeOK
<1>2. Configured' BY DEF LifeInv, Configured
<1>3. Single(owns)' /\ UmemLast(owns)' BY DEF LifeInv
<1>4. MmapCounted' BY DEF LifeInv, MmapCounted
<1>5. SocketCounted' BY DEF LifeInv, SocketCounted
<1>6. UmemCounted' BY DEF LifeInv, UmemCounted
<1>7. (BothHaveFrames => Guarded(owns, left))' BY DEF LifeInv, BothHaveFrames
<1> QED BY <1>1, <1>2, <1>3, <1>4, <1>5, <1>6, <1>7 DEF LifeInv

\* A panic of new by itself.
LEMMA PanicKeeps ==
  ASSUME LifeInv, Panic, UNCHANGED <<owns, heapVars>>, pc \notin {"umem_config", "err"}
  PROVE  LifeInv'
<1>1. Phase' BY DEF Panic, Phase, Building, Starting
<1>2. dropping' \subseteq Owners BY DEF Panic, LifeInv, LifecycleTypeOK, Owners
<1>3. umem_config.frame_count # 0 BY DEF LifeInv, Configured
<1> QED BY <1>1, <1>2, <1>3, HeapSame DEF Panic, configVars

\* The builders of the configurations, and the test of the batch size.
LEMMA ConfigKeeps ==
  ASSUME LifeInv, BuildUmemConfig \/ BuildSocketConfig \/ New
  PROVE  LifeInv'
<1>1. /\ UNCHANGED <<configVars, owns, heapVars>> /\ dropping' = dropping
      /\ pc \in {"umem_config", "socket_config", "new"}
      /\ pc' \in {"socket_config", "new", "mmap", "err"}
  BY ZenonT(30) DEF BuildUmemConfig, BuildSocketConfig, New, GoTo
<1>2. Phase' BY <1>1 DEF LifeInv, Phase, Building, Starting, heapVars
<1>3. dropping' \subseteq Owners BY <1>1 DEF LifeInv, LifecycleTypeOK
<1>4. pc' # "err" => umem_config.frame_count # 0
  <2>1. CASE pc = "umem_config"
    BY <2>1 DEF BuildUmemConfig, BuildSocketConfig, New, GoTo, UmemConfigValid
  <2>2. CASE pc # "umem_config" BY <1>1, <2>2 DEF LifeInv, Configured
  <2> QED BY <2>1, <2>2
<1> QED BY <1>1, <1>2, <1>3, <1>4, HeapSame

\* The memory is mapped, or not.
LEMMA CreateMmapKeeps ==
  ASSUME LifeInv, CreateMmap
  PROVE  LifeInv'
<1>1. pc = "mmap" /\ UNCHANGED <<left, refs, released, forgotten>> BY DEF CreateMmap
<1>2. CASE Panic /\ UNCHANGED <<owns, acquired>> BY <1>1, <1>2, PanicKeeps DEF heapVars
<1>3. CASE GoTo("umem") /\ Acquire("mmap") /\ owns' = [owns EXCEPT !["main"] = <<"mmap">>]
  <2>1. /\ owns = Locals(<<>>) /\ dropping = {} /\ forgotten = FALSE
        /\ acquired["mmap"] = 0 /\ acquired["umem"] = 0 /\ acquired["socket"] = 0
        /\ refs["mmap"] = 0 /\ umem_config.frame_count # 0
    BY <1>1, BuildingFacts, Zenon DEF LifeInv, Phase, Building, Starting, Configured
  <2>2. /\ left["frames"] \in Nat /\ left["tx_frames"] \in Nat /\ left["rx_frames"] \in Nat
        /\ left \in [Vectors -> Nat] /\ refs \in [{"mmap", "socket"} -> Nat]
        /\ acquired \in [Resources -> 0 .. 1] /\ released \in [Resources -> Nat]
    BY <1>1, BuildingFacts DEF Building, Starting
  <2>3. \A x : ~In(owns, x) BY <2>1, EmptyFacts
  <2>4. refs["socket"] = 0 /\ released["mmap"] = 0 /\ released["umem"] = 0
        /\ released["socket"] = 0
    BY <2>1, <2>3 DEF LifeInv, MmapCounted, SocketCounted, UmemCounted, Queues
  <2>5. \A v \in Vectors : left[v] = 0
    <3>1. left["frames"] + left["tx_frames"] + left["rx_frames"] = 0
      BY <2>1 DEF LifeInv, MmapCounted
    <3>2. left["frames"] \in Nat /\ left["tx_frames"] \in Nat /\ left["rx_frames"] \in Nat
      BY <2>2
    <3>3. left["frames"] = 0 /\ left["tx_frames"] = 0 /\ left["rx_frames"] = 0
      BY <3>1, <3>2
    <3> QED BY <3>3 DEF Vectors
  <2>6. owns' = Locals(<<"mmap">>) BY <1>3, <2>1, LocalsExcept
  <2>7. /\ owns' \in Lists /\ Single(owns)' /\ UmemLast(owns)'
        /\ \A x : In(owns', x) <=> x \in {"mmap"}
        /\ \A l : Guarded(owns', l)
    BY <2>6, MmapLocalsFacts
  <2>8. /\ acquired' \in [Resources -> 0 .. 1] /\ acquired'["mmap"] = 1
        /\ acquired'["umem"] = 0 /\ acquired'["socket"] = 0
    BY <1>3, <2>1, <2>2 DEF Acquire, Resources
  <2>9. pc' = "umem" /\ dropping' = dropping /\ UNCHANGED <<umem_config, socket_config, args>>
    BY <1>3 DEF GoTo, configVars
  <2>10. LifecycleTypeOK'
    BY <1>1, <2>7, <2>8, <2>9 DEF LifeInv, LifecycleTypeOK, Lists, Values
  <2>11. Configured' BY <2>1, <2>8, <2>9 DEF LifeInv, Configured
  <2>12. Phase'
    BY <1>1, <2>1, <2>6, <2>8, <2>9 DEF Phase, Building, Starting, Locals, Owners
  <2>13. MmapCounted' BY <1>1, <2>1, <2>2, <2>4, <2>5, <2>7, <2>8 DEF MmapCounted, Vectors
  <2>14. SocketCounted' BY <1>1, <2>4, <2>7, <2>8 DEF SocketCounted, Queues
  <2>15. UmemCounted' BY <1>1, <2>1, <2>4, <2>7, <2>8 DEF UmemCounted
  <2> QED BY <2>7, <2>10, <2>11, <2>12, <2>13, <2>14, <2>15 DEF LifeInv
<1> QED BY <1>1, <1>2, <1>3 DEF CreateMmap

\* The UMEM is registered with its frames, or not.
LEMMA CreateUmemKeeps ==
  ASSUME LifeInv, CreateUmem
  PROVE  LifeInv'
<1>1. pc = "umem" /\ UNCHANGED <<released, forgotten>> BY DEF CreateUmem
<1>2. CASE Panic /\ UNCHANGED <<owns, left, refs, acquired>>
  BY <1>1, <1>2, PanicKeeps DEF heapVars
<1>3. CASE /\ KernelTakesUmem(umem_config)
           /\ GoTo("socket") /\ Acquire("umem")
           /\ owns' = [owns EXCEPT !["main"] = <<"frames", "comp_q", "fill_q", "umem">>]
           /\ left' = [left EXCEPT !["frames"] = umem_config.frame_count]
           /\ refs' = [refs EXCEPT !["mmap"] = umem_config.frame_count]
  <2> DEFINE n == umem_config.frame_count
  <2>1. /\ owns = Locals(<<"mmap">>) /\ dropping = {} /\ forgotten = FALSE
        /\ acquired["umem"] = 0 /\ acquired["socket"] = 0
        /\ refs["mmap"] = 0 /\ n # 0 /\ n \in Nat
    BY <1>1, BuildingFacts, Zenon DEF LifeInv, Phase, Building, Starting, Configured
  <2>2. /\ left["frames"] \in Nat /\ left["tx_frames"] \in Nat /\ left["rx_frames"] \in Nat
    BY <1>1, BuildingFacts DEF Building, Starting
  <2>3. /\ left \in [Vectors -> Nat] /\ refs \in [{"mmap", "socket"} -> Nat]
        /\ acquired \in [Resources -> 0 .. 1] /\ released \in [Resources -> Nat]
    BY <1>1, BuildingFacts DEF Building, Starting
  <2>4. \A x : In(owns, x) <=> x \in {"mmap"} BY <2>1, MmapLocalsFacts
  <2>5. refs["socket"] = 0 /\ acquired["mmap"] = 1 /\ released["mmap"] = 0
        /\ released["umem"] = 0 /\ released["socket"] = 0
    BY <2>1, <2>4 DEF LifeInv, MmapCounted, SocketCounted, UmemCounted, Queues
  <2>6. left["tx_frames"] = 0 /\ left["rx_frames"] = 0
    <3>1. left["frames"] + left["tx_frames"] + left["rx_frames"] = 0
      BY <2>1 DEF LifeInv, MmapCounted
    <3>2. left["frames"] \in Nat /\ left["tx_frames"] \in Nat /\ left["rx_frames"] \in Nat
      BY <2>2
    <3> QED BY <3>1, <3>2
  <2>7. owns' = Locals(UmemLocals) BY <1>3, <2>1, LocalsExcept, Zenon DEF UmemLocals
  <2>8. /\ owns' \in Lists /\ Single(owns)' /\ UmemLast(owns)'
        /\ \A x : In(owns', x) <=> x \in {"frames", "comp_q", "fill_q", "umem"}
        /\ \A l : Guarded(owns', l)
    BY <2>7, UmemLocalsFacts
  <2>9. /\ acquired' \in [Resources -> 0 .. 1] /\ acquired'["mmap"] = 1
        /\ acquired'["umem"] = 1 /\ acquired'["socket"] = 0
    BY <1>3, <2>1, <2>3, <2>5 DEF Acquire, Resources
  <2>10. /\ left' \in [Vectors -> Nat] /\ refs' \in [{"mmap", "socket"} -> Nat]
         /\ left'["frames"] = n /\ left'["tx_frames"] = 0 /\ left'["rx_frames"] = 0
         /\ refs'["mmap"] = n /\ refs'["socket"] = 0
    BY <1>3, <2>1, <2>3, <2>5, <2>6 DEF Vectors
  <2>11. pc' = "socket" /\ dropping' = dropping /\ UNCHANGED <<umem_config, socket_config, args>>
    BY <1>3 DEF GoTo, configVars
  <2>12. LifecycleTypeOK'
    BY <1>1, <2>8, <2>9, <2>10, <2>11 DEF LifeInv, LifecycleTypeOK, Lists, Values
  <2>13. Configured'
    BY <1>3, <2>1, <2>11 DEF LifeInv, Configured, KernelTakesUmem
  <2>14. Phase'
    BY <1>1, <2>1, <2>7, <2>9, <2>10, <2>11
    DEF Phase, Building, Starting, Locals, Owners, UmemLocals
  <2>15. MmapCounted'
    BY <1>1, <2>1, <2>5, <2>8, <2>9, <2>10 DEF MmapCounted, Vectors
  <2>16. SocketCounted' BY <1>1, <2>5, <2>8, <2>9, <2>10 DEF SocketCounted, Queues
  <2>17. UmemCounted' BY <1>1, <2>1, <2>5, <2>8, <2>9 DEF UmemCounted
  <2> QED BY <2>8, <2>12, <2>13, <2>14, <2>15, <2>16, <2>17 DEF LifeInv
<1> QED BY <1>1, <1>2, <1>3 DEF CreateUmem

\* What is known when the socket is to be created.
LEMMA SocketFacts ==
  ASSUME LifeInv, pc = "socket"
  PROVE  /\ owns = Locals(UmemLocals) /\ dropping = {} /\ forgotten = FALSE
         /\ \A x : In(owns, x) <=> x \in {"frames", "comp_q", "fill_q", "umem"}
         /\ acquired["mmap"] = 1 /\ released["mmap"] = 0
         /\ acquired["umem"] = 1 /\ released["umem"] = 0
         /\ acquired["socket"] = 0 /\ released["socket"] = 0 /\ refs["socket"] = 0
         /\ umem_config.frame_count # 0 /\ umem_config.frame_count \in Nat
         /\ left["frames"] = umem_config.frame_count
         /\ left["tx_frames"] = 0 /\ left["rx_frames"] = 0
         /\ refs["mmap"] = umem_config.frame_count
<1>1. /\ owns = Locals(UmemLocals) /\ dropping = {} /\ forgotten = FALSE
      /\ acquired["socket"] = 0 /\ umem_config.frame_count # 0
      /\ umem_config.frame_count \in Nat
      /\ left["frames"] = umem_config.frame_count
      /\ left["tx_frames"] = 0 /\ left["rx_frames"] = 0
  BY BuildingFacts, Zenon DEF LifeInv, Phase, Building, Starting, Configured, UmemLocals
<1>2. \A x : In(owns, x) <=> x \in {"frames", "comp_q", "fill_q", "umem"}
  BY <1>1, UmemLocalsFacts
<1>3. refs["mmap"] = umem_config.frame_count BY <1>1 DEF LifeInv, MmapCounted
<1>4. acquired["mmap"] = 1 /\ released["mmap"] = 0 BY <1>1, <1>3 DEF LifeInv, MmapCounted
<1>5. acquired["umem"] = 1 /\ released["umem"] = 0 BY <1>2 DEF LifeInv, UmemCounted
<1>6. released["socket"] = 0 /\ refs["socket"] = 0
  BY <1>1, <1>2 DEF LifeInv, SocketCounted, Queues
<1> QED BY <1>1, <1>2, <1>3, <1>4, <1>5, <1>6

\* A socket without a descriptor is deleted at once.
LEMMA SocketNoFdKeeps ==
  ASSUME LifeInv, SocketNoFd
  PROVE  LifeInv'
<1>1. pc = "socket" /\ UNCHANGED <<owns, left, refs, forgotten>> BY DEF SocketNoFd
<1>2. /\ owns = Locals(UmemLocals) /\ dropping = {} /\ forgotten = FALSE
      /\ \A x : In(owns, x) <=> x \in {"frames", "comp_q", "fill_q", "umem"}
      /\ acquired["mmap"] = 1 /\ released["mmap"] = 0
      /\ acquired["umem"] = 1 /\ released["umem"] = 0
      /\ acquired["socket"] = 0 /\ released["socket"] = 0 /\ refs["socket"] = 0
      /\ umem_config.frame_count # 0
  BY <1>1, SocketFacts
<1>3. acquired \in [Resources -> 0 .. 1] /\ released \in [Resources -> Nat]
  BY DEF LifeInv, LifecycleTypeOK
<1>4. /\ acquired' \in [Resources -> 0 .. 1] /\ released' \in [Resources -> Nat]
      /\ acquired'["socket"] = 1 /\ released'["socket"] = 1
      /\ acquired'["mmap"] = 1 /\ released'["mmap"] = 0
      /\ acquired'["umem"] = 1 /\ released'["umem"] = 0
  BY <1>2, <1>3 DEF SocketNoFd, Acquire, Release, Resources
<1>5. pc' = "panic" /\ dropping' = {"main"} /\ UNCHANGED <<umem_config, socket_config, args>>
  BY <1>2 DEF SocketNoFd, Panic, configVars
<1>6. LifecycleTypeOK' BY <1>1, <1>4, <1>5 DEF LifeInv, LifecycleTypeOK, Owners
<1>7. Configured' BY <1>2, <1>5 DEF LifeInv, Configured
<1>8. Phase' BY <1>5 DEF Phase, Building, Starting
<1>9. MmapCounted' BY <1>1, <1>2, <1>4 DEF LifeInv, MmapCounted
<1>10. SocketCounted' BY <1>1, <1>2, <1>4 DEF LifeInv, SocketCounted, Queues
<1>11. UmemCounted' BY <1>1, <1>2, <1>4 DEF LifeInv, UmemCounted
<1>12. Single(owns)' /\ UmemLast(owns)' /\ (BothHaveFrames => Guarded(owns, left))'
  BY <1>1, <1>5 DEF LifeInv, BothHaveFrames
<1> QED BY <1>6, <1>7, <1>8, <1>9, <1>10, <1>11, <1>12 DEF LifeInv

\* The socket is shared by its two queues.
LEMMA SocketNewKeeps ==
  ASSUME LifeInv, SocketNew
  PROVE  LifeInv'
<1> DEFINE n == umem_config.frame_count
<1>1. pc = "socket" /\ UNCHANGED <<left, released, forgotten>> BY DEF SocketNew
<1>2. /\ owns = Locals(UmemLocals) /\ dropping = {} /\ forgotten = FALSE
      /\ acquired["mmap"] = 1 /\ released["mmap"] = 0
      /\ acquired["umem"] = 1 /\ released["umem"] = 0
      /\ acquired["socket"] = 0 /\ released["socket"] = 0 /\ refs["socket"] = 0
      /\ n # 0 /\ n \in Nat /\ left["frames"] = n
      /\ left["tx_frames"] = 0 /\ left["rx_frames"] = 0 /\ refs["mmap"] = n
  BY <1>1, SocketFacts
<1>3. /\ acquired \in [Resources -> 0 .. 1] /\ refs \in [{"mmap", "socket"} -> Nat]
  BY DEF LifeInv, LifecycleTypeOK
<1>4. /\ acquired' \in [Resources -> 0 .. 1] /\ refs' \in [{"mmap", "socket"} -> Nat]
      /\ acquired'["socket"] = 1 /\ acquired'["mmap"] = 1 /\ acquired'["umem"] = 1
      /\ refs'["socket"] = 2 /\ refs'["mmap"] = n
  BY <1>2, <1>3 DEF SocketNew, Acquire, Resources
<1>5. pc' = "split" /\ dropping' = {} /\ UNCHANGED <<umem_config, socket_config, args>>
  BY <1>2 DEF SocketNew, GoTo, configVars
<1>6. owns' = Locals(SocketLocals)
  <2>1. owns["main"] = UmemLocals BY <1>2 DEF Locals, Owners
  <2>2. owns' = [owns EXCEPT !["main"] = <<"rx_q", "tx_q">> \o owns["main"]] BY DEF SocketNew
  <2> QED BY <1>2, <2>1, <2>2, ConcatLocals, LocalsExcept
<1>7. /\ owns' \in Lists /\ Single(owns)' /\ UmemLast(owns)'
      /\ \A x : In(owns', x) <=> x \in {"rx_q", "tx_q", "frames", "comp_q", "fill_q", "umem"}
      /\ \A l : l["frames"] > 0 => Guarded(owns', l)
  BY <1>6, SocketLocalsFacts
<1>8. Guarded(owns', left')
  <2>1. left'["frames"] > 0 BY <1>1, <1>2
  <2> QED BY <1>7, <2>1
<1>9. LifecycleTypeOK'
  BY <1>1, <1>4, <1>5, <1>7 DEF LifeInv, LifecycleTypeOK, Lists, Values
<1>10. Configured' BY <1>2, <1>5 DEF LifeInv, Configured
<1>11. Phase'
  BY <1>1, <1>2, <1>5, <1>6 DEF Phase, Building, Starting, Locals, Owners, SocketLocals
<1>12. MmapCounted' BY <1>1, <1>2, <1>4, <1>7 DEF MmapCounted, Vectors
<1>13. SocketCounted' BY <1>1, <1>2, <1>4, <1>7 DEF SocketCounted, Queues
<1>14. UmemCounted' BY <1>1, <1>2, <1>4, <1>7 DEF UmemCounted
<1> QED BY <1>7, <1>8, <1>9, <1>10, <1>11, <1>12, <1>13, <1>14 DEF LifeInv

\* The frames are split into those of tx and those of rx, or there are too few.
LEMMA SplitKeeps ==
  ASSUME LifeInv, Split
  PROVE  LifeInv'
<1> DEFINE n == umem_config.frame_count
           t == args.n_tx_frames
<1>1. pc = "split" /\ UNCHANGED <<acquired, released, forgotten>> BY DEF Split
<1>2. CASE SplitPanics(umem_config, args)
  BY <1>1, <1>2, PanicKeeps DEF Split, heapVars
<1>3. CASE ~SplitPanics(umem_config, args)
  <2>1. /\ owns = Locals(SocketLocals) /\ dropping = {} /\ forgotten = FALSE
        /\ n # 0 /\ n \in Nat /\ t \in Nat
        /\ left["frames"] = n /\ left["tx_frames"] = 0 /\ left["rx_frames"] = 0
    BY <1>1, BuildingFacts, Zenon DEF LifeInv, Phase, Building, Starting, Configured, SocketLocals
  <2>2. /\ left \in [Vectors -> Nat] /\ refs \in [{"mmap", "socket"} -> Nat]
    BY DEF LifeInv, LifecycleTypeOK
  <2>3. /\ \A x : In(owns, x) <=> x \in {"rx_q", "tx_q", "frames", "comp_q", "fill_q", "umem"}
    BY <2>1, SocketLocalsFacts
  <2>4. refs["mmap"] = n BY <2>1 DEF LifeInv, MmapCounted
  <2>5. t <= n /\ n - t \in Nat BY <1>3, <2>1 DEF SplitPanics
  <2>6. /\ left' = [left EXCEPT !["tx_frames"] = t, !["rx_frames"] = n - t]
        /\ refs' = [refs EXCEPT !["mmap"] = @ + n]
        /\ owns' = [owns EXCEPT !["main"] = <<"rx_frames", "tx_frames">> \o owns["main"]]
    BY <1>3 DEF Split
  <2>7. /\ left' \in [Vectors -> Nat] /\ refs' \in [{"mmap", "socket"} -> Nat]
        /\ left'["frames"] = n /\ left'["tx_frames"] = t /\ left'["rx_frames"] = n - t
        /\ refs'["mmap"] = n + n /\ refs'["socket"] = refs["socket"]
    BY <2>1, <2>2, <2>4, <2>5, <2>6 DEF Vectors
  <2>8. pc' = "assemble" /\ dropping' = {} /\ UNCHANGED <<umem_config, socket_config, args>>
    BY <1>3, <2>1 DEF Split, GoTo, configVars
  <2>9. owns' = Locals(SplitLocals)
    <3>1. owns["main"] = SocketLocals BY <2>1 DEF Locals, Owners
    <3> QED BY <2>1, <2>6, <3>1, ConcatLocals, LocalsExcept
  <2>10. /\ owns' \in Lists /\ Single(owns)' /\ UmemLast(owns)'
         /\ \A x : In(owns', x) <=> x \in {"rx_frames", "tx_frames", "rx_q", "tx_q",
                                           "frames", "comp_q", "fill_q", "umem"}
         /\ \A l : l["frames"] > 0 => Guarded(owns', l)
    BY <2>9, SplitLocalsFacts
  <2>11. Guarded(owns', left')
    <3>1. left'["frames"] > 0 BY <2>1, <2>7
    <3> QED BY <2>10, <3>1
  <2>12. LifecycleTypeOK'
    BY <1>1, <2>7, <2>8, <2>10 DEF LifeInv, LifecycleTypeOK, Lists, Values
  <2>13. Configured' BY <1>1, <2>1, <2>8 DEF LifeInv, Configured
  <2>14. Phase'
    BY <1>1, <2>1, <2>7, <2>8, <2>9 DEF Phase, Building, Starting, Locals, Owners, SplitLocals
  <2>15. MmapCounted'
    <3>1. refs'["mmap"] = left'["frames"] + left'["tx_frames"] + left'["rx_frames"]
      <4>1. n + n = n + t + (n - t) BY <2>1
      <4> QED BY <2>7, <4>1
    <3>2. acquired["mmap"] = 1 /\ released["mmap"] = 0
      BY <2>1, <2>4 DEF LifeInv, MmapCounted
    <3>3. refs'["mmap"] > 0 BY <2>1, <2>7
    <3> QED BY <1>1, <2>10, <3>1, <3>2, <3>3 DEF MmapCounted, Vectors
  <2>16. SocketCounted'
    BY <1>1, <2>3, <2>7, <2>10, Zenon DEF LifeInv, SocketCounted, Queues
  <2>17. UmemCounted' BY <1>1, <2>3, <2>10 DEF LifeInv, UmemCounted
  <2> QED BY <2>10, <2>11, <2>12, <2>13, <2>14, <2>15, <2>16, <2>17 DEF LifeInv
<1> QED BY <1>2, <1>3

\* What is known when the parts are put together.
LEMMA AssembleFacts ==
  ASSUME LifeInv, pc = "assemble"
  PROVE  /\ owns = Locals(SplitLocals) /\ dropping = {} /\ forgotten = FALSE
         /\ \A x : In(owns, x) <=> x \in {"rx_frames", "tx_frames", "rx_q", "tx_q",
                                          "frames", "comp_q", "fill_q", "umem"}
         /\ umem_config.frame_count # 0 /\ umem_config.frame_count \in Nat
         /\ args.n_tx_frames \in Nat
         /\ left["frames"] = umem_config.frame_count
         /\ left["tx_frames"] = args.n_tx_frames
         /\ left["rx_frames"] = umem_config.frame_count - args.n_tx_frames
         /\ left["rx_frames"] \in Nat
<1>1. /\ owns = Locals(SplitLocals) /\ dropping = {} /\ forgotten = FALSE
      /\ umem_config.frame_count # 0 /\ umem_config.frame_count \in Nat
      /\ args.n_tx_frames \in Nat
      /\ left["frames"] = umem_config.frame_count
      /\ left["tx_frames"] = args.n_tx_frames
      /\ left["rx_frames"] = umem_config.frame_count - args.n_tx_frames
      /\ left["rx_frames"] \in Nat
  BY BuildingFacts, Zenon DEF LifeInv, Phase, Building, Starting, Configured, SplitLocals
<1> QED BY <1>1, SplitLocalsFacts

\* An Xsk holds all but the frames it was split from.
LEMMA AssembleXskKeeps ==
  ASSUME LifeInv, AssembleXsk
  PROVE  LifeInv'
<1> DEFINE n == umem_config.frame_count
           t == args.n_tx_frames
<1>1. pc = "assemble" /\ UNCHANGED <<configVars, heapVars>> BY DEF AssembleXsk
<1>2. /\ owns = Locals(SplitLocals) /\ forgotten = FALSE
      /\ \A x : In(owns, x) <=> x \in {"rx_frames", "tx_frames", "rx_q", "tx_q",
                                       "frames", "comp_q", "fill_q", "umem"}
      /\ n # 0 /\ n \in Nat /\ t \in Nat
      /\ left["tx_frames"] = t /\ left["rx_frames"] = n - t /\ left["rx_frames"] \in Nat
  BY <1>1, AssembleFacts
<1>3. owns' = XskLists
  <2>1. owns' = [Locals(SplitLocals) EXCEPT !["xsk"] = XskFields, !["main"] = <<"frames">>]
    BY <1>2 DEF AssembleXsk
  <2> QED BY <2>1, Zenon DEF Locals, XskLists, Owners
<1>4. /\ owns' \in Lists /\ Single(owns)' /\ UmemLast(owns)'
      /\ \A x : In(owns', x) <=> x \in {"frames", "fill_q", "comp_q", "tx_q", "rx_q",
                                        "tx_frames", "rx_frames", "umem"}
      /\ \A l : l["tx_frames"] > 0 \/ l["rx_frames"] > 0 => Guarded(owns', l)
  BY <1>3, XskListsFacts
<1>5. \A x : In(owns', x) <=> In(owns, x) BY <1>2, <1>4
<1>6. pc' = "returned" /\ dropping' = {"main"} BY DEF AssembleXsk
<1> USE DEF configVars, heapVars
<1>7. Guarded(owns', left')
  <2>1. left["tx_frames"] > 0 \/ left["rx_frames"] > 0 BY <1>2
  <2> QED BY <1>1, <1>4, <2>1
<1>8. LifecycleTypeOK'
  BY <1>1, <1>4, <1>6 DEF LifeInv, LifecycleTypeOK, Lists, Values, Owners
<1>9. Configured' BY <1>1, <1>2 DEF LifeInv, Configured
<1>10. Phase' BY <1>6 DEF Phase, Building, Starting
<1>11. MmapCounted' BY <1>1, <1>5 DEF LifeInv, MmapCounted
<1>12. SocketCounted' BY <1>1, <1>5 DEF LifeInv, SocketCounted, Queues
<1>13. UmemCounted' BY <1>1, <1>5 DEF LifeInv, UmemCounted
<1> QED BY <1>4, <1>7, <1>8, <1>9, <1>10, <1>11, <1>12, <1>13 DEF LifeInv

\* The halves of an Xsk2 hold all but the frames and the UMEM, which is
\* forgotten; if rx has no frames the locals hold what they would.
LEMMA AssembleXsk2Keeps ==
  ASSUME LifeInv, AssembleXsk2
  PROVE  LifeInv'
<1> DEFINE n == umem_config.frame_count
           t == args.n_tx_frames
<1>1. /\ pc = "assemble" /\ args.api = "Xsk2" /\ forgotten' = TRUE
      /\ UNCHANGED <<left, refs, acquired, released>>
      /\ UNCHANGED <<umem_config, socket_config, args>>
  BY DEF AssembleXsk2, Panic, configVars
<1>2. /\ owns = Locals(SplitLocals) /\ forgotten = FALSE /\ dropping = {}
      /\ \A x : In(owns, x) <=> x \in {"rx_frames", "tx_frames", "rx_q", "tx_q",
                                       "frames", "comp_q", "fill_q", "umem"}
      /\ n # 0 /\ n \in Nat /\ t \in Nat
      /\ left["frames"] = n
      /\ left["tx_frames"] = t /\ left["rx_frames"] = n - t /\ left["rx_frames"] \in Nat
  BY <1>1, AssembleFacts
<1>3. /\ owns' \in Lists /\ Single(owns)' /\ UmemLast(owns)'
      /\ \A x : In(owns', x) <=> In(owns, x) /\ x # "umem"
      /\ (BothHaveFrames => Guarded(owns, left))'
      /\ pc' \in {"panic", "returned"} /\ dropping' = {"main"}
  <2>1. CASE left["rx_frames"] = 0
    <3>1. owns' = Locals(PanicLocals)
      <4>1. owns' = [Locals(SplitLocals) EXCEPT !["main"] = PanicLocals]
        BY <1>2, <2>1, ConcatLocals, Zenon DEF AssembleXsk2
      <4> QED BY <4>1, LocalsExcept
    <3>2. /\ owns' \in Lists /\ Single(owns)' /\ UmemLast(owns)'
          /\ \A x : In(owns', x) <=> x \in {"rx_frames", "fill_q", "rx_q", "tx_q", "comp_q",
                                            "tx_frames", "frames"}
          /\ \A l : l["frames"] > 0 => Guarded(owns', l)
      BY <3>1, PanicLocalsFacts
    <3>3. left'["frames"] > 0 BY <1>1, <1>2
    <3>4. pc' = "panic" /\ dropping' = {"main"} BY <1>2, <2>1 DEF AssembleXsk2, Panic
    <3> QED BY <1>2, <3>2, <3>3, <3>4
  <2>2. CASE left["rx_frames"] # 0
    <3>1. owns' = Xsk2Lists
      <4>1. owns' = [Locals(SplitLocals) EXCEPT !["tx"] = TxFields, !["rx"] = RxFields,
                                                !["main"] = <<"frames">>]
        BY <1>2, <2>2 DEF AssembleXsk2
      <4> QED BY <4>1, Zenon DEF Locals, Xsk2Lists, Owners
    <3>2. /\ owns' \in Lists /\ Single(owns)' /\ UmemLast(owns)'
          /\ \A x : In(owns', x) <=> x \in {"frames", "tx_q", "comp_q", "tx_frames",
                                            "fill_q", "rx_q", "rx_frames"}
          /\ \A l : l["tx_frames"] > 0 /\ l["rx_frames"] > 0 => Guarded(owns', l)
      BY <3>1, Xsk2ListsFacts
    <3>3. BothHaveFrames' => left'["tx_frames"] > 0 BY <1>1, <1>2 DEF BothHaveFrames
    <3>4. left'["rx_frames"] > 0 BY <1>1, <1>2, <2>2
    <3>5. pc' = "returned" /\ dropping' = {"main"} BY <2>2 DEF AssembleXsk2
    <3> QED BY <1>2, <3>2, <3>3, <3>4, <3>5
  <2> QED BY <2>1, <2>2
<1>4. LifecycleTypeOK'
  BY <1>1, <1>3 DEF LifeInv, LifecycleTypeOK, Lists, Values, Owners
<1>5. Configured' BY <1>1, <1>2, ZenonT(30) DEF LifeInv, Configured
<1>6. Phase' BY <1>3 DEF Phase, Building, Starting
<1>7. MmapCounted' BY <1>1, <1>3 DEF LifeInv, MmapCounted, Vectors
<1>8. SocketCounted' BY <1>1, <1>3 DEF LifeInv, SocketCounted, Queues
<1>9. UmemCounted' BY <1>1, <1>2, <1>3 DEF LifeInv, UmemCounted
<1> QED BY <1>3, <1>4, <1>5, <1>6, <1>7, <1>8, <1>9 DEF LifeInv

\* A half, or an Xsk, begins to be dropped.
LEMMA StartDropKeeps ==
  ASSUME LifeInv, NEW o \in {"xsk", "tx", "rx"}, StartDrop(o)
  PROVE  LifeInv'
<1>1. /\ UNCHANGED <<configVars, owns, heapVars>> /\ pc' = "returned" /\ pc = "returned"
      /\ dropping' = dropping \cup {o}
  BY DEF StartDrop
<1>2. Phase' BY <1>1 DEF Phase, Building, Starting
<1>3. dropping' \subseteq Owners BY <1>1 DEF LifeInv, LifecycleTypeOK, Owners
<1>4. umem_config.frame_count # 0 BY <1>1 DEF LifeInv, Configured
<1> QED BY <1>1, <1>2, <1>3, <1>4, HeapSame

-----------------------------------------------------------------------------
(* The invariant and what follows from it.                                 *)

\* It holds before anything is built.
LEMMA LifeInit ==
  ASSUME Init
  PROVE  LifeInv
<1>1. owns = Locals(<<>>) BY DEF Init, Locals
<1>2. /\ owns \in Lists /\ Single(owns) /\ UmemLast(owns)
      /\ \A x : ~In(owns, x)
      /\ \A l : Guarded(owns, l)
  BY <1>1, EmptyFacts
<1>3. /\ \A v \in Vectors : left[v] = 0
      /\ refs["mmap"] = 0 /\ refs["socket"] = 0
      /\ \A r \in Resources : acquired[r] = 0 /\ released[r] = 0
  BY DEF Init, Nothing
<1>4. LifecycleTypeOK
  <2>1. left \in [Vectors -> Nat] /\ refs \in [{"mmap", "socket"} -> Nat] BY DEF Init
  <2>2. acquired \in [Resources -> 0 .. 1] /\ released \in [Resources -> Nat]
    BY DEF Init, Nothing
  <2>3. dropping \subseteq Owners /\ forgotten \in BOOLEAN /\ pc = "umem_config" BY Zenon DEF Init
  <2> QED BY <1>2, <2>1, <2>2, <2>3 DEF LifecycleTypeOK, Lists, Values
<1>5. Configured BY <1>3 DEF Init, Configured, Resources
<1>6. Phase BY <1>3 DEF Init, Phase, Building, Starting, Resources, Owners
<1>7. MmapCounted BY <1>2, <1>3 DEF MmapCounted, Vectors, Resources
<1>8. SocketCounted BY <1>2, <1>3 DEF SocketCounted, Queues, Resources
<1>9. UmemCounted BY <1>2, <1>3 DEF Init, UmemCounted, Resources
<1> QED BY <1>2, <1>4, <1>5, <1>6, <1>7, <1>8, <1>9 DEF LifeInv

\* Every step preserves it.
LEMMA LifeStep ==
  ASSUME LifeInv, [Next]_vars
  PROVE  LifeInv'
<1>1. CASE BuildUmemConfig \/ BuildSocketConfig \/ New BY <1>1, ConfigKeeps
<1>2. CASE CreateMmap BY <1>2, CreateMmapKeeps
<1>3. CASE CreateUmem BY <1>3, CreateUmemKeeps
<1>4. CASE SocketFails BY <1>4, PanicKeeps DEF SocketFails
<1>5. CASE SocketNoFd BY <1>5, SocketNoFdKeeps
<1>6. CASE SocketNew BY <1>6, SocketNewKeeps
<1>7. CASE Split BY <1>7, SplitKeeps
<1>8. CASE AssembleXsk BY <1>8, AssembleXskKeeps
<1>9. CASE AssembleXsk2 BY <1>9, AssembleXsk2Keeps
<1>10. CASE \E o \in {"xsk", "tx", "rx"} : StartDrop(o) BY <1>10, StartDropKeeps
<1>11. CASE \E o \in Owners : Drops(o)
  BY <1>11, DropRingKeeps, DropQueueKeeps, DropFrameKeeps, DropMmapKeeps, DropSocketKeeps,
     DropUmemKeeps
  DEF Drops
<1>12. CASE UNCHANGED vars
  <2>1. UNCHANGED <<configVars, owns, heapVars>> /\ pc' = pc /\ dropping' = dropping
    BY <1>12 DEF vars
  <2>2. Phase' BY <2>1, Zenon DEF LifeInv, Phase, configVars, heapVars
  <2>3. /\ pc \in {"umem_config", "socket_config", "new", "mmap", "umem", "socket",
                   "split", "assemble", "returned", "err", "panic"}
        /\ dropping \subseteq Owners
        /\ pc \notin {"umem_config", "err"} => umem_config.frame_count # 0
    BY DEF LifeInv, LifecycleTypeOK, Configured
  <2> QED BY <2>1, <2>2, <2>3, HeapSame
<1> QED
  BY <1>1, <1>2, <1>3, <1>4, <1>5, <1>6, <1>7, <1>8, <1>9, <1>10, <1>11, <1>12
  DEF Next, Stopped

\* LifeInv is an invariant of the construction and of the drops.
LEMMA LifeInvariant == Spec => []LifeInv
<1>1. Init => LifeInv BY LifeInit
<1>2. LifeInv /\ [Next]_vars => LifeInv' BY LifeStep
<1> QED BY <1>1, <1>2, PTL DEF Spec

\* Type correctness: no strong count and no vector goes below zero, and
\* nothing is acquired twice.
THEOREM LifecycleTypeCorrect == Spec => []LifecycleTypeOK
<1>1. LifeInv => LifecycleTypeOK BY DEF LifeInv
<1> QED BY <1>1, LifeInvariant, PTL

\* Behind every queue, ring and frame that can still be used there is the
\* socket, the UMEM and the memory it refers to, in whatever order the halves
\* are dropped.
THEOREM LifecycleHandlesValid == Spec => []HandlesValid
<1>1. ASSUME LifeInv PROVE HandlesValid
  <2> SUFFICES ASSUME NEW o \in Owners
               PROVE  /\ Has(o, {"tx_q", "rx_q"}) => Live("socket")
                      /\ Has(o, {"fill_q", "comp_q", "umem"}) => Live("umem")
                      /\ \A v \in Vectors : Has(o, {v}) /\ left[v] > 0 => Live("mmap")
    BY DEF HandlesValid
  <2>1. /\ left \in [Vectors -> Nat] /\ refs \in [{"mmap", "socket"} -> Nat]
        /\ left["frames"] \in Nat /\ left["tx_frames"] \in Nat /\ left["rx_frames"] \in Nat
        /\ forgotten \in BOOLEAN
    BY <1>1 DEF LifeInv, LifecycleTypeOK, Vectors
  <2>2. MmapCounted /\ SocketCounted /\ UmemCounted BY <1>1 DEF LifeInv
  <2>3. ASSUME Has(o, {"tx_q", "rx_q"}) PROVE Live("socket")
    <3>1. In(owns, "tx_q") \/ In(owns, "rx_q") BY <2>3 DEF Has, In
    <3>2. refs["socket"] > 0 BY <2>2, <3>1 DEF SocketCounted, Queues
    <3> QED BY <2>2, <3>2 DEF SocketCounted, Live
  <2>4. ASSUME Has(o, {"fill_q", "comp_q", "umem"}) PROVE Live("umem")
    <3>1. In(owns, "fill_q") \/ In(owns, "comp_q") \/ In(owns, "umem")
      BY <2>4 DEF Has, In
    <3>2. acquired["umem"] = 1 /\ released["umem"] = 0 BY <2>2, <3>1 DEF UmemCounted
    <3> QED BY <3>2 DEF Live
  <2>5. ASSUME NEW v \in Vectors, left[v] > 0 PROVE Live("mmap")
    <3>1. refs["mmap"] = left["frames"] + left["tx_frames"] + left["rx_frames"]
      BY <2>2 DEF MmapCounted
    <3>2. left["frames"] > 0 \/ left["tx_frames"] > 0 \/ left["rx_frames"] > 0
      BY <2>5 DEF Vectors
    <3>3. left["frames"] \in Nat /\ left["tx_frames"] \in Nat /\ left["rx_frames"] \in Nat
      BY <2>1
    <3>4. refs["mmap"] > 0 BY <3>1, <3>2, <3>3
    <3> QED BY <2>2, <3>4 DEF MmapCounted, Live
  <2> QED BY <2>3, <2>4, <2>5
<1> QED BY <1>1, LifeInvariant, PTL

\* When new has failed, or all it built is dropped, every resource was
\* released as often as it was acquired, but for a forgotten UMEM.
THEOREM LifecycleReleasedOnce == Spec => []ReleasedOnce
<1>1. ASSUME LifeInv, Terminated, NEW r \in Resources
      PROVE  released[r] = IF r = "umem" /\ forgotten THEN 0 ELSE acquired[r]
  <2>1. \A x : ~In(owns, x)
    <3>1. \A o \in Owners : Len(owns[o]) = 0 BY <1>1 DEF Terminated
    <3>2. ASSUME NEW o \in Owners, NEW i \in 1 .. Len(owns[o]) PROVE FALSE BY <3>1
    <3> QED BY <3>2 DEF In
  <2>2. MmapCounted /\ SocketCounted /\ UmemCounted BY <1>1 DEF LifeInv
  <2>3. left \in [Vectors -> Nat] BY <1>1 DEF LifeInv, LifecycleTypeOK
  <2>4. left["frames"] = 0 /\ left["tx_frames"] = 0 /\ left["rx_frames"] = 0
    BY <2>1, <2>2, <2>3 DEF MmapCounted, Vectors
  <2>5. refs["mmap"] = 0 BY <2>2, <2>4 DEF MmapCounted
  <2>6. released["mmap"] = acquired["mmap"] BY <2>1, <2>2, <2>5 DEF MmapCounted
  <2>7. released["socket"] = acquired["socket"] BY <2>1, <2>2 DEF SocketCounted, Queues
  <2>8. released["umem"] = IF forgotten THEN 0 ELSE acquired["umem"]
    BY <2>1, <2>2 DEF UmemCounted
  <2> QED BY <2>6, <2>7, <2>8 DEF Resources
<1>2. LifeInv => ReleasedOnce BY <1>1 DEF ReleasedOnce
<1> QED BY <1>2, LifeInvariant, PTL

\* The memory is unmapped only after the socket is deleted, if both halves
\* have frames.
THEOREM LifecycleMemoryOutlivesSocket == Spec => []MemoryOutlivesSocket
<1>1. ASSUME LifeInv, BothHaveFrames, Live("socket") PROVE Live("mmap")
  <2>1. Guarded(owns, left) /\ MmapCounted /\ SocketCounted BY <1>1 DEF LifeInv
  <2>2. /\ acquired["socket"] \in 0 .. 1 /\ released["socket"] \in Nat
        /\ refs["socket"] \in Nat /\ left \in [Vectors -> Nat]
        /\ left["frames"] \in Nat /\ left["tx_frames"] \in Nat /\ left["rx_frames"] \in Nat
    BY <1>1 DEF LifeInv, LifecycleTypeOK, Resources, Vectors
  <2>3. refs["socket"] > 0 \/ In(owns, "socket")
    <3>1. released["socket"] # acquired["socket"] BY <1>1, <2>2 DEF Live
    <3> QED BY <2>1, <2>2, <3>1 DEF SocketCounted
  <2>4. In(owns, "tx_q") \/ In(owns, "rx_q") \/ In(owns, "socket")
    BY <2>1, <2>3 DEF SocketCounted, Queues
  <2>5. PICK v \in Vectors : left[v] > 0 BY <2>1, <2>4 DEF Guarded, In
  <2>6. refs["mmap"] > 0
    <3>1. refs["mmap"] = left["frames"] + left["tx_frames"] + left["rx_frames"]
      BY <2>1 DEF MmapCounted
    <3>2. left["frames"] > 0 \/ left["tx_frames"] > 0 \/ left["rx_frames"] > 0
      BY <2>5 DEF Vectors
    <3>3. left["frames"] \in Nat /\ left["tx_frames"] \in Nat /\ left["rx_frames"] \in Nat
      BY <2>2
    <3> QED BY <3>1, <3>2, <3>3
  <2> QED BY <2>1, <2>6 DEF MmapCounted, Live
<1>2. LifeInv => MemoryOutlivesSocket BY <1>1 DEF MemoryOutlivesSocket, BothHaveFrames
<1> QED BY <1>2, LifeInvariant, PTL

\* A product grows with its factor.
LEMMA TimesMonotone ==
  ASSUME NEW a \in Nat, NEW b \in Nat, NEW f \in Nat, a + 1 <= b
  PROVE  a * f + f <= b * f
<1>1. PICK d \in Nat : b = (a + 1) + d
  <2>1. b - (a + 1) \in Nat /\ b = (a + 1) + (b - (a + 1)) OBVIOUS
  <2> QED BY <2>1
<1>2. b * f = a * f + f + d * f BY <1>1
<1>3. d * f \in Nat /\ a * f \in Nat OBVIOUS
<1> QED BY <1>2, <1>3

\* The frames of a registered UMEM do not overlap, and a packet of mtu bytes
\* behind both headrooms stays in its frame.
THEOREM LifecycleFramesTile == Spec => []FramesTile
<1>1. ASSUME LifeInv, Live("umem")
      PROVE  LET c == umem_config
                 end(i) == Addr(c, i) + XdpHeadroom + c.frame_headroom + Mtu(c)
             IN /\ Mtu(c) >= 0
                /\ \A i \in 0 .. c.frame_count - 1 :
                     /\ end(i) <= UmemLen(c)
                     /\ \A j \in 0 .. i - 1 : end(j) <= Addr(c, i)
  <2> DEFINE c == umem_config
             n == c.frame_count
             f == c.frame_size
             h == c.frame_headroom
             end(i) == Addr(c, i) + XdpHeadroom + h + Mtu(c)
  <2>1. c \in UmemConfigs /\ (acquired["umem"] = 1 => KernelTakesUmem(c))
    BY <1>1 DEF LifeInv, Configured
  <2>2. acquired["umem"] = 1
    <3>1. acquired["umem"] \in 0 .. 1 /\ released["umem"] \in Nat
      BY <1>1 DEF LifeInv, LifecycleTypeOK, Resources
    <3> QED BY <1>1, <3>1 DEF Live
  <2>3. n \in Nat /\ f \in Nat /\ h \in Nat /\ XdpHeadroom \in Nat
    <3>1. n \in FrameCounts /\ f \in FrameSizes /\ h \in Headrooms BY <2>1 DEF UmemConfigs
    <3>2. /\ FrameCounts \subseteq 0 .. U32 - 1 /\ FrameSizes \subseteq 0 .. U32 - 1
          /\ Headrooms \subseteq 0 .. U32 - 1 /\ U32 \in Nat /\ XdpHeadroom \in Nat
      BY LifecycleConstants
    <3>3. n \in 0 .. U32 - 1 /\ f \in 0 .. U32 - 1 /\ h \in 0 .. U32 - 1 BY <3>1, <3>2, Zenon
    <3> QED BY <3>2, <3>3
  <2>4. XdpHeadroom + h <= f BY <2>1, <2>2 DEF KernelTakesUmem
  <2>5. Mtu(c) = f - (XdpHeadroom + h) /\ UmemLen(c) = n * f /\ \A i : Addr(c, i) = i * f
    BY DEF Mtu, UmemLen, Addr
  <2> HIDE DEF c, n, f, h
  <2>6. Mtu(c) >= 0 BY <2>3, <2>4, <2>5
  <2>7. ASSUME NEW i \in Nat PROVE end(i) = i * f + f
    <3>1. i * f \in Nat BY <2>3
    <3> QED BY <2>3, <2>5, <3>1
  <2>8. ASSUME NEW i \in 0 .. n - 1
        PROVE  end(i) <= UmemLen(c) /\ \A j \in 0 .. i - 1 : end(j) <= Addr(c, i)
    <3>1. i \in Nat /\ i + 1 <= n BY <2>3
    <3>2. end(i) <= UmemLen(c) BY <2>3, <2>5, <2>7, <3>1, TimesMonotone, Zenon
    <3>3. ASSUME NEW j \in 0 .. i - 1 PROVE end(j) <= Addr(c, i)
      <4>1. j \in Nat /\ j + 1 <= i BY <3>1
      <4> QED BY <2>3, <2>5, <2>7, <3>1, <4>1, TimesMonotone, Zenon
    <3> QED BY <3>2, <3>3
  <2> QED BY <2>6, <2>8 DEF c, n, h
<1>2. LifeInv => FramesTile BY <1>1 DEF FramesTile
<1> QED BY <1>2, LifeInvariant, PTL
-----------------------------------------------------------------------------
(* The sizes that are accepted.                                            *)

\* Past each test the configuration has passed it.
Accepted ==
  /\ pc \notin {"umem_config", "err"} => UmemConfigValid(umem_config)
  /\ pc \notin {"umem_config", "socket_config", "err"} => SocketConfigValid(socket_config)
  /\ pc \notin {"umem_config", "socket_config", "new", "err"} =>
       (args.api = "Xsk2" => TxBatchFits(socket_config, args))

\* The only steps that lead past a test are those that make it.
LEMMA AcceptedStep ==
  ASSUME Accepted, [Next]_vars
  PROVE  Accepted'
<1> DEFINE Tests == {"umem_config", "socket_config", "new", "err"}
<1>1. UNCHANGED configVars
  BY ZenonT(30) DEF Next, vars, BuildUmemConfig, BuildSocketConfig, New, CreateMmap, CreateUmem,
         SocketFails, SocketNoFd, SocketNew, Split, AssembleXsk, AssembleXsk2, StartDrop,
         Drops, DropRing, DropQueue, DropFrame, DropMmap, DropSocket, DropUmem, InDrop,
         Stopped, GoTo, Panic
<1>2. CASE BuildUmemConfig
  BY <1>1, <1>2 DEF Accepted, BuildUmemConfig, GoTo, configVars
<1>3. CASE BuildSocketConfig
  BY <1>1, <1>3 DEF Accepted, BuildSocketConfig, GoTo, configVars
<1>4. CASE New
  BY <1>1, <1>4 DEF Accepted, New, GoTo, configVars
<1>5. CASE pc' = pc
  BY <1>1, <1>5 DEF Accepted, configVars
<1>6. CASE pc \notin Tests
  BY <1>1, <1>6 DEF Accepted, configVars
<1>7. CASE CreateMmap \/ CreateUmem \/ SocketFails \/ SocketNoFd \/ SocketNew \/ Split
           \/ AssembleXsk \/ AssembleXsk2
  <2>1. pc \notin Tests
    BY <1>7 DEF CreateMmap, CreateUmem, SocketFails, SocketNoFd, SocketNew, Split,
                AssembleXsk, AssembleXsk2
  <2> QED BY <2>1, <1>6, ZenonT(30)
<1>8. CASE \/ \E o \in {"xsk", "tx", "rx"} : StartDrop(o)
           \/ \E o \in Owners : Drops(o)
           \/ UNCHANGED vars
  <2>1. pc' = pc
    BY <1>8, ZenonT(30) DEF StartDrop, Drops, DropRing, DropQueue, DropFrame, DropMmap, DropSocket,
                DropUmem, InDrop, vars
  <2> QED BY <2>1, <1>5, ZenonT(30)
<1> QED BY <1>2, <1>3, <1>4, <1>7, <1>8, ZenonT(30) DEF Next, Stopped

\* A size that passes the test of is_pow_of_two is a power of two.
LEMMA PowOfTwo ==
  ASSUME NEW n \in RingSizes, IsPowOfTwo(n)
  PROVE  \E k \in 0 .. U32 : n = 2 ^ k
<1>1. U32 \in Nat /\ n \in 0 .. U32 - 1
  <2>1. U32 \in Nat /\ RingSizes \subseteq 0 .. U32 - 1 BY LifecycleConstants, ZenonT(30)
  <2> QED BY <2>1
<1>2. PICK b \in {2 ^ k : k \in 0 .. n} : n - b = 0 BY DEF IsPowOfTwo, NoBitLeft
<1>3. PICK k \in 0 .. n : b = 2 ^ k BY <1>2
<1>4. k \in 0 .. U32 BY <1>1, <1>3
<1>5. b \in Int BY <1>1, <1>3
<1>6. n = b BY <1>1, <1>2, <1>5
<1> QED BY <1>3, <1>4, <1>6

\* A socket that was built has rings whose sizes are powers of two, and a
\* batch of less than 2^32 packets fits its tx ring.
THEOREM LifecycleAcceptedSizesWork == Spec => []AcceptedSizesWork
<1>1. Init => Accepted BY DEF Init, Accepted
<1>2. Accepted /\ [Next]_vars => Accepted' BY AcceptedStep
<1>3. ASSUME LifeInv, Accepted, pc = "returned"
      PROVE  AcceptedSizesWork
  <2>1. umem_config \in UmemConfigs /\ socket_config \in SocketConfigs /\ args \in Args
    BY <1>3 DEF LifeInv, Configured
  <2>2. /\ umem_config.fill_queue_size \in RingSizes
        /\ umem_config.comp_queue_size \in RingSizes
        /\ socket_config.rx_queue_size \in RingSizes
        /\ socket_config.tx_queue_size \in RingSizes
        /\ args.tx_batch_size \in TxBatchSizes
    BY <2>1 DEF UmemConfigs, SocketConfigs, Args
  <2>3. UmemConfigValid(umem_config) /\ SocketConfigValid(socket_config)
    BY <1>3 DEF Accepted
  <2>4. \A n \in {umem_config.fill_queue_size, umem_config.comp_queue_size,
                  socket_config.rx_queue_size, socket_config.tx_queue_size} :
          \E k \in 0 .. U32 : n = 2 ^ k
    BY <2>2, <2>3, PowOfTwo DEF UmemConfigValid, SocketConfigValid
  <2>5. ASSUME args.api = "Xsk2", args.tx_batch_size < U32
        PROVE  args.tx_batch_size <= socket_config.tx_queue_size
    <3>1. args.tx_batch_size % U32 <= socket_config.tx_queue_size
      BY <1>3, <2>5 DEF Accepted, TxBatchFits
    <3>2. U32 \in Nat \ {0} /\ TxBatchSizes \subseteq Nat BY LifecycleConstants
    <3>3. args.tx_batch_size \in Nat BY <2>2, <3>2, ZenonT(30)
    <3>4. args.tx_batch_size % U32 = args.tx_batch_size BY <2>5, <3>2, <3>3
    <3> QED BY <3>1, <3>4
  <2> QED BY <2>4, <2>5 DEF AcceptedSizesWork
<1>4. LifeInv /\ Accepted => AcceptedSizesWork BY <1>3 DEF AcceptedSizesWork
<1>5. Spec => []Accepted BY <1>1, <1>2, PTL DEF Spec
<1> QED BY <1>4, <1>5, LifeInvariant, PTL
=============================================================================
