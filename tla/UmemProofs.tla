----------------------------- MODULE UmemProofs -----------------------------
(***************************************************************************)
(* For any number of frames of any size, any headroom and any lengths: the *)
(* 32-bit frame indices are right, every frame is accounted for, and the   *)
(* bytes a descriptor points to are its packet's, as long as the UMEM is   *)
(* no larger than a u32 can address.                                       *)
(***************************************************************************)
EXTENDS UmemFrames, TLAPS

\* A leaf that names no prover is tried with SMT, with Zenon, and with SMT
\* again, given more time.
USE SMT, Zenon, SMTT(30), SMTT(40)

\* Some address on ring q lies in frame f; no two of its addresses share one.
On(q, f) == \E i \in DOMAIN q : FrameOf(q[i]) = f
Apart(q) == \A i, j \in DOMAIN q : FrameOf(q[i]) = FrameOf(q[j]) => i = j

UType ==
  /\ addr \in [Frames -> Bytes] /\ len \in [Frames -> Nat]
  /\ status \in [Frames -> {"Free", "OnTxQueue", "Filled"}]
  /\ holds \in [Frames -> 0 .. MaxPkts]
  /\ mem \in [Bytes -> 0 .. MaxPkts]
  /\ txq \in Seq(Descs) /\ rxq \in Seq(Descs)
  /\ compq \in Seq(Bytes) /\ fillq \in Seq(Bytes)
  /\ pkts \in 0 .. MaxPkts
  /\ panicked \subseteq {"tx"}

\* Frame descriptors stay with their frames; those of XskTx never move.
AddrInv ==
  /\ \A f \in Frames : FrameOf(addr[f]) = f
  /\ \A f \in TxFrames : addr[f] = FrameAddr(f)

\* A frame of XskTx that is not free is on one ring at one position, or its
\* descriptor was discarded.
TxAccount ==
  /\ Apart(Addrs(txq)) /\ Apart(compq)
  /\ \A f \in Frames :
       /\ On(Addrs(txq), f) => f \in TxFrames /\ status[f] = "OnTxQueue" /\ ~On(compq, f)
       /\ On(compq, f) => f \in TxFrames /\ status[f] = "OnTxQueue"
       /\ f \in TxFrames =>
            \/ status[f] = "Free"
            \/ /\ status[f] = "OnTxQueue"
               /\ On(Addrs(txq), f) \/ On(compq, f) \/ len[f] > FrameSize

\* A frame of XskRx is on one ring at one position, or Filled.
RxAccount ==
  /\ Apart(fillq) /\ Apart(Addrs(rxq))
  /\ \A f \in Frames :
       /\ On(fillq, f) => f \in RxFrames /\ status[f] = "Free" /\ ~On(Addrs(rxq), f)
       /\ On(Addrs(rxq), f) => f \in RxFrames /\ status[f] = "Free"
       /\ f \in RxFrames =>
            \/ status[f] = "Filled"
            \/ status[f] = "Free" /\ (On(fillq, f) \/ On(Addrs(rxq), f))

\* n bytes from address a on lie within one frame.
Within(a, n) == a + n <= FrameAddr(FrameOf(a)) + FrameSize
Holds(m, a, n, p) == \A b \in MemRange(a, n) : m[b] = p

TxData ==
  \A i \in DOMAIN txq :
    /\ txq[i].addr = FrameAddr(FrameOf(txq[i].addr))
    /\ txq[i].len <= len[FrameOf(txq[i].addr)]
    /\ Within(txq[i].addr, txq[i].len) => Holds(mem, txq[i].addr, txq[i].len, txq[i].pkt)

RxData ==
  \A i \in DOMAIN rxq :
    /\ Within(rxq[i].addr, rxq[i].len)
    /\ Holds(mem, rxq[i].addr, rxq[i].len, rxq[i].pkt)

FilledData ==
  \A f \in RxFrames : status[f] = "Filled" =>
    Within(addr[f], len[f]) /\ Holds(mem, addr[f], len[f], holds[f])

UmemInv == UType /\ AddrInv /\ TxAccount /\ RxAccount /\ TxData /\ RxData /\ FilledData

-----------------------------------------------------------------------------
(* Addresses and frames                                                    *)

\* Multiplication by the frame size is monotonic.
LEMMA TimesMono ==
  ASSUME NEW d \in Nat, NEW a \in Int, NEW b \in Int, a < b
  PROVE  a * d + d <= b * d
<1> DEFINE k == b - a - 1
<1>1. k \in Nat
  OBVIOUS
<1>2. b = a + 1 + k
  OBVIOUS
<1> HIDE DEF k
<1>3. b * d = a * d + d + k * d
  BY <1>1, <1>2
<1>4. k * d \in Nat
  BY <1>1
<1>5. a * d \in Int /\ b * d \in Int
  OBVIOUS
<1> QED
  BY <1>3, <1>4, <1>5

\* The quotient is the multiple below.
LEMMA DivBounds ==
  ASSUME NEW d \in Nat \ {0}, NEW a \in Nat
  PROVE  /\ a \div d \in Nat
         /\ (a \div d) * d <= a /\ a < (a \div d) * d + d
         /\ a % d = a - (a \div d) * d
  OBVIOUS

\* And the only one.
LEMMA DivUnique ==
  ASSUME NEW d \in Nat \ {0}, NEW a \in Nat, NEW q \in Int,
         q * d <= a, a < q * d + d
  PROVE  a \div d = q
<1> DEFINE r == a \div d
<1>1. r \in Nat /\ r * d <= a /\ a < r * d + d
  BY DivBounds
<1> HIDE DEF r
<1>2. r < q => r * d + d <= q * d
  BY <1>1, TimesMono
<1>3. q < r => q * d + d <= r * d
  BY <1>1, TimesMono
<1>4. r * d \in Int /\ q * d \in Int
  BY <1>1
<1>5. r = q
  BY <1>1, <1>2, <1>3, <1>4
<1> QED
  BY <1>5 DEF r

\* The constants, and that there is room in a word for a whole frame.
LEMMA UmemFacts ==
  /\ FrameSize \in Nat \ {0} /\ Headroom \in Nat /\ Headroom < FrameSize
  /\ NTxFrames \in Nat \ {0} /\ NRxFrames \in Nat \ {0}
  /\ NFrames \in Nat /\ NFrames = NTxFrames + NRxFrames
  /\ Word \in Nat \ {0} /\ UmemLen \in Nat /\ UmemLen <= Word
  /\ Mtu \in Nat /\ Mtu <= FrameSize /\ FrameSize < Word
  /\ DataLens \subseteq Nat /\ ClosureLens \subseteq Nat /\ MaxPkts \in Nat
<1>1. /\ FrameSize \in Nat \ {0} /\ Headroom \in Nat /\ Headroom < FrameSize
      /\ NTxFrames \in Nat \ {0} /\ NRxFrames \in Nat \ {0}
      /\ Word \in Nat /\ UmemLen <= Word
      /\ DataLens \subseteq Nat /\ ClosureLens \subseteq Nat /\ MaxPkts \in Nat
  BY UmemConstants
<1>2. NFrames \in Nat /\ 1 < NFrames /\ NFrames = NTxFrames + NRxFrames
  BY <1>1 DEF NFrames
<1>3. UmemLen \in Nat
  BY <1>1, <1>2 DEF UmemLen
<1>4. 1 * FrameSize + FrameSize <= NFrames * FrameSize
  BY <1>1, <1>2, TimesMono
<1>5. FrameSize + FrameSize <= UmemLen
  BY <1>1, <1>2, <1>4 DEF UmemLen
<1>6. Mtu \in Nat /\ Mtu <= FrameSize
  BY <1>1 DEF Mtu
<1> QED
  BY <1>1, <1>2, <1>3, <1>5, <1>6

\* Frames and the addresses of their first bytes.
LEMMA FrameAddrs ==
  ASSUME NEW f \in Frames
  PROVE  /\ f \in Nat /\ FrameAddr(f) \in Nat /\ FrameAddr(f) + FrameSize <= UmemLen
         /\ FrameAddr(f) = f * FrameSize
<1>1. f \in Nat /\ f < NFrames
  BY UmemFacts DEF Frames
<1>2. f * FrameSize + FrameSize <= NFrames * FrameSize
  BY <1>1, UmemFacts, TimesMono
<1>3. f * FrameSize \in Nat
  BY <1>1, UmemFacts
<1> QED
  BY <1>1, <1>2, <1>3 DEF FrameAddr, UmemLen

\* Every byte is in one frame.
LEMMA ByteFrame ==
  ASSUME NEW a \in Bytes
  PROVE  /\ FrameOf(a) \in Frames
         /\ FrameAddr(FrameOf(a)) <= a /\ a < FrameAddr(FrameOf(a)) + FrameSize
         /\ a % FrameSize = a - FrameAddr(FrameOf(a))
<1>1. a \in Nat /\ a < UmemLen
  BY UmemFacts DEF Bytes
<1> DEFINE q == a \div FrameSize
<1>2. q \in Nat /\ q * FrameSize <= a /\ a < q * FrameSize + FrameSize
      /\ a % FrameSize = a - q * FrameSize
  BY <1>1, UmemFacts, DivBounds, Zenon
<1> HIDE DEF q
<1>3. ~(NFrames - 1 < q)
  <2> SUFFICES ASSUME NFrames - 1 < q PROVE FALSE
    OBVIOUS
  <2>1. (NFrames - 1) * FrameSize + FrameSize <= q * FrameSize
    BY <1>2, UmemFacts, TimesMono
  <2>2. (NFrames - 1) * FrameSize + FrameSize = UmemLen
    BY UmemFacts DEF UmemLen
  <2>3. q * FrameSize \in Nat
    BY <1>2, UmemFacts
  <2> QED
    BY <2>1, <2>2, <2>3, <1>1, <1>2, UmemFacts
<1>4. q \in Frames
  BY <1>2, <1>3, UmemFacts DEF Frames
<1> QED
  BY <1>2, <1>4 DEF q, FrameOf, FrameAddr

\* An address inside a frame belongs to it.
LEMMA InFrame ==
  ASSUME NEW f \in Frames, NEW a \in Int,
         FrameAddr(f) <= a, a < FrameAddr(f) + FrameSize
  PROVE  a \in Bytes /\ FrameOf(a) = f
<1>1. a \in Nat /\ a < UmemLen
  BY FrameAddrs, UmemFacts
<1>2. f * FrameSize <= a /\ a < f * FrameSize + FrameSize
  BY FrameAddrs
<1>3. a \div FrameSize = f
  BY <1>1, <1>2, FrameAddrs, UmemFacts, DivUnique
<1> QED
  BY <1>1, <1>3, UmemFacts DEF Bytes, FrameOf

\* A frame starts in itself.
LEMMA FrameStart ==
  ASSUME NEW f \in Frames
  PROVE  FrameAddr(f) \in Bytes /\ FrameOf(FrameAddr(f)) = f
  BY InFrame, FrameAddrs, UmemFacts

\* No address loses bits in a u32.
LEMMA WordFits ==
  ASSUME NEW a \in Nat, a < Word
  PROVE  a % Word = a
<1>1. a \div Word = 0
  <2>1. 0 * Word <= a /\ a < 0 * Word + Word
    BY UmemFacts
  <2> QED
    BY <2>1, UmemFacts, DivUnique
<1>2. a % Word = a - (a \div Word) * Word
  BY UmemFacts, DivBounds
<1> QED
  BY <1>1, <1>2, UmemFacts

\* update_tx_frames finds the frame of an address.
LEMMA TxIndexRight ==
  ASSUME NEW a \in Bytes
  PROVE  TxFrameIndex(a) = FrameOf(a)
<1>1. a \in Nat /\ a < Word
  BY UmemFacts DEF Bytes
<1> QED
  BY <1>1, WordFits DEF TxFrameIndex, FrameOf

\* So does update_rx_frames, for an address in a frame of XskRx.
LEMMA RxIndexRight ==
  ASSUME NEW a \in Bytes, FrameOf(a) \in RxFrames
  PROVE  RxFrame(a) = FrameOf(a)
<1> DEFINE f == FrameOf(a)
           o == FrameAddr(NTxFrames)
<1>1. a \in Nat /\ a < UmemLen /\ a < Word
  BY UmemFacts DEF Bytes
<1>2. f \in Frames /\ f \in Nat /\ NTxFrames <= f /\ NTxFrames \in Frames
  BY UmemFacts, ByteFrame DEF RxFrames, Frames
<1>3. f * FrameSize <= a /\ a < f * FrameSize + FrameSize
  BY ByteFrame, <1>2 DEF FrameAddr
<1>4. o \in Nat /\ o = NTxFrames * FrameSize
  BY <1>2, FrameAddrs
<1>5. (f - NTxFrames) * FrameSize = f * FrameSize - o
  BY <1>2, <1>4, UmemFacts
<1>6. (f - NTxFrames) * FrameSize \in Nat
  BY <1>2, UmemFacts
<1>7. f * FrameSize \in Nat
  BY <1>2, UmemFacts
<1>8. o <= a
  BY <1>3, <1>4, <1>5, <1>6, <1>7, <1>1
<1> HIDE DEF f, o
<1>9. a % Word = a /\ o % Word = o /\ (a - o) % Word = a - o
  BY <1>1, <1>4, <1>8, WordFits, UmemFacts
<1>10. (a - o) \div FrameSize = f - NTxFrames
  <2>1. (f - NTxFrames) * FrameSize <= a - o /\ a - o < (f - NTxFrames) * FrameSize + FrameSize
    BY <1>1, <1>3, <1>4, <1>5, <1>7, UmemFacts
  <2>2. a - o \in Nat /\ f - NTxFrames \in Int
    BY <1>1, <1>2, <1>4, <1>8, UmemFacts
  <2> DEFINE x == a - o
             y == f - NTxFrames
  <2> HIDE DEF x, y
  <2>3. x \in Nat /\ y \in Int /\ y * FrameSize <= x /\ x < y * FrameSize + FrameSize
    BY <2>1, <2>2 DEF x, y
  <2>4. x \div FrameSize = y
    BY <2>3, UmemFacts, DivUnique
  <2> QED
    BY <2>4 DEF x, y
<1>11. RxFrame(a) = NTxFrames + ((a - o) \div FrameSize)
  BY <1>9 DEF RxFrame, rx_frame_offset, o
<1>12. RxFrame(a) = f
  BY <1>10, <1>11, <1>2, UmemFacts
<1> QED
  BY <1>12 DEF f

\* The kernel fills the frame that a fill address points into, past the
\* headroom.
LEMMA BufferInFrame ==
  ASSUME NEW a \in Bytes
  PROVE  /\ KBuffer(a) \in Bytes /\ FrameOf(KBuffer(a)) = FrameOf(a)
         /\ KBuffer(a) = FrameAddr(FrameOf(a)) + Headroom
<1>1. FrameOf(a) \in Frames /\ a % FrameSize = a - FrameAddr(FrameOf(a))
  BY ByteFrame
<1>2. FrameAddr(FrameOf(a)) \in Nat
  BY <1>1, FrameAddrs
<1>3. KBuffer(a) = FrameAddr(FrameOf(a)) + Headroom
  <2>1. a \in Int
    BY UmemFacts DEF Bytes
  <2>2. KBuffer(a) = a - (a - FrameAddr(FrameOf(a))) + Headroom
    BY <1>1 DEF KBuffer
  <2> QED
    BY <2>1, <2>2, <1>2, UmemFacts
<1> QED
  BY <1>1, <1>2, <1>3, InFrame, UmemFacts

\* The bytes of a range that lies within a frame belong to it.
LEMMA RangeInFrame ==
  ASSUME NEW a \in Bytes, NEW n \in Nat, Within(a, n), NEW b \in MemRange(a, n)
  PROVE  b \in Bytes /\ FrameOf(b) = FrameOf(a)
<1>1. FrameOf(a) \in Frames /\ FrameAddr(FrameOf(a)) <= a
  BY ByteFrame
<1>2. FrameAddr(FrameOf(a)) \in Nat
  BY <1>1, FrameAddrs
<1>3. a \in Nat
  BY UmemFacts DEF Bytes
<1>4. b \in Int /\ a <= b /\ b < a + n
  BY <1>3 DEF MemRange
<1>5. a + n <= FrameAddr(FrameOf(a)) + FrameSize
  BY DEF Within
<1>6. FrameAddr(FrameOf(a)) <= b /\ b < FrameAddr(FrameOf(a)) + FrameSize
  BY <1>1, <1>2, <1>3, <1>4, <1>5, UmemFacts
<1> QED
  BY <1>1, <1>4, <1>6, InFrame

\* The kernel's test of a descriptor: it lies within one frame.
LEMMA ValidWithin ==
  ASSUME NEW d \in Descs
  PROVE  ValidDesc(d) <=> Within(d.addr, d.len)
<1>1. d.addr \in Bytes /\ d.len \in Nat
  BY DEF Descs
<1>2. FrameOf(d.addr) \in Frames /\ d.addr % FrameSize = d.addr - FrameAddr(FrameOf(d.addr))
  BY <1>1, ByteFrame
<1>3. FrameAddr(FrameOf(d.addr)) \in Nat
  BY <1>2, FrameAddrs
<1> QED
  BY <1>1, <1>2, <1>3, UmemFacts DEF ValidDesc, Within, Bytes

-----------------------------------------------------------------------------
(* Frames on a ring                                                        *)

\* A descriptor put at the end.
LEMMA AppendOn ==
  ASSUME NEW q \in Seq(Bytes), NEW a \in Bytes
  PROVE  /\ Append(q, a) \in Seq(Bytes)
         /\ \A f \in Frames : On(Append(q, a), f) <=> On(q, f) \/ FrameOf(a) = f
         /\ Apart(q) /\ ~On(q, FrameOf(a)) => Apart(Append(q, a))
<1> DEFINE s == Append(q, a)
<1>1. /\ s \in Seq(Bytes) /\ DOMAIN q = 1 .. Len(q) /\ Len(q) \in Nat
      /\ DOMAIN s = 1 .. Len(q) + 1 /\ s[Len(q) + 1] = a
      /\ \A i \in 1 .. Len(q) : s[i] = q[i]
  OBVIOUS
<1> HIDE DEF s
<1>2. ASSUME NEW f \in Frames PROVE On(s, f) <=> On(q, f) \/ FrameOf(a) = f
  <2>1. On(s, f) => On(q, f) \/ FrameOf(a) = f
    BY <1>1 DEF On
  <2>2. On(q, f) => On(s, f)
    BY <1>1 DEF On
  <2>3. FrameOf(a) = f => On(s, f)
    BY <1>1 DEF On
  <2> QED
    BY <2>1, <2>2, <2>3
<1>3. ASSUME Apart(q), ~On(q, FrameOf(a)) PROVE Apart(s)
  <2> SUFFICES ASSUME NEW i \in DOMAIN s, NEW j \in DOMAIN s, FrameOf(s[i]) = FrameOf(s[j])
               PROVE  i = j
    BY DEF Apart
  <2>1. CASE i \in DOMAIN q /\ j \in DOMAIN q
    BY <2>1, <1>1, <1>3 DEF Apart
  <2>2. CASE i \notin DOMAIN q /\ j \in DOMAIN q
    BY <2>2, <1>1, <1>3 DEF On
  <2>3. CASE i \in DOMAIN q /\ j \notin DOMAIN q
    BY <2>3, <1>1, <1>3 DEF On
  <2>4. CASE i \notin DOMAIN q /\ j \notin DOMAIN q
    BY <2>4, <1>1
  <2> QED
    BY <2>1, <2>2, <2>3, <2>4
<1> QED
  BY <1>1, <1>2, <1>3 DEF s

\* What is left of a sequence without its first k elements.
LEMMA SubSeqRest ==
  ASSUME NEW S, NEW q \in Seq(S), NEW k \in 0 .. Len(q)
  PROVE  LET s == SubSeq(q, k + 1, Len(q))
         IN  /\ s \in Seq(S) /\ DOMAIN s = 1 .. Len(q) - k
             /\ \A i \in 1 .. Len(q) - k : s[i] = q[i + k]
<1> DEFINE s == SubSeq(q, k + 1, Len(q))
           n == Len(q) - k
<1>1. s = [i \in 1 .. n |-> q[i + k]]
  BY SMT
<1>2. n \in Nat /\ \A i \in 1 .. n : q[i + k] \in S
  OBVIOUS
<1> HIDE DEF s, n
<1>3. s \in Seq(S) /\ DOMAIN s = 1 .. n /\ \A i \in 1 .. n : s[i] = q[i + k]
  BY <1>1, <1>2
<1> QED
  BY <1>3 DEF s, n

\* One sequence after another.
LEMMA ConcatIs ==
  ASSUME NEW S, NEW q \in Seq(S), NEW t \in Seq(S)
  PROVE  /\ q \o t \in Seq(S) /\ Len(q \o t) = Len(q) + Len(t)
         /\ \A i \in 1 .. Len(q) + Len(t) :
              (q \o t)[i] = IF i <= Len(q) THEN q[i] ELSE t[i - Len(q)]
  BY SMT

\* The first k descriptors taken off.
LEMMA RestOn ==
  ASSUME NEW q \in Seq(Bytes), NEW k \in 0 .. Len(q), Apart(q)
  PROVE  LET s == SubSeq(q, k + 1, Len(q))
         IN  /\ s \in Seq(Bytes) /\ Apart(s)
             /\ \A f \in Frames :
                  On(s, f) <=> On(q, f) /\ ~\E i \in 1 .. k : FrameOf(q[i]) = f
<1> DEFINE s == SubSeq(q, k + 1, Len(q))
<1>1. /\ Len(q) \in Nat /\ k \in Nat /\ k <= Len(q) /\ DOMAIN q = 1 .. Len(q)
      /\ \A i \in 1 .. Len(q) : q[i] \in Bytes
  OBVIOUS
<1>2. /\ s \in Seq(Bytes)
      /\ DOMAIN s = 1 .. Len(q) - k /\ \A i \in 1 .. Len(q) - k : s[i] = q[i + k]
  BY <1>1, SubSeqRest
<1>3. DOMAIN s = 1 .. Len(q) - k /\ \A i \in 1 .. Len(q) - k : s[i] = q[i + k]
  BY <1>2
<1> HIDE DEF s
<1>4. Apart(s)
  <2> SUFFICES ASSUME NEW i \in DOMAIN s, NEW j \in DOMAIN s, FrameOf(s[i]) = FrameOf(s[j])
               PROVE  i = j
    BY DEF Apart
  <2>1. i + k \in DOMAIN q /\ j + k \in DOMAIN q
    BY <1>1, <1>3
  <2>2. i + k = j + k
    BY <2>1, <1>3 DEF Apart
  <2> QED
    BY <2>2, <1>1, <1>3
<1>5. ASSUME NEW f \in Frames
      PROVE  On(s, f) <=> On(q, f) /\ ~\E i \in 1 .. k : FrameOf(q[i]) = f
  <2>1. ASSUME On(s, f) PROVE On(q, f) /\ ~\E i \in 1 .. k : FrameOf(q[i]) = f
    <3>1. PICK j \in DOMAIN s : FrameOf(s[j]) = f
      BY <2>1 DEF On
    <3>2. j + k \in DOMAIN q /\ FrameOf(q[j + k]) = f /\ j + k > k
      BY <3>1, <1>1, <1>3
    <3>3. ASSUME NEW i \in 1 .. k, FrameOf(q[i]) = f PROVE FALSE
      <4>1. i \in DOMAIN q /\ i < j + k
        BY <1>1, <3>2
      <4> QED
        BY <4>1, <3>2, <3>3 DEF Apart
    <3> QED
      BY <3>2, <3>3 DEF On
  <2>2. ASSUME On(q, f), ~\E i \in 1 .. k : FrameOf(q[i]) = f PROVE On(s, f)
    <3>1. PICK j \in DOMAIN q : FrameOf(q[j]) = f
      BY <2>2 DEF On
    <3>2. j \notin 1 .. k
      BY <3>1, <2>2
    <3>3. j - k \in DOMAIN s /\ (j - k) + k = j
      BY <3>1, <3>2, <1>1, <1>3
    <3>4. s[j - k] = q[j]
      BY <3>3, <1>3
    <3> QED
      BY <3>1, <3>3, <3>4 DEF On
  <2> QED
    BY <2>1, <2>2
<1> QED
  BY <1>2, <1>4, <1>5 DEF s

\* The oldest descriptor taken off.
LEMMA TailOn ==
  ASSUME NEW q \in Seq(Bytes), q # <<>>, Apart(q)
  PROVE  /\ Tail(q) \in Seq(Bytes) /\ Apart(Tail(q)) /\ Head(q) \in Bytes
         /\ On(q, FrameOf(Head(q)))
         /\ \A f \in Frames : On(Tail(q), f) <=> On(q, f) /\ f # FrameOf(Head(q))
<1>1. /\ Len(q) \in Nat \ {0} /\ Tail(q) = SubSeq(q, 1 + 1, Len(q)) /\ Head(q) = q[1]
      /\ 1 \in DOMAIN q /\ q[1] \in Bytes
  OBVIOUS
<1>2. 1 \in 0 .. Len(q)
  BY <1>1
<1>3. LET s == SubSeq(q, 1 + 1, Len(q))
      IN  /\ s \in Seq(Bytes) /\ Apart(s)
          /\ \A f \in Frames :
               On(s, f) <=> On(q, f) /\ ~\E i \in 1 .. 1 : FrameOf(q[i]) = f
  BY <1>2, RestOn
<1>4. \A f \in Frames : (\E i \in 1 .. 1 : FrameOf(q[i]) = f) <=> f = FrameOf(q[1])
  OBVIOUS
<1> QED
  BY <1>1, <1>3, <1>4, ZenonT(30) DEF On

\* The first k addresses of one ring put at the end of another.
LEMMA ConcatOn ==
  ASSUME NEW q \in Seq(Bytes), NEW r \in Seq(Bytes), NEW k \in 0 .. Len(r),
         Apart(q), Apart(r),
         \A i \in 1 .. k : ~On(q, FrameOf(r[i]))
  PROVE  LET s == q \o [i \in 1 .. k |-> r[i]]
         IN  /\ s \in Seq(Bytes) /\ Apart(s)
             /\ \A f \in Frames :
                  On(s, f) <=> On(q, f) \/ \E i \in 1 .. k : FrameOf(r[i]) = f
<1> DEFINE t == [i \in 1 .. k |-> r[i]]
           s == q \o t
           n == Len(q)
<1>1. /\ k \in Nat /\ n \in Nat /\ DOMAIN q = 1 .. n
      /\ \A i \in 1 .. k : i \in DOMAIN r /\ r[i] \in Bytes
  OBVIOUS
<1>2. t \in Seq(Bytes) /\ Len(t) = k /\ \A i \in 1 .. k : t[i] = r[i]
  BY <1>1
<1> HIDE DEF t
<1>3. /\ s \in Seq(Bytes) /\ Len(s) = n + k
      /\ \A i \in 1 .. n + k : s[i] = IF i <= n THEN q[i] ELSE t[i - n]
  BY <1>2, ConcatIs
<1> HIDE DEF s, n
<1>4. DOMAIN s = 1 .. n + k
  BY <1>3
<1>5. \A i \in 1 .. n : i \in DOMAIN s /\ s[i] = q[i]
  BY <1>1, <1>3, <1>4
<1>6. \A i \in 1 .. k : i + n \in DOMAIN s /\ s[i + n] = r[i]
  <2> SUFFICES ASSUME NEW i \in 1 .. k PROVE i + n \in DOMAIN s /\ s[i + n] = r[i]
    OBVIOUS
  <2>1. i + n \in 1 .. n + k /\ ~(i + n <= n) /\ (i + n) - n = i
    BY <1>1
  <2>2. s[i + n] = t[(i + n) - n]
    BY <2>1, <1>3
  <2> QED
    BY <2>1, <2>2, <1>2, <1>4
<1>7. \A i \in DOMAIN s : i \in 1 .. n \/ \E j \in 1 .. k : i = j + n
  <2> SUFFICES ASSUME NEW i \in DOMAIN s, i \notin 1 .. n PROVE \E j \in 1 .. k : i = j + n
    OBVIOUS
  <2>1. i - n \in 1 .. k /\ i = (i - n) + n
    BY <1>1, <1>4
  <2> QED
    BY <2>1
<1>8. ASSUME NEW f \in Frames
      PROVE  On(s, f) <=> On(q, f) \/ \E i \in 1 .. k : FrameOf(r[i]) = f
  <2>1. On(s, f) => On(q, f) \/ \E i \in 1 .. k : FrameOf(r[i]) = f
    <3> SUFFICES ASSUME NEW i \in DOMAIN s, FrameOf(s[i]) = f
                 PROVE  On(q, f) \/ \E j \in 1 .. k : FrameOf(r[j]) = f
      BY DEF On
    <3>1. CASE i \in 1 .. n
      BY <3>1, <1>1, <1>5 DEF On
    <3>2. ASSUME NEW j \in 1 .. k, i = j + n PROVE FrameOf(r[j]) = f
      BY <3>2, <1>6
    <3> QED
      BY <3>1, <3>2, <1>7
  <2>2. On(q, f) => On(s, f)
    BY <1>1, <1>5 DEF On
  <2>3. (\E i \in 1 .. k : FrameOf(r[i]) = f) => On(s, f)
    BY <1>6 DEF On
  <2> QED
    BY <2>1, <2>2, <2>3
<1>9. Apart(s)
  <2> SUFFICES ASSUME NEW i \in DOMAIN s, NEW j \in DOMAIN s, FrameOf(s[i]) = FrameOf(s[j])
               PROVE  i = j
    BY DEF Apart
  <2>1. CASE i \in 1 .. n /\ j \in 1 .. n
    BY <2>1, <1>1, <1>5 DEF Apart
  <2>2. CASE i \in 1 .. n /\ j \notin 1 .. n
    <3>1. PICK y \in 1 .. k : j = y + n
      BY <2>2, <1>7
    <3>2. FrameOf(q[i]) = FrameOf(r[y])
      BY <2>2, <3>1, <1>5, <1>6
    <3> QED
      BY <3>2, <2>2, <1>1 DEF On
  <2>3. CASE i \notin 1 .. n /\ j \in 1 .. n
    <3>1. PICK x \in 1 .. k : i = x + n
      BY <2>3, <1>7
    <3>2. FrameOf(r[x]) = FrameOf(q[j])
      BY <2>3, <3>1, <1>5, <1>6
    <3> QED
      BY <3>2, <2>3, <1>1 DEF On
  <2>4. CASE i \notin 1 .. n /\ j \notin 1 .. n
    <3>1. PICK x \in 1 .. k : i = x + n
      BY <2>4, <1>7
    <3>2. PICK y \in 1 .. k : j = y + n
      BY <2>4, <1>7
    <3>3. FrameOf(r[x]) = FrameOf(r[y])
      BY <3>1, <3>2, <1>6
    <3> QED
      BY <3>1, <3>2, <3>3, <1>1 DEF Apart
  <2> QED
    BY <2>1, <2>2, <2>3, <2>4
<1> QED
  BY <1>3, <1>8, <1>9 DEF s, t

\* The addresses of a ring of descriptors.
LEMMA AddrsOf ==
  ASSUME NEW q \in Seq(Descs)
  PROVE  /\ Addrs(q) \in Seq(Bytes) /\ Len(Addrs(q)) = Len(q) /\ DOMAIN Addrs(q) = DOMAIN q
         /\ DOMAIN q = 1 .. Len(q) /\ Len(q) \in Nat
         /\ \A i \in DOMAIN q : /\ q[i] \in Descs /\ Addrs(q)[i] = q[i].addr
                                /\ q[i].addr \in Bytes /\ q[i].len \in Nat
                                /\ q[i].pkt \in 1 .. MaxPkts
<1>1. DOMAIN q = 1 .. Len(q) /\ Len(q) \in Nat /\ \A i \in 1 .. Len(q) : q[i] \in Descs
  OBVIOUS
<1>2. \A d \in Descs : d.addr \in Bytes /\ d.len \in Nat /\ d.pkt \in 1 .. MaxPkts
  BY DEF Descs
<1>3. \A i \in 1 .. Len(q) : q[i].addr \in Bytes
  BY <1>1, <1>2
<1>4. Addrs(q) = [i \in 1 .. Len(q) |-> q[i].addr]
  BY <1>1 DEF Addrs
<1>5. Addrs(q) \in Seq(Bytes) /\ Len(Addrs(q)) = Len(q)
  BY <1>1, <1>3, <1>4
<1> QED
  BY <1>1, <1>2, <1>4, <1>5

\* A ring after a descriptor is put at its end.
LEMMA DescsAppend ==
  ASSUME NEW q \in Seq(Descs), NEW d \in Descs
  PROVE  /\ Len(q) \in Nat /\ DOMAIN q = 1 .. Len(q)
         /\ Append(q, d) \in Seq(Descs) /\ DOMAIN Append(q, d) = 1 .. Len(q) + 1
         /\ Append(q, d)[Len(q) + 1] = d
         /\ \A i \in DOMAIN q : Append(q, d)[i] = q[i]
OBVIOUS

\* The addresses of a ring that grows.
LEMMA AddrsAppend ==
  ASSUME NEW q \in Seq(Descs), NEW d \in Descs
  PROVE  Append(q, d) \in Seq(Descs) /\ Addrs(Append(q, d)) = Append(Addrs(q), d.addr)
<1>1. /\ Addrs(q) \in Seq(Bytes) /\ Len(Addrs(q)) = Len(q) /\ Len(q) \in Nat
      /\ DOMAIN q = 1 .. Len(q) /\ \A i \in DOMAIN q : Addrs(q)[i] = q[i].addr
  BY AddrsOf
<1>2. d.addr \in Bytes
  BY DEF Descs
<1> DEFINE s == Append(q, d)
           t == Append(Addrs(q), d.addr)
<1>3. /\ s \in Seq(Descs) /\ DOMAIN s = 1 .. Len(q) + 1 /\ s[Len(q) + 1] = d
      /\ \A i \in 1 .. Len(q) : s[i] = q[i]
  BY <1>1
<1>4. /\ t \in Seq(Bytes) /\ DOMAIN t = 1 .. Len(q) + 1 /\ t[Len(q) + 1] = d.addr
      /\ \A i \in 1 .. Len(q) : t[i] = Addrs(q)[i]
  BY <1>1, <1>2
<1> HIDE DEF s, t
<1>5. Addrs(s) = [i \in 1 .. Len(q) + 1 |-> s[i].addr]
  BY <1>3 DEF Addrs
<1>6. \A i \in 1 .. Len(q) + 1 : s[i].addr = t[i]
  BY <1>1, <1>3, <1>4
<1>7. t = [i \in 1 .. Len(q) + 1 |-> t[i]]
  BY <1>4
<1>8. Addrs(s) = t
  BY <1>5, <1>6, <1>7
<1> QED
  BY <1>3, <1>8 DEF s, t

\* And of one that loses its first k descriptors.
LEMMA AddrsRest ==
  ASSUME NEW q \in Seq(Descs), NEW k \in 0 .. Len(q)
  PROVE  /\ SubSeq(q, k + 1, Len(q)) \in Seq(Descs)
         /\ Addrs(SubSeq(q, k + 1, Len(q))) = SubSeq(Addrs(q), k + 1, Len(Addrs(q)))
<1>1. /\ Addrs(q) \in Seq(Bytes) /\ Len(Addrs(q)) = Len(q) /\ Len(q) \in Nat
      /\ DOMAIN q = 1 .. Len(q) /\ \A i \in DOMAIN q : Addrs(q)[i] = q[i].addr
  BY AddrsOf
<1> DEFINE s == SubSeq(q, k + 1, Len(q))
           t == SubSeq(Addrs(q), k + 1, Len(Addrs(q)))
           n == Len(q) - k
<1>2. /\ s \in Seq(Descs) /\ DOMAIN s = 1 .. n /\ \A i \in 1 .. n : s[i] = q[i + k]
  BY SubSeqRest
<1>3. /\ t \in Seq(Bytes) /\ DOMAIN t = 1 .. n /\ \A i \in 1 .. n : t[i] = Addrs(q)[i + k]
  BY SubSeqRest, <1>1
<1>4. \A i \in 1 .. n : i + k \in DOMAIN q
  BY <1>1
<1> HIDE DEF s, t, n
<1>5. Addrs(s) = [i \in 1 .. n |-> s[i].addr]
  BY <1>2 DEF Addrs
<1>6. \A i \in 1 .. n : s[i].addr = t[i]
  BY <1>1, <1>2, <1>3, <1>4
<1>7. t = [i \in 1 .. n |-> t[i]]
  BY <1>3
<1>8. Addrs(s) = t
  BY <1>5, <1>6, <1>7
<1> QED
  BY <1>2, <1>8 DEF s, t

\* Sets with no and with one element.
LEMMA CardZero == Cardinality({}) = 0
  BY Zenon DEF Cardinality

\* The recursion that defines Cardinality has a solution on the subsets of a
\* singleton, and it counts one.
LEMMA CardOne ==
  ASSUME NEW x
  PROVE  Cardinality({x}) = 1
<1> DEFINE P == SUBSET {x}
           IsCount(f) == f = [T \in P |-> IF T = {} THEN 0 ELSE 1 + f[T \ {CHOOSE y : y \in T}]]
           C == CHOOSE f : IsCount(f)
           g == [T \in P |-> IF T = {} THEN 0 ELSE 1]
<1>1. {} \in P /\ {x} \in P /\ {x} # {} /\ \A T \in P : T = {} \/ T = {x}
  OBVIOUS
<1>2. (CHOOSE y : y \in {x}) = x
  OBVIOUS
<1>3. {x} \ {CHOOSE y : y \in {x}} = {}
  BY <1>2
<1> HIDE DEF P
<1>4. IsCount(g)
  <2>1. g[{}] = 0 /\ g[{x}] = 1
    BY <1>1
  <2>2. \A T \in P : g[T] = IF T = {} THEN 0 ELSE 1 + g[T \ {CHOOSE y : y \in T}]
    <3> SUFFICES ASSUME NEW T \in P
                 PROVE  g[T] = IF T = {} THEN 0 ELSE 1 + g[T \ {CHOOSE y : y \in T}]
      OBVIOUS
    <3> HIDE DEF g
    <3>1. CASE T = {}
      BY <3>1, <2>1
    <3>2. CASE T = {x}
      <4>1. T \ {CHOOSE y : y \in T} = {}
        BY <3>2, <1>3
      <4>2. g[T] = 1 /\ T # {} /\ g[T \ {CHOOSE y : y \in T}] = 0
        BY <3>2, <4>1, <2>1, <1>1, Zenon
      <4> QED
        BY <4>2
    <3> QED
      BY <3>1, <3>2, <1>1
  <2>3. g = [T \in P |-> g[T]]
    OBVIOUS
  <2> HIDE DEF g
  <2> QED
    BY <2>2, <2>3, Zenon
<1>5. IsCount(C)
  <2> HIDE DEF IsCount, g
  <2> QED
    BY <1>4
<1> HIDE DEF C
<1>6. C[{}] = 0 /\ C[{x}] = 1 + C[{x} \ {CHOOSE y : y \in {x}}]
  BY <1>1, <1>5
<1>7. Cardinality({x}) = C[{x}]
  BY DEF Cardinality, C, P
<1> QED
  BY <1>3, <1>6, <1>7

\* On a ring where no frame occurs twice, a frame has one place or none.
LEMMA PlacesOn ==
  ASSUME NEW q \in Seq(Bytes), Apart(q), NEW f
  PROVE  Places(q, f) = IF On(q, f) THEN 1 ELSE 0
<1> DEFINE P == {i \in DOMAIN q : FrameOf(q[i]) = f}
<1>1. ASSUME On(q, f) PROVE Cardinality(P) = 1
  <2>1. PICK i \in DOMAIN q : FrameOf(q[i]) = f
    BY <1>1 DEF On
  <2>2. P = {i}
    BY <2>1 DEF Apart
  <2> QED
    BY <2>2, CardOne, Zenon
<1>2. ASSUME ~On(q, f) PROVE Cardinality(P) = 0
  <2>1. P = {}
    BY <1>2 DEF On
  <2> QED
    BY <2>1, CardZero, Zenon
<1> QED
  BY <1>1, <1>2 DEF Places

-----------------------------------------------------------------------------
(* Memory                                                                  *)

\* The frames of the two halves.
LEMMA TwoHalves ==
  /\ TxFrames \subseteq Frames /\ RxFrames \subseteq Frames
  /\ \A f \in Frames : f \in TxFrames <=> f \notin RxFrames
  BY UmemFacts DEF Frames, TxFrames, RxFrames

\* Frames on a ring of addresses are frames.
LEMMA OnFrames ==
  ASSUME NEW q \in Seq(Bytes), NEW i \in DOMAIN q
  PROVE  q[i] \in Bytes /\ FrameOf(q[i]) \in Frames /\ On(q, FrameOf(q[i]))
<1>1. q[i] \in Bytes
  OBVIOUS
<1> QED
  BY <1>1, ByteFrame DEF On

\* A descriptor on a ring, and its frame.
LEMMA DescOn ==
  ASSUME NEW q \in Seq(Descs), NEW i \in DOMAIN q
  PROVE  /\ q[i] \in Descs /\ q[i].addr \in Bytes /\ q[i].len \in Nat
         /\ FrameOf(q[i].addr) \in Frames /\ On(Addrs(q), FrameOf(q[i].addr))
<1>1. /\ Addrs(q) \in Seq(Bytes) /\ i \in DOMAIN Addrs(q) /\ Addrs(q)[i] = q[i].addr
      /\ q[i] \in Descs /\ q[i].addr \in Bytes /\ q[i].len \in Nat
  BY AddrsOf
<1>2. FrameOf(Addrs(q)[i]) \in Frames /\ On(Addrs(q), FrameOf(Addrs(q)[i]))
  BY <1>1, OnFrames
<1> QED
  BY <1>1, <1>2

\* A write into one frame leaves what lies in another.
LEMMA WriteElsewhere ==
  ASSUME NEW R, NEW p, NEW g, \A b \in R : FrameOf(b) = g,
         NEW a \in Bytes, NEW n \in Nat, Within(a, n), FrameOf(a) # g,
         NEW v, Holds(mem, a, n, v)
  PROVE  Holds(Written(R, p), a, n, v)
<1> SUFFICES ASSUME NEW b \in MemRange(a, n) PROVE Written(R, p)[b] = v
  BY DEF Holds
<1>1. b \in Bytes /\ FrameOf(b) = FrameOf(a)
  BY RangeInFrame
<1>2. b \notin R
  BY <1>1
<1>3. mem[b] = v
  BY DEF Holds
<1> QED
  BY <1>1, <1>2, <1>3 DEF Written

\* What was written is there.
LEMMA WriteThere ==
  ASSUME NEW a \in Bytes, NEW n \in Nat, NEW w \in Nat, n <= w, Within(a, n), NEW p
  PROVE  Holds(Written(MemRange(a, w), p), a, n, p)
<1> SUFFICES ASSUME NEW b \in MemRange(a, n) PROVE Written(MemRange(a, w), p)[b] = p
  BY DEF Holds
<1>1. b \in Bytes
  BY RangeInFrame
<1>2. a \in Int
  BY UmemFacts DEF Bytes
<1>3. b \in MemRange(a, w)
  BY <1>2 DEF MemRange
<1> QED
  BY <1>1, <1>3 DEF Written

\* The memory keeps its type.
LEMMA WrittenType ==
  ASSUME mem \in [Bytes -> 0 .. MaxPkts], NEW R, NEW p \in 0 .. MaxPkts
  PROVE  Written(R, p) \in [Bytes -> 0 .. MaxPkts]
  BY DEF Written

-----------------------------------------------------------------------------
(* What the halves read off their rings                                    *)

\* complete_frames frees the frames whose completions it consumed, no other.
LEMMA CompletedIs ==
  ASSUME UType, TxAccount, NEW k \in 0 .. Len(compq)
  PROVE  LET rest == SubSeq(compq, k + 1, Len(compq))
         IN  /\ rest \in Seq(Bytes) /\ Apart(rest)
             /\ Completed(k) \in [Frames -> {"Free", "OnTxQueue", "Filled"}]
             /\ \A g \in Frames :
                  /\ On(rest, g) => On(compq, g) /\ Completed(k)[g] = "OnTxQueue"
                  /\ On(Addrs(txq), g) => Completed(k)[g] = "OnTxQueue"
                  /\ g \in RxFrames => Completed(k)[g] = status[g]
                  /\ g \in TxFrames =>
                       \/ Completed(k)[g] = "Free"
                       \/ /\ Completed(k)[g] = "OnTxQueue"
                          /\ On(Addrs(txq), g) \/ On(rest, g) \/ len[g] > FrameSize
<1> DEFINE rest == SubSeq(compq, k + 1, Len(compq))
           Done(g) == \E i \in 1 .. k : FrameOf(compq[i]) = g
<1>1. compq \in Seq(Bytes) /\ Apart(compq)
      /\ status \in [Frames -> {"Free", "OnTxQueue", "Filled"}]
  BY DEF UType, TxAccount
<1>2. /\ rest \in Seq(Bytes) /\ Apart(rest)
      /\ \A g \in Frames : On(rest, g) <=> On(compq, g) /\ ~Done(g)
  BY <1>1, RestOn
<1>3. \A i \in 1 .. k : i \in DOMAIN compq
  BY <1>1
<1>4. \A i \in 1 .. k : compq[i] \in Bytes /\ TxFrameIndex(compq[i]) = FrameOf(compq[i])
                        /\ On(compq, FrameOf(compq[i]))
  BY <1>1, <1>3, OnFrames, TxIndexRight
<1>5. Completed(k) = [g \in Frames |-> IF Done(g) THEN "Free" ELSE status[g]]
  BY <1>4 DEF Completed
<1>6. \A g \in Frames : Done(g) => On(compq, g)
  BY <1>4
<1> HIDE DEF rest, Done
<1>7. Completed(k) \in [Frames -> {"Free", "OnTxQueue", "Filled"}]
  BY <1>1, <1>5
<1>8. ASSUME NEW g \in Frames
      PROVE  /\ On(rest, g) => On(compq, g) /\ Completed(k)[g] = "OnTxQueue"
             /\ On(Addrs(txq), g) => Completed(k)[g] = "OnTxQueue"
             /\ g \in RxFrames => Completed(k)[g] = status[g]
             /\ g \in TxFrames =>
                  \/ Completed(k)[g] = "Free"
                  \/ /\ Completed(k)[g] = "OnTxQueue"
                     /\ On(Addrs(txq), g) \/ On(rest, g) \/ len[g] > FrameSize
  <2>1. Completed(k)[g] = IF Done(g) THEN "Free" ELSE status[g]
    BY <1>5
  <2>2. /\ On(Addrs(txq), g) => g \in TxFrames /\ status[g] = "OnTxQueue" /\ ~On(compq, g)
        /\ On(compq, g) => g \in TxFrames /\ status[g] = "OnTxQueue"
        /\ g \in TxFrames =>
            \/ status[g] = "Free"
            \/ /\ status[g] = "OnTxQueue"
               /\ On(Addrs(txq), g) \/ On(compq, g) \/ len[g] > FrameSize
    BY DEF TxAccount
  <2>3. On(rest, g) <=> On(compq, g) /\ ~Done(g)
    BY <1>2
  <2>4. Done(g) => On(compq, g)
    BY <1>6
  <2>5. g \in TxFrames <=> g \notin RxFrames
    BY TwoHalves
  <2> QED
    BY <2>1, <2>2, <2>3, <2>4, <2>5
<1> QED
  BY <1>2, <1>7, <1>8 DEF rest

-----------------------------------------------------------------------------
(* The steps of XskTx                                                      *)

\* What send, with data that fits, and send_apply have in common: w bytes are
\* written and n is the length of the descriptor before it is cut.
TxWritesBut(k, f, n, w) ==
  /\ compq' = SubSeq(compq, k + 1, Len(compq))
  /\ Completed(k)[f] = "Free"
  /\ status' = [Completed(k) EXCEPT ![f] = "OnTxQueue"]
  /\ mem' = Written(MemRange(addr[f], w), pkts + 1)
  /\ Submit(f, n)
  /\ UNCHANGED <<addr, rxq, fillq, holds>>

TxWrites(k, f, n, w) == TxWritesBut(k, f, n, w) /\ UNCHANGED panicked

\* The frame written to is on no ring of its half, and the bytes written are
\* its own.
LEMMA TxWritesOwn ==
  ASSUME UType, AddrInv, TxAccount, NEW k \in 0 .. Len(compq), NEW f \in TxFrames,
         Completed(k)[f] = "Free", NEW w \in Nat, w <= FrameSize
  PROVE  /\ ~On(Addrs(txq), f) /\ ~On(SubSeq(compq, k + 1, Len(compq)), f)
         /\ addr[f] \in Bytes /\ FrameOf(addr[f]) = f /\ addr[f] = FrameAddr(f)
         /\ Within(addr[f], w)
         /\ \A b \in MemRange(addr[f], w) : b \in Bytes /\ FrameOf(b) = f
<1>1. f \in Frames
  BY TwoHalves
<1>2. ~On(Addrs(txq), f) /\ ~On(SubSeq(compq, k + 1, Len(compq)), f)
  BY <1>1, CompletedIs
<1>3. addr[f] \in Bytes /\ FrameOf(addr[f]) = f /\ addr[f] = FrameAddr(f)
  BY <1>1 DEF UType, AddrInv
<1>4. Within(addr[f], w)
  BY <1>3, <1>1, FrameAddrs, UmemFacts DEF Within
<1> QED
  BY <1>2, <1>3, <1>4, RangeInFrame

\* The descriptor that is submitted.
LEMMA TxDesc ==
  ASSUME UType, AddrInv, NEW f \in TxFrames, NEW n \in Nat, pkts < MaxPkts
  PROVE  LET d == [addr |-> addr[f], len |-> n % Word, pkt |-> pkts + 1]
         IN  /\ d \in Descs /\ d.addr = addr[f] /\ d.len = n % Word /\ d.pkt = pkts + 1
             /\ n % Word \in Nat /\ n % Word <= n
<1>1. n % Word \in Nat /\ n % Word <= n
  <2>1. n \div Word \in Nat /\ n % Word = n - (n \div Word) * Word /\ (n \div Word) * Word <= n
    BY UmemFacts, DivBounds, Zenon
  <2>2. (n \div Word) * Word \in Nat
    BY <2>1, UmemFacts
  <2> QED
    BY <2>1, <2>2
<1>2. addr[f] \in Bytes /\ pkts + 1 \in 1 .. MaxPkts
  BY TwoHalves, UmemFacts DEF UType
<1> QED
  BY <1>1, <1>2 DEF Descs

\* Both keep the invariant.
LEMMA TxWritesInv ==
  ASSUME UmemInv, NEW k \in 0 .. Len(compq), NEW f \in TxFrames, NEW n \in Nat, NEW w \in Nat,
         w <= FrameSize, n % Word <= FrameSize => n % Word <= w, pkts < MaxPkts,
         TxWrites(k, f, n, w)
  PROVE  UmemInv'
<1> DEFINE rest == SubSeq(compq, k + 1, Len(compq))
           d == [addr |-> addr[f], len |-> n % Word, pkt |-> pkts + 1]
           A == Addrs(txq)
<1>1. UType /\ AddrInv /\ TxAccount /\ RxAccount /\ TxData /\ RxData /\ FilledData
  BY DEF UmemInv
<1>2. f \in Frames /\ f \notin RxFrames
  BY TwoHalves
<1>3. /\ compq' = rest /\ Completed(k)[f] = "Free"
      /\ status' = [Completed(k) EXCEPT ![f] = "OnTxQueue"]
      /\ mem' = Written(MemRange(addr[f], w), pkts + 1)
      /\ len' = [len EXCEPT ![f] = n] /\ txq' = Append(txq, d) /\ pkts' = pkts + 1
      /\ addr' = addr /\ rxq' = rxq /\ fillq' = fillq /\ holds' = holds /\ panicked' = panicked
  BY DEF TxWrites, TxWritesBut, Submit
<1>4. /\ ~On(A, f) /\ ~On(rest, f)
      /\ addr[f] \in Bytes /\ FrameOf(addr[f]) = f /\ addr[f] = FrameAddr(f)
      /\ Within(addr[f], w)
      /\ \A b \in MemRange(addr[f], w) : b \in Bytes /\ FrameOf(b) = f
  BY <1>1, <1>3, TxWritesOwn
<1>5. /\ d \in Descs /\ d.addr = addr[f] /\ d.len = n % Word /\ d.pkt = pkts + 1
      /\ n % Word \in Nat /\ n % Word <= n
  BY <1>1, TxDesc
<1>6. /\ rest \in Seq(Bytes) /\ Apart(rest)
      /\ Completed(k) \in [Frames -> {"Free", "OnTxQueue", "Filled"}]
      /\ \A g \in Frames :
                  /\ On(rest, g) => On(compq, g) /\ Completed(k)[g] = "OnTxQueue"
                  /\ On(A, g) => Completed(k)[g] = "OnTxQueue"
                  /\ g \in RxFrames => Completed(k)[g] = status[g]
                  /\ g \in TxFrames =>
                       \/ Completed(k)[g] = "Free"
                       \/ /\ Completed(k)[g] = "OnTxQueue"
                          /\ On(A, g) \/ On(rest, g) \/ len[g] > FrameSize
  BY <1>1, CompletedIs
<1>7. /\ txq \in Seq(Descs) /\ A \in Seq(Bytes)
      /\ DOMAIN A = DOMAIN txq
      /\ \A i \in DOMAIN txq : /\ txq[i] \in Descs /\ A[i] = txq[i].addr
                               /\ txq[i].addr \in Bytes /\ txq[i].len \in Nat
  BY <1>1, AddrsOf DEF UType
<1>8. txq' \in Seq(Descs) /\ Addrs(txq') = Append(A, addr[f])
  BY <1>3, <1>5, <1>7, AddrsAppend, ZenonT(30)
<1>9. /\ Apart(Addrs(txq'))
      /\ \A g \in Frames : On(Addrs(txq'), g) <=> On(A, g) \/ g = f
  BY <1>1, <1>4, <1>7, <1>8, AppendOn DEF TxAccount
<1> HIDE DEF rest, d, A
<1>10. \A g \in Frames : status'[g] = IF g = f THEN "OnTxQueue" ELSE Completed(k)[g]
  BY <1>3, <1>6
<1>11. UType'
  <2>1. pkts + 1 \in 0 .. MaxPkts
    BY <1>1, UmemFacts DEF UType
  <2>2. mem' \in [Bytes -> 0 .. MaxPkts]
    BY <1>1, <1>3, <2>1, WrittenType, Zenon DEF UType
  <2>3. status' \in [Frames -> {"Free", "OnTxQueue", "Filled"}]
    BY <1>3, <1>6, Zenon
  <2>4. len' \in [Frames -> Nat]
    BY <1>1, <1>3, Zenon DEF UType
  <2> QED
    BY <1>1, <1>3, <1>6, <1>8, <2>1, <2>2, <2>3, <2>4, Zenon DEF UType
<1>12. AddrInv'
  BY <1>1, <1>3 DEF AddrInv
<1>13. TxAccount'
  <2> SUFFICES ASSUME NEW g \in Frames
      PROVE  /\ On(Addrs(txq'), g) => g \in TxFrames /\ status'[g] = "OnTxQueue" /\ ~On(compq', g)
             /\ On(compq', g) => g \in TxFrames /\ status'[g] = "OnTxQueue"
             /\ g \in TxFrames =>
                  \/ status'[g] = "Free"
                  \/ /\ status'[g] = "OnTxQueue"
                     /\ On(Addrs(txq'), g) \/ On(compq', g) \/ len'[g] > FrameSize
    BY <1>3, <1>6, <1>9 DEF TxAccount
  <2>1. g # f => len'[g] = len[g]
    BY <1>1, <1>3, ZenonT(30) DEF UType
  <2>2. /\ On(A, g) => g \in TxFrames /\ ~On(compq, g)
        /\ On(compq, g) => g \in TxFrames
    BY <1>1 DEF TxAccount, A
  <2>3. status'[g] = IF g = f THEN "OnTxQueue" ELSE Completed(k)[g]
    BY <1>10
  <2>4. On(Addrs(txq'), g) <=> On(A, g) \/ g = f
    BY <1>9, ZenonT(30)
  <2>5. CASE g = f
    BY <2>2, <2>3, <2>4, <2>5, <1>3, <1>4, <1>6, ZenonT(30)
  <2>6. CASE g # f
    BY <2>1, <2>2, <2>3, <2>4, <2>6, <1>3, <1>6
  <2> QED
    BY <2>5, <2>6, ZenonT(30)
<1>14. RxAccount'
  <2>1. \A g \in Frames : g \in RxFrames => status'[g] = status[g]
    BY <1>2, <1>6, <1>10
  <2> QED
    BY <1>1, <1>3, <2>1 DEF RxAccount
<1>15. TxData'
  <2>1. /\ DOMAIN txq' = 1 .. Len(txq) + 1 /\ DOMAIN txq = 1 .. Len(txq) /\ Len(txq) \in Nat
        /\ txq'[Len(txq) + 1] = d /\ \A i \in DOMAIN txq : txq'[i] = txq[i]
    BY <1>3, <1>5, <1>7
  <2> SUFFICES ASSUME NEW i \in DOMAIN txq'
      PROVE  /\ txq'[i].addr = FrameAddr(FrameOf(txq'[i].addr))
             /\ txq'[i].len <= len'[FrameOf(txq'[i].addr)]
             /\ Within(txq'[i].addr, txq'[i].len) =>
                  Holds(mem', txq'[i].addr, txq'[i].len, txq'[i].pkt)
    BY DEF TxData
  <2>2. CASE i \in DOMAIN txq
    <3>1. /\ txq'[i] = txq[i] /\ txq[i].addr \in Bytes /\ txq[i].len \in Nat
          /\ txq[i].addr = FrameAddr(FrameOf(txq[i].addr))
          /\ txq[i].len <= len[FrameOf(txq[i].addr)]
          /\ Within(txq[i].addr, txq[i].len) =>
                  Holds(mem, txq[i].addr, txq[i].len, txq[i].pkt)
      BY <2>1, <2>2, <1>1, <1>7 DEF TxData
    <3>2. FrameOf(txq[i].addr) # f /\ FrameOf(txq[i].addr) \in Frames
      BY <2>2, <1>4, <1>7, OnFrames
    <3>3. len'[FrameOf(txq[i].addr)] = len[FrameOf(txq[i].addr)]
      BY <3>2, <1>1, <1>3, ZenonT(30) DEF UType
    <3>4. Within(txq[i].addr, txq[i].len) =>
                  Holds(mem', txq[i].addr, txq[i].len, txq[i].pkt)
      BY <3>1, <3>2, <1>3, <1>4, WriteElsewhere, Zenon
    <3> QED
      BY <3>1, <3>3, <3>4
  <2>3. CASE i = Len(txq) + 1
    <3>1. txq'[i].addr = addr[f] /\ txq'[i].len = n % Word /\ txq'[i].pkt = pkts + 1
      BY <2>1, <2>3, <1>5
    <3>2. len'[f] = n
      BY <1>1, <1>2, <1>3 DEF UType
    <3>3. ASSUME Within(addr[f], n % Word) PROVE Holds(mem', addr[f], n % Word, pkts + 1)
      <4>1. n % Word <= FrameSize
        BY <3>3, <1>2, <1>4, <1>5, FrameAddrs, UmemFacts DEF Within
      <4> QED
        BY <4>1, <3>3, <1>3, <1>4, <1>5, WriteThere
    <3> QED
      BY <3>1, <3>2, <3>3, <1>4, <1>5
  <2> QED
    BY <2>1, <2>2, <2>3
<1>16. RxData'
  <2> SUFFICES ASSUME NEW i \in DOMAIN rxq
      PROVE  Within(rxq[i].addr, rxq[i].len) /\ Holds(mem', rxq[i].addr, rxq[i].len, rxq[i].pkt)
    BY <1>3, ZenonT(30) DEF RxData
  <2>1. /\ Within(rxq[i].addr, rxq[i].len) /\ Holds(mem, rxq[i].addr, rxq[i].len, rxq[i].pkt)
        /\ rxq[i].addr \in Bytes /\ rxq[i].len \in Nat
        /\ FrameOf(rxq[i].addr) \in Frames /\ On(Addrs(rxq), FrameOf(rxq[i].addr))
    BY <1>1, DescOn DEF RxData, UType
  <2>2. FrameOf(rxq[i].addr) # f
    BY <1>1, <1>2, <2>1, Zenon DEF RxAccount
  <2> QED
    BY <1>3, <1>4, <2>1, <2>2, WriteElsewhere, Zenon
<1>17. FilledData'
  <2> SUFFICES ASSUME NEW g \in RxFrames, status'[g] = "Filled"
      PROVE  Within(addr[g], len'[g]) /\ Holds(mem', addr[g], len'[g], holds[g])
    BY <1>3, ZenonT(30) DEF FilledData
  <2>1. g \in Frames /\ g # f
    BY <1>2, TwoHalves
  <2>2. status[g] = "Filled" /\ len'[g] = len[g] /\ len[g] \in Nat
    BY <2>1, <1>1, <1>3, <1>6, <1>10 DEF UType
  <2>3. addr[g] \in Bytes /\ FrameOf(addr[g]) = g
    BY <2>1, <1>1 DEF UType, AddrInv
  <2>4. Within(addr[g], len[g]) /\ Holds(mem, addr[g], len[g], holds[g])
    BY <2>2, <1>1 DEF FilledData
  <2> QED
    BY <2>1, <2>2, <2>3, <2>4, <1>3, <1>4, WriteElsewhere, ZenonT(30)
<1> QED
  BY <1>11, <1>12, <1>13, <1>14, <1>15, <1>16, <1>17 DEF UmemInv

\* A step that changes no descriptor, byte or frame but frees completed frames.
LEMMA TxPanicInv ==
  ASSUME UmemInv, NEW k \in 0 .. Len(compq),
         compq' = SubSeq(compq, k + 1, Len(compq)), status' = Completed(k),
         panicked' = panicked \cup {"tx"},
         UNCHANGED <<mem, len, txq, pkts, addr, rxq, fillq, holds>>
  PROVE  UmemInv'
<1>1. UType /\ AddrInv /\ TxAccount /\ RxAccount /\ TxData /\ RxData /\ FilledData
  BY ZenonT(30) DEF UmemInv
<1>2. /\ compq' \in Seq(Bytes) /\ Apart(compq')
      /\ status' \in [Frames -> {"Free", "OnTxQueue", "Filled"}]
      /\ \A g \in Frames :
                  /\ On(compq', g) => On(compq, g) /\ status'[g] = "OnTxQueue"
                  /\ On(Addrs(txq), g) => status'[g] = "OnTxQueue"
                  /\ g \in RxFrames => status'[g] = status[g]
                  /\ g \in TxFrames =>
                       \/ status'[g] = "Free"
                       \/ /\ status'[g] = "OnTxQueue"
                          /\ On(Addrs(txq), g) \/ On(compq', g) \/ len[g] > FrameSize
  BY <1>1, CompletedIs
<1>3. UType'
  BY <1>1, <1>2, ZenonT(30) DEF UType
<1>4. AddrInv'
  BY <1>1 DEF AddrInv
<1>5. TxAccount'
  BY <1>1, <1>2 DEF TxAccount
<1>6. RxAccount'
  BY <1>1, <1>2, ZenonT(30) DEF RxAccount
<1>7. TxData' /\ RxData'
  BY <1>1, ZenonT(30) DEF TxData, RxData
<1>8. FilledData'
  BY <1>1, <1>2, TwoHalves, ZenonT(30) DEF FilledData
<1> QED
  BY <1>3, <1>4, <1>5, <1>6, <1>7, <1>8 DEF UmemInv

\* The indices update_tx_frames computes are within tx_frames.
LEMMA NoTxPanics ==
  ASSUME UmemInv, NEW k \in 0 .. Len(compq)
  PROVE  TxPanics(k) = {}
<1>1. /\ compq \in Seq(Bytes)
      /\ \A f \in Frames : On(compq, f) => f \in TxFrames
  BY ZenonT(30) DEF UmemInv, UType, TxAccount
<1>2. \A i \in 1 .. k : i \in DOMAIN compq
  BY <1>1
<1>3. \A i \in 1 .. k : /\ TxFrameIndex(compq[i]) = FrameOf(compq[i])
                        /\ FrameOf(compq[i]) \in Frames /\ On(compq, FrameOf(compq[i]))
  BY <1>1, <1>2, OnFrames, TxIndexRight
<1> QED
  BY <1>1, <1>3 DEF TxPanics

\* send writes the data, or panics.
LEMMA SendIs ==
  ASSUME UmemInv, Send
  PROVE  /\ pkts < MaxPkts
         /\ \E k \in 0 .. Len(compq), f \in TxFrames, n \in DataLens :
              \/ IsDataValid(n) /\ TxWrites(k, f, n, n)
              \/ /\ compq' = SubSeq(compq, k + 1, Len(compq)) /\ status' = Completed(k)
                 /\ panicked' = panicked \cup {"tx"}
                 /\ UNCHANGED <<mem, len, txq, pkts, addr, rxq, fillq, holds>>
<1>1. \A k \in 0 .. Len(compq) : TxPanics(k) = {}
  BY NoTxPanics
<1>2. /\ pkts < MaxPkts
      /\ \E k \in 0 .. Len(compq), f \in TxFrames, n \in DataLens :
           \/ IsDataValid(n) /\ panicked' = panicked \cup TxPanics(k)
              /\ TxWritesBut(k, f, n, n)
           \/ /\ compq' = SubSeq(compq, k + 1, Len(compq)) /\ status' = Completed(k)
              /\ panicked' = panicked \cup {"tx"} \cup TxPanics(k)
              /\ UNCHANGED <<mem, len, txq, pkts, addr, rxq, fillq, holds>>
  BY Zenon DEF Send, TxWritesBut
<1> QED
  BY <1>1, <1>2, Zenon DEF TxWrites

\* send_apply writes at most a frame, whatever length the closure returns.
LEMMA SendApplyIs ==
  ASSUME UmemInv, SendApply
  PROVE  /\ pkts < MaxPkts
         /\ \E k \in 0 .. Len(compq), f \in TxFrames, n \in ClosureLens :
              TxWrites(k, f, n, IF n < FrameSize THEN n ELSE FrameSize)
<1>1. \A k \in 0 .. Len(compq) : TxPanics(k) = {}
  BY NoTxPanics
<1>2. /\ pkts < MaxPkts
      /\ \E k \in 0 .. Len(compq), f \in TxFrames, n \in ClosureLens :
           /\ panicked' = panicked \cup TxPanics(k)
           /\ TxWritesBut(k, f, n, IF n < FrameSize THEN n ELSE FrameSize)
  BY Zenon DEF SendApply, TxWritesBut
<1> QED
  BY <1>1, <1>2, Zenon DEF TxWrites

\* Data that fits is described in full.
LEMMA ValidFits ==
  ASSUME NEW n \in Nat, IsDataValid(n)
  PROVE  n <= FrameSize /\ n % Word = n
<1>1. n <= FrameSize /\ n < Word
  BY UmemFacts DEF IsDataValid
<1> QED
  BY <1>1, WordFits

\* send keeps the invariant.
LEMMA SendInv ==
  ASSUME UmemInv, Send
  PROVE  UmemInv'
<1>1. pkts < MaxPkts
  BY SendIs
<1>2. PICK k \in 0 .. Len(compq), f \in TxFrames, n \in DataLens :
              \/ IsDataValid(n) /\ TxWrites(k, f, n, n)
              \/ /\ compq' = SubSeq(compq, k + 1, Len(compq)) /\ status' = Completed(k)
                 /\ panicked' = panicked \cup {"tx"}
                 /\ UNCHANGED <<mem, len, txq, pkts, addr, rxq, fillq, holds>>
  BY SendIs
<1>3. n \in Nat
  BY UmemFacts
<1>4. CASE IsDataValid(n) /\ TxWrites(k, f, n, n)
  <2>1. n <= FrameSize /\ n % Word <= n
    BY <1>3, <1>4, ValidFits
  <2> QED
    BY <1>1, <1>3, <1>4, <2>1, TxWritesInv
<1>5. CASE /\ compq' = SubSeq(compq, k + 1, Len(compq)) /\ status' = Completed(k)
           /\ panicked' = panicked \cup {"tx"}
           /\ UNCHANGED <<mem, len, txq, pkts, addr, rxq, fillq, holds>>
  BY <1>5, TxPanicInv
<1> QED
  BY <1>2, <1>4, <1>5

\* So does send_apply: a length cut to 32 bits is never more than was written.
LEMMA SendApplyInv ==
  ASSUME UmemInv, SendApply
  PROVE  UmemInv'
<1>1. pkts < MaxPkts
  BY SendApplyIs
<1>2. PICK k \in 0 .. Len(compq), f \in TxFrames, n \in ClosureLens :
        TxWrites(k, f, n, IF n < FrameSize THEN n ELSE FrameSize)
  BY SendApplyIs
<1> DEFINE w == IF n < FrameSize THEN n ELSE FrameSize
<1>3. n \in Nat
  BY UmemFacts
<1>4. w \in Nat /\ w <= FrameSize /\ TxWrites(k, f, n, w)
  BY <1>2, <1>3, UmemFacts
<1>5. n % Word <= FrameSize => n % Word <= w
  <2>1. n % Word \in Nat /\ n % Word <= n
    BY <1>1, <1>3, TxDesc, Zenon DEF UmemInv
  <2> QED
    BY <2>1, <1>3, UmemFacts
<1> HIDE DEF w
<1> QED
  BY <1>1, <1>3, <1>4, <1>5, TxWritesInv

-----------------------------------------------------------------------------
(* The kernel                                                              *)

\* A transmitted frame moves to the completion ring, or its descriptor is
\* discarded for being longer than the frame.
LEMMA KTransmitInv ==
  ASSUME UmemInv, KTransmit
  PROVE  UmemInv'
<1> DEFINE d == Head(txq)
           h == FrameOf(d.addr)
           A == Addrs(txq)
<1>1. UType /\ AddrInv /\ TxAccount /\ RxAccount /\ TxData /\ RxData /\ FilledData
  BY DEF UmemInv
<1>2. /\ txq # <<>> /\ txq' = Tail(txq)
      /\ compq' = IF ValidDesc(d) THEN Append(compq, d.addr) ELSE compq
      /\ addr' = addr /\ len' = len /\ status' = status /\ holds' = holds
      /\ panicked' = panicked /\ mem' = mem /\ rxq' = rxq /\ fillq' = fillq /\ pkts' = pkts
  BY DEF KTransmit, halves
<1>3. /\ txq \in Seq(Descs) /\ compq \in Seq(Bytes) /\ Apart(A) /\ Apart(compq)
  BY <1>1 DEF UType, TxAccount
<1>4. /\ A \in Seq(Bytes) /\ Len(A) = Len(txq) /\ DOMAIN A = DOMAIN txq
      /\ DOMAIN txq = 1 .. Len(txq) /\ Len(txq) \in Nat
      /\ \A i \in DOMAIN txq : txq[i] \in Descs /\ A[i] = txq[i].addr /\ txq[i].addr \in Bytes
                               /\ txq[i].len \in Nat
  BY <1>3, AddrsOf
<1>5. 1 \in DOMAIN txq /\ d = txq[1] /\ 1 \in 0 .. Len(txq)
  BY <1>2, <1>3, <1>4
<1>6. Tail(txq) = SubSeq(txq, 1 + 1, Len(txq))
  BY <1>2, <1>3
<1>7. txq' \in Seq(Descs) /\ Addrs(txq') = SubSeq(A, 1 + 1, Len(A))
  BY <1>2, <1>3, <1>5, <1>6, AddrsRest, Zenon
<1>8. A # <<>> /\ Head(A) = d.addr /\ Tail(A) = SubSeq(A, 1 + 1, Len(A))
  BY <1>4, <1>5
<1>9. /\ Apart(Addrs(txq')) /\ d.addr \in Bytes /\ On(A, h)
      /\ \A g \in Frames : On(Addrs(txq'), g) <=> On(A, g) /\ g # h
  BY <1>3, <1>4, <1>7, <1>8, TailOn
<1>10. h \in Frames
  BY <1>9, ByteFrame
<1>11. h \in TxFrames /\ status[h] = "OnTxQueue" /\ ~On(compq, h)
  BY <1>1, <1>9, <1>10 DEF TxAccount
<1>12. d \in Descs /\ d.len \in Nat /\ d.addr = FrameAddr(h) /\ d.len <= len[h]
  BY <1>1, <1>4, <1>5 DEF TxData
<1>13. ASSUME ~ValidDesc(d) PROVE len[h] > FrameSize
  <2>1. ~Within(d.addr, d.len)
    BY <1>12, <1>13, ValidWithin
  <2>2. FrameAddr(h) \in Nat /\ len[h] \in Nat
    BY <1>1, <1>10, FrameAddrs DEF UType
  <2> QED
    BY <2>1, <2>2, <1>12, UmemFacts DEF Within
<1>14. /\ compq' \in Seq(Bytes) /\ Apart(compq')
       /\ \A g \in Frames : On(compq', g) <=> On(compq, g) \/ (ValidDesc(d) /\ g = h)
  <2>1. CASE ValidDesc(d)
    BY <2>1, <1>2, <1>3, <1>9, <1>11, AppendOn
  <2>2. CASE ~ValidDesc(d)
    BY <2>2, <1>2, <1>3
  <2> QED
    BY <2>1, <2>2
<1> HIDE DEF d, h, A
<1>15. UType'
  BY <1>1, <1>2, <1>7, <1>14, ZenonT(30) DEF UType
<1>16. AddrInv'
  BY <1>1, <1>2 DEF AddrInv
<1>17. TxAccount'
  <2> SUFFICES ASSUME NEW g \in Frames
      PROVE  /\ On(Addrs(txq'), g) => g \in TxFrames /\ status[g] = "OnTxQueue" /\ ~On(compq', g)
             /\ On(compq', g) => g \in TxFrames /\ status[g] = "OnTxQueue"
             /\ g \in TxFrames =>
                  \/ status[g] = "Free"
                  \/ /\ status[g] = "OnTxQueue"
                     /\ On(Addrs(txq'), g) \/ On(compq', g) \/ len[g] > FrameSize
    BY <1>2, <1>9, <1>14, ZenonT(30) DEF TxAccount
  <2>1. /\ On(A, g) => g \in TxFrames /\ status[g] = "OnTxQueue" /\ ~On(compq, g)
        /\ On(compq, g) => g \in TxFrames /\ status[g] = "OnTxQueue"
        /\ g \in TxFrames =>
            \/ status[g] = "Free"
            \/ /\ status[g] = "OnTxQueue"
               /\ On(A, g) \/ On(compq, g) \/ len[g] > FrameSize
    BY <1>1 DEF TxAccount, A
  <2>2. On(Addrs(txq'), g) <=> On(A, g) /\ g # h
    BY <1>9
  <2>3. On(compq', g) <=> On(compq, g) \/ (ValidDesc(d) /\ g = h)
    BY <1>14
  <2> QED
    BY <2>1, <2>2, <2>3, <1>11, <1>13
<1>18. RxAccount'
  BY <1>1, <1>2 DEF RxAccount
<1>19. TxData'
  <2>1. DOMAIN txq' = 1 .. Len(txq) - 1 /\ \A i \in 1 .. Len(txq) - 1 : txq'[i] = txq[i + 1]
    BY <1>2, <1>3, <1>5, <1>6, SubSeqRest
  <2>2. \A i \in DOMAIN txq' : i + 1 \in DOMAIN txq /\ txq'[i] = txq[i + 1]
    BY <2>1, <1>4
  <2> QED
    BY <2>2, <1>1, <1>2 DEF TxData
<1>20. RxData' /\ FilledData'
  BY <1>1, <1>2 DEF RxData, FilledData
<1> QED
  BY <1>15, <1>16, <1>17, <1>18, <1>19, <1>20 DEF UmemInv

\* The frame the kernel fills, the bytes it writes and the descriptor it puts
\* on the rx ring.
LEMMA KReceiveIs ==
  ASSUME UmemInv, KReceive
  PROVE  \E n \in Nat :
           LET h == FrameOf(Head(fillq))
               a == KBuffer(Head(fillq))
               d == [addr |-> a, len |-> n, pkt |-> pkts + 1]
           IN  /\ fillq # <<>> /\ Head(fillq) \in Bytes /\ On(fillq, h)
               /\ h \in RxFrames /\ h \in Frames /\ status[h] = "Free" /\ ~On(Addrs(rxq), h)
               /\ a \in Bytes /\ FrameOf(a) = h /\ Within(a, n)
               /\ d \in Descs /\ d.addr = a /\ d.len = n /\ d.pkt = pkts + 1
               /\ \A b \in MemRange(a, n) : b \in Bytes /\ FrameOf(b) = h
               /\ mem' = Written(MemRange(a, n), pkts + 1)
               /\ rxq' = Append(rxq, d)
               /\ fillq' = Tail(fillq) /\ pkts' = pkts + 1 /\ pkts + 1 \in 1 .. MaxPkts
               /\ UNCHANGED <<addr, len, status, holds, panicked, txq, compq>>
<1> DEFINE h == FrameOf(Head(fillq))
           a == KBuffer(Head(fillq))
<1>1. UType /\ RxAccount
  BY DEF UmemInv
<1>2. /\ fillq # <<>> /\ pkts < MaxPkts /\ fillq' = Tail(fillq) /\ pkts' = pkts + 1
      /\ UNCHANGED <<addr, len, status, holds, panicked, txq, compq>>
  BY DEF KReceive, halves
<1>3. PICK n \in DataLens \cap 1 .. FrameSize - Headroom :
       /\ mem' = Written(MemRange(a, n), pkts + 1)
       /\ rxq' = Append(rxq, [addr |-> a, len |-> n, pkt |-> pkts + 1])
  BY DEF KReceive
<1>4. n \in Nat /\ n <= FrameSize - Headroom
  BY UmemFacts
<1>5. fillq \in Seq(Bytes) /\ Apart(fillq)
  BY <1>1 DEF UType, RxAccount
<1>6. Head(fillq) \in Bytes /\ On(fillq, h)
  BY <1>2, <1>5, TailOn
<1>7. h \in Frames
  BY <1>6, ByteFrame
<1>8. h \in RxFrames /\ status[h] = "Free" /\ ~On(Addrs(rxq), h)
  BY <1>1, <1>6, <1>7 DEF RxAccount
<1>9. a \in Bytes /\ FrameOf(a) = h /\ a = FrameAddr(h) + Headroom
  BY <1>6, BufferInFrame
<1> DEFINE d == [addr |-> a, len |-> n, pkt |-> pkts + 1]
<1>10. Within(a, n)
  <2>1. FrameAddr(h) \in Nat
    BY <1>7, FrameAddrs
  <2> HIDE DEF h, a
  <2> QED
    BY <2>1, <1>4, <1>9, UmemFacts DEF Within
<1>11. pkts + 1 \in 1 .. MaxPkts
  BY <1>1, <1>2, UmemFacts DEF UType
<1>12. d \in Descs /\ d.addr = a /\ d.len = n /\ d.pkt = pkts + 1
  BY <1>4, <1>9, <1>11 DEF Descs
<1>13. \A b \in MemRange(a, n) : b \in Bytes /\ FrameOf(b) = h
  BY <1>4, <1>9, <1>10, RangeInFrame
<1> HIDE DEF h, a, d
<1>14. rxq' = Append(rxq, d)
  BY <1>3 DEF d
<1> USE DEF h, a, d
<1> WITNESS n \in Nat
<1> HIDE DEF h, a, d
<1> QED
  BY <1>2, <1>3, <1>6, <1>7, <1>8, <1>9, <1>10, <1>11, <1>12, <1>13, <1>14 DEF h, a, d

\* The kernel's write reaches no other frame.
LEMMA KReceiveInv ==
  ASSUME UmemInv, KReceive
  PROVE  UmemInv'
<1> DEFINE h == FrameOf(Head(fillq))
           a == KBuffer(Head(fillq))
           A == Addrs(rxq)
<1>1. UType /\ AddrInv /\ TxAccount /\ RxAccount /\ TxData /\ RxData /\ FilledData
  BY DEF UmemInv
<1>2. PICK n \in Nat :
               /\ fillq # <<>> /\ Head(fillq) \in Bytes /\ On(fillq, h)
               /\ h \in RxFrames /\ h \in Frames /\ status[h] = "Free" /\ ~On(A, h)
               /\ a \in Bytes /\ FrameOf(a) = h /\ Within(a, n)
               /\ LET d == [addr |-> a, len |-> n, pkt |-> pkts + 1]
                  IN  /\ d \in Descs /\ d.addr = a /\ d.len = n /\ d.pkt = pkts + 1
                      /\ rxq' = Append(rxq, d)
               /\ \A b \in MemRange(a, n) : b \in Bytes /\ FrameOf(b) = h
               /\ mem' = Written(MemRange(a, n), pkts + 1)
               /\ fillq' = Tail(fillq) /\ pkts' = pkts + 1 /\ pkts + 1 \in 1 .. MaxPkts
               /\ addr' = addr /\ len' = len /\ status' = status /\ holds' = holds
               /\ panicked' = panicked /\ txq' = txq /\ compq' = compq
  BY KReceiveIs
<1> DEFINE d == [addr |-> a, len |-> n, pkt |-> pkts + 1]
<1>3. d \in Descs /\ d.addr = a /\ d.len = n /\ d.pkt = pkts + 1 /\ rxq' = Append(rxq, d)
  BY <1>2
<1>w. /\ ~On(A, h) /\ a \in Bytes /\ FrameOf(a) = h
      /\ mem' = Written(MemRange(a, n), pkts + 1)
      /\ \A b \in MemRange(a, n) : FrameOf(b) = h
  BY <1>2
<1>4. /\ rxq \in Seq(Descs) /\ fillq \in Seq(Bytes) /\ Apart(A) /\ Apart(fillq)
  BY <1>1, ZenonT(30) DEF UType, RxAccount
<1>5. /\ A \in Seq(Bytes) /\ DOMAIN A = DOMAIN rxq
      /\ \A i \in DOMAIN rxq : /\ rxq[i] \in Descs /\ A[i] = rxq[i].addr
                               /\ rxq[i].addr \in Bytes /\ rxq[i].len \in Nat
  BY <1>4, AddrsOf
<1>6. rxq' \in Seq(Descs) /\ Addrs(rxq') = Append(A, a)
  BY <1>3, <1>4, AddrsAppend, ZenonT(30)
<1>7. /\ Apart(Addrs(rxq'))
      /\ \A g \in Frames : On(Addrs(rxq'), g) <=> On(A, g) \/ g = h
  BY <1>w, <1>4, <1>5, <1>6, AppendOn
<1>8. /\ fillq' \in Seq(Bytes) /\ Apart(fillq')
      /\ \A g \in Frames : On(fillq', g) <=> On(fillq, g) /\ g # h
  BY <1>2, <1>4, TailOn
<1> HIDE DEF h, a, A, d
<1>9. UType'
  <2>1. pkts + 1 \in 0 .. MaxPkts
    BY <1>2
  <2>2. mem' \in [Bytes -> 0 .. MaxPkts]
    BY <1>1, <1>2, <2>1, WrittenType, ZenonT(30) DEF UType
  <2> QED
    BY <1>1, <1>2, <1>6, <1>8, <2>1, <2>2, Zenon DEF UType
<1>10. AddrInv'
  BY <1>1, <1>2, ZenonT(30) DEF AddrInv
<1>11. TxAccount'
  BY <1>1, <1>2, ZenonT(30) DEF TxAccount
<1>12. RxAccount'
  <2> SUFFICES ASSUME NEW g \in Frames
      PROVE  /\ On(fillq', g) => g \in RxFrames /\ status[g] = "Free" /\ ~On(Addrs(rxq'), g)
             /\ On(Addrs(rxq'), g) => g \in RxFrames /\ status[g] = "Free"
             /\ g \in RxFrames =>
                  \/ status[g] = "Filled"
                  \/ status[g] = "Free" /\ (On(fillq', g) \/ On(Addrs(rxq'), g))
    BY <1>2, <1>7, <1>8 DEF RxAccount
  <2>1. /\ On(fillq, g) => g \in RxFrames /\ status[g] = "Free" /\ ~On(A, g)
        /\ On(A, g) => g \in RxFrames /\ status[g] = "Free"
        /\ g \in RxFrames =>
            \/ status[g] = "Filled"
            \/ status[g] = "Free" /\ (On(fillq, g) \/ On(A, g))
    BY <1>1 DEF RxAccount, A
  <2>2. On(Addrs(rxq'), g) <=> On(A, g) \/ g = h
    BY <1>7
  <2>3. On(fillq', g) <=> On(fillq, g) /\ g # h
    BY <1>8
  <2> QED
    BY <2>1, <2>2, <2>3, <1>2
<1>13. TxData'
  <2> SUFFICES ASSUME NEW i \in DOMAIN txq
      PROVE  /\ txq[i].addr = FrameAddr(FrameOf(txq[i].addr))
             /\ txq[i].len <= len[FrameOf(txq[i].addr)]
             /\ Within(txq[i].addr, txq[i].len) =>
                  Holds(mem', txq[i].addr, txq[i].len, txq[i].pkt)
    BY <1>2, Zenon DEF TxData
  <2>1. /\ txq[i].addr = FrameAddr(FrameOf(txq[i].addr))
        /\ txq[i].len <= len[FrameOf(txq[i].addr)]
        /\ Within(txq[i].addr, txq[i].len) =>
                  Holds(mem, txq[i].addr, txq[i].len, txq[i].pkt)
        /\ txq[i].addr \in Bytes /\ txq[i].len \in Nat
        /\ FrameOf(txq[i].addr) \in Frames /\ On(Addrs(txq), FrameOf(txq[i].addr))
    BY <1>1, DescOn, Zenon DEF TxData, UType
  <2>2. FrameOf(txq[i].addr) # h
    BY <1>1, <1>2, <2>1, TwoHalves, Zenon DEF TxAccount
  <2> QED
    BY <1>w, <2>1, <2>2, WriteElsewhere, Zenon
<1>14. RxData'
  <2>1. /\ DOMAIN rxq' = 1 .. Len(rxq) + 1 /\ DOMAIN rxq = 1 .. Len(rxq) /\ Len(rxq) \in Nat
        /\ rxq'[Len(rxq) + 1] = d /\ \A i \in DOMAIN rxq : rxq'[i] = rxq[i]
    <3>1. rxq \in Seq(Descs) /\ d \in Descs /\ rxq' = Append(rxq, d)
      BY <1>1, <1>3 DEF UType
    <3> HIDE DEF d
    <3> QED
      BY <3>1, DescsAppend
  <2> SUFFICES ASSUME NEW i \in DOMAIN rxq'
      PROVE  /\ Within(rxq'[i].addr, rxq'[i].len)
             /\ Holds(mem', rxq'[i].addr, rxq'[i].len, rxq'[i].pkt)
    BY DEF RxData
  <2>2. CASE i \in DOMAIN rxq
    <3>1. /\ rxq'[i] = rxq[i] /\ rxq[i].addr \in Bytes /\ rxq[i].len \in Nat
          /\ Within(rxq[i].addr, rxq[i].len)
          /\ Holds(mem, rxq[i].addr, rxq[i].len, rxq[i].pkt)
      BY <2>1, <2>2, <1>1, <1>5 DEF RxData
    <3>2. FrameOf(rxq[i].addr) # h
      <4>1. On(A, FrameOf(rxq[i].addr))
        BY <2>2, <1>5, OnFrames, Zenon
      <4> QED
        BY <1>w, <4>1, Zenon
    <3>3. Holds(mem', rxq[i].addr, rxq[i].len, rxq[i].pkt)
      BY <3>1, <3>2, <1>w, WriteElsewhere, ZenonT(30)
    <3> QED
      BY <3>1, <3>3
  <2>3. CASE i = Len(rxq) + 1
    <3>1. rxq'[i].addr = a /\ rxq'[i].len = n /\ rxq'[i].pkt = pkts + 1
      BY <2>1, <2>3, <1>3
    <3>2. n <= n
      OBVIOUS
    <3>3. Holds(mem', a, n, pkts + 1)
      BY <3>2, <1>2, WriteThere
    <3> QED
      BY <3>1, <3>3, <1>2, ZenonT(30)
  <2>4. i \in DOMAIN rxq \/ i = Len(rxq) + 1
    BY <2>1
  <2> QED
    BY <2>2, <2>3, <2>4
<1>15. FilledData'
  <2> SUFFICES ASSUME NEW g \in RxFrames, status[g] = "Filled"
      PROVE  Within(addr[g], len[g]) /\ Holds(mem', addr[g], len[g], holds[g])
    BY <1>2, Zenon DEF FilledData
  <2>1. g \in Frames /\ g # h
    BY <1>2, TwoHalves
  <2>2. addr[g] \in Bytes /\ FrameOf(addr[g]) = g /\ len[g] \in Nat
    BY <2>1, <1>1 DEF UType, AddrInv
  <2>3. Within(addr[g], len[g]) /\ Holds(mem, addr[g], len[g], holds[g])
    BY <1>1 DEF FilledData
  <2> QED
    BY <2>1, <2>2, <2>3, <1>w, WriteElsewhere, Zenon
<1> QED
  BY <1>9, <1>10, <1>11, <1>12, <1>13, <1>14, <1>15, ZenonT(30) DEF UmemInv

-----------------------------------------------------------------------------
(* The steps of XskRx                                                      *)

\* update_rx_frames finds the frame of each descriptor, and finds it once.
LEMMA ReceivedIs ==
  ASSUME UType, RxAccount, NEW k \in 0 .. Len(rxq)
  PROVE  /\ k \in Nat
         /\ \A i \in 1 .. k :
              /\ i \in DOMAIN rxq /\ FrameOf(rxq[i].addr) \in RxFrames
              /\ RxFrame(rxq[i].addr) = FrameOf(rxq[i].addr)
              /\ Received(k, FrameOf(rxq[i].addr)) = {i}
              /\ LastFor(k, FrameOf(rxq[i].addr)) = i
         /\ \A f : (\A i \in 1 .. k : FrameOf(rxq[i].addr) # f) => Received(k, f) = {}
         /\ RxPanics(k) = {}
<1> DEFINE A == Addrs(rxq)
<1>1. rxq \in Seq(Descs) /\ Apart(A)
  BY DEF UType, RxAccount
<1>2. /\ A \in Seq(Bytes) /\ DOMAIN A = DOMAIN rxq /\ DOMAIN rxq = 1 .. Len(rxq)
      /\ Len(rxq) \in Nat
      /\ \A i \in DOMAIN rxq : A[i] = rxq[i].addr /\ rxq[i].addr \in Bytes
  BY <1>1, AddrsOf
<1>3. k \in Nat /\ \A i \in 1 .. k : i \in DOMAIN rxq
  BY <1>2
<1>4. \A i \in DOMAIN rxq :
        FrameOf(rxq[i].addr) \in RxFrames /\ RxFrame(rxq[i].addr) = FrameOf(rxq[i].addr)
  <2> SUFFICES ASSUME NEW i \in DOMAIN rxq
      PROVE FrameOf(rxq[i].addr) \in RxFrames /\ RxFrame(rxq[i].addr) = FrameOf(rxq[i].addr)
    OBVIOUS
  <2>1. FrameOf(rxq[i].addr) \in Frames /\ On(A, FrameOf(rxq[i].addr))
    BY <1>2, OnFrames
  <2>2. FrameOf(rxq[i].addr) \in RxFrames
    BY <2>1 DEF RxAccount
  <2> QED
    BY <2>2, <1>2, RxIndexRight
<1>5. \A i, j \in DOMAIN rxq : FrameOf(rxq[i].addr) = FrameOf(rxq[j].addr) => i = j
  BY <1>1, <1>2 DEF Apart
<1>6. \A i \in 1 .. k : Received(k, FrameOf(rxq[i].addr)) = {i}
  BY <1>3, <1>4, <1>5 DEF Received
<1>7. \A i \in 1 .. k : LastFor(k, FrameOf(rxq[i].addr)) = i
  <2> SUFFICES ASSUME NEW i \in 1 .. k PROVE LastFor(k, FrameOf(rxq[i].addr)) = i
    OBVIOUS
  <2>1. LastFor(k, FrameOf(rxq[i].addr)) = CHOOSE x \in {i} : \A j \in {i} : j <= x
    BY <1>6, Zenon DEF LastFor
  <2>2. i <= i
    BY <1>3
  <2> QED
    BY <2>1, <2>2
<1>8. \A f : (\A i \in 1 .. k : FrameOf(rxq[i].addr) # f) => Received(k, f) = {}
  BY <1>3, <1>4 DEF Received
<1>9. RxPanics(k) = {}
  BY <1>3, <1>4 DEF RxPanics
<1> QED
  BY <1>3, <1>4, <1>6, <1>7, <1>8, <1>9, Zenon

\* The field of a frame after update_rx_frames.
LEMMA UpdatedIs ==
  ASSUME UType, RxAccount, NEW k \in 0 .. Len(rxq), NEW old, NEW field
  PROVE  /\ DOMAIN Updated(old, field, k) = Frames
         /\ \A i \in 1 .. k : Updated(old, field, k)[FrameOf(rxq[i].addr)] = field[i]
         /\ \A f \in Frames : (\A i \in 1 .. k : FrameOf(rxq[i].addr) # f) =>
              Updated(old, field, k)[f] = old[f]
         /\ \A f \in TxFrames : Updated(old, field, k)[f] = old[f]
<1>1. \A i \in 1 .. k : FrameOf(rxq[i].addr) \in Frames /\ FrameOf(rxq[i].addr) \notin TxFrames
  BY ReceivedIs, TwoHalves
<1>2. \A i \in 1 .. k : Updated(old, field, k)[FrameOf(rxq[i].addr)] = field[i]
  <2> SUFFICES ASSUME NEW i \in 1 .. k
               PROVE  Updated(old, field, k)[FrameOf(rxq[i].addr)] = field[i]
    OBVIOUS
  <2>1. Received(k, FrameOf(rxq[i].addr)) # {} /\ LastFor(k, FrameOf(rxq[i].addr)) = i
    BY ReceivedIs
  <2> QED
    BY <2>1, <1>1 DEF Updated
<1>3. \A f \in Frames : (\A i \in 1 .. k : FrameOf(rxq[i].addr) # f) =>
              Updated(old, field, k)[f] = old[f]
  <2> SUFFICES ASSUME NEW f \in Frames, \A i \in 1 .. k : FrameOf(rxq[i].addr) # f
               PROVE  Updated(old, field, k)[f] = old[f]
    OBVIOUS
  <2>1. Received(k, f) = {}
    BY ReceivedIs
  <2> QED
    BY <2>1 DEF Updated
<1>4. \A f \in TxFrames : Updated(old, field, k)[f] = old[f]
  BY <1>1, <1>3, TwoHalves
<1> QED
  BY <1>2, <1>3, <1>4, Zenon DEF Updated

\* Frame f is that of one of the first k descriptors.
Taken(k, f) == \E i \in 1 .. k : FrameOf(rxq[i].addr) = f

\* What update_rx_frames leaves behind: the fields of the frames received are
\* those of their descriptors, all others are as before.
LEMMA UpdateFacts ==
  ASSUME UmemInv, NEW k \in 0 .. Len(rxq), UpdateRxFrames(k), mem' = mem
  PROVE  /\ rxq' \in Seq(Descs) /\ Apart(Addrs(rxq'))
         /\ \A f \in Frames : On(Addrs(rxq'), f) <=> On(Addrs(rxq), f) /\ ~Taken(k, f)
         /\ \A f : Taken(k, f) => f \in RxFrames /\ On(Addrs(rxq), f)
         /\ addr' \in [Frames -> Bytes] /\ len' \in [Frames -> Nat]
         /\ holds' \in [Frames -> 0 .. MaxPkts]
         /\ AddrInv' /\ RxData'
         /\ \A f \in Frames : ~Taken(k, f) =>
              addr'[f] = addr[f] /\ len'[f] = len[f] /\ holds'[f] = holds[f]
         /\ \A f \in Frames : Taken(k, f) =>
              Within(addr'[f], len'[f]) /\ Holds(mem, addr'[f], len'[f], holds'[f])
<1> DEFINE A == Addrs(rxq)
<1>1. UType /\ AddrInv /\ RxAccount /\ RxData
  BY DEF UmemInv
<1>2. rxq \in Seq(Descs) /\ Apart(A)
  BY <1>1 DEF UType, RxAccount
<1>3. /\ A \in Seq(Bytes) /\ Len(A) = Len(rxq) /\ DOMAIN A = DOMAIN rxq
      /\ DOMAIN rxq = 1 .. Len(rxq) /\ Len(rxq) \in Nat
      /\ \A i \in DOMAIN rxq :
           /\ rxq[i] \in Descs /\ A[i] = rxq[i].addr /\ rxq[i].addr \in Bytes
           /\ rxq[i].len \in Nat /\ rxq[i].pkt \in 1 .. MaxPkts
  BY <1>2, AddrsOf, Zenon
<1>4. /\ rxq' = SubSeq(rxq, k + 1, Len(rxq))
      /\ addr' = Updated(addr, A, k) /\ len' = Updated(len, Lens(rxq), k)
      /\ holds' = Updated(holds, Pkts(rxq), k)
  BY DEF UpdateRxFrames
<1>5. k \in Nat /\ \A i \in 1 .. k : i \in DOMAIN rxq /\ FrameOf(rxq[i].addr) \in RxFrames
  BY <1>1, ReceivedIs
<1>6. rxq' \in Seq(Descs) /\ Addrs(rxq') = SubSeq(A, k + 1, Len(A))
  BY <1>2, <1>4, AddrsRest
<1>7. /\ Apart(Addrs(rxq'))
      /\ \A f \in Frames :
           On(Addrs(rxq'), f) <=> On(A, f) /\ ~\E i \in 1 .. k : FrameOf(A[i]) = f
  <2>1. k \in 0 .. Len(A)
    BY <1>3
  <2> HIDE DEF A
  <2>2. LET s == SubSeq(A, k + 1, Len(A))
        IN  /\ Apart(s)
            /\ \A f \in Frames : On(s, f) <=> On(A, f) /\ ~\E i \in 1 .. k : FrameOf(A[i]) = f
    BY <1>2, <1>3, <2>1, RestOn, Zenon
  <2> QED
    BY <1>6, <2>2
<1>8. \A f : Taken(k, f) <=> \E i \in 1 .. k : FrameOf(A[i]) = f
  BY <1>3, <1>5, ZenonT(30) DEF Taken
<1>9. \A f : Taken(k, f) => f \in RxFrames /\ On(A, f)
  BY <1>3, <1>5, ZenonT(30) DEF Taken, On
<1> HIDE DEF A
<1>10. /\ DOMAIN addr' = Frames
       /\ \A i \in 1 .. k : addr'[FrameOf(rxq[i].addr)] = A[i]
       /\ \A f \in Frames : (\A i \in 1 .. k : FrameOf(rxq[i].addr) # f) => addr'[f] = addr[f]
       /\ \A f \in TxFrames : addr'[f] = addr[f]
  BY <1>1, <1>4, UpdatedIs
<1>11. /\ DOMAIN len' = Frames
       /\ \A i \in 1 .. k : len'[FrameOf(rxq[i].addr)] = Lens(rxq)[i]
       /\ \A f \in Frames : (\A i \in 1 .. k : FrameOf(rxq[i].addr) # f) => len'[f] = len[f]
  BY <1>1, <1>4, UpdatedIs
<1>12. /\ DOMAIN holds' = Frames
       /\ \A i \in 1 .. k : holds'[FrameOf(rxq[i].addr)] = Pkts(rxq)[i]
       /\ \A f \in Frames : (\A i \in 1 .. k : FrameOf(rxq[i].addr) # f) => holds'[f] = holds[f]
  BY <1>1, <1>4, UpdatedIs
<1>13. \A i \in 1 .. k : A[i] = rxq[i].addr /\ Lens(rxq)[i] = rxq[i].len
                         /\ Pkts(rxq)[i] = rxq[i].pkt
  BY <1>3, <1>5 DEF Lens, Pkts
<1>14. \A f \in Frames : ~Taken(k, f) =>
              addr'[f] = addr[f] /\ len'[f] = len[f] /\ holds'[f] = holds[f]
  BY <1>10, <1>11, <1>12, Zenon DEF Taken
<1>15. ASSUME NEW f \in Frames, Taken(k, f)
       PROVE  /\ addr'[f] \in Bytes /\ len'[f] \in Nat /\ holds'[f] \in 0 .. MaxPkts
              /\ FrameOf(addr'[f]) = f
              /\ Within(addr'[f], len'[f]) /\ Holds(mem, addr'[f], len'[f], holds'[f])
  <2>1. PICK i \in 1 .. k : FrameOf(rxq[i].addr) = f
    BY <1>15, ZenonT(30) DEF Taken
  <2>2. addr'[f] = rxq[i].addr /\ len'[f] = rxq[i].len /\ holds'[f] = rxq[i].pkt
    BY <2>1, <1>10, <1>11, <1>12, <1>13, ZenonT(30)
  <2>3. /\ rxq[i].addr \in Bytes /\ rxq[i].len \in Nat /\ rxq[i].pkt \in 1 .. MaxPkts
        /\ Within(rxq[i].addr, rxq[i].len) /\ Holds(mem, rxq[i].addr, rxq[i].len, rxq[i].pkt)
    BY <1>1, <1>3, <1>5, ZenonT(30) DEF RxData
  <2>4. \A p \in 1 .. MaxPkts : p \in 0 .. MaxPkts
    BY UmemFacts
  <2> QED
    BY <2>1, <2>2, <2>3, <2>4, Zenon
<1>16. \A f \in Frames : /\ addr'[f] \in Bytes /\ len'[f] \in Nat /\ holds'[f] \in 0 .. MaxPkts
                         /\ FrameOf(addr'[f]) = f
  <2> SUFFICES ASSUME NEW f \in Frames
      PROVE  /\ addr'[f] \in Bytes /\ len'[f] \in Nat /\ holds'[f] \in 0 .. MaxPkts
             /\ FrameOf(addr'[f]) = f
    OBVIOUS
  <2>1. /\ addr[f] \in Bytes /\ len[f] \in Nat /\ holds[f] \in 0 .. MaxPkts
        /\ FrameOf(addr[f]) = f
    BY <1>1, ZenonT(30) DEF UType, AddrInv
  <2> QED
    BY <2>1, <1>14, <1>15
<1>17. DOMAIN addr' = Frames /\ DOMAIN len' = Frames /\ DOMAIN holds' = Frames
       /\ addr' = [f \in Frames |-> addr'[f]] /\ len' = [f \in Frames |-> len'[f]]
       /\ holds' = [f \in Frames |-> holds'[f]]
  BY <1>4 DEF Updated
<1>18. addr' \in [Frames -> Bytes] /\ len' \in [Frames -> Nat]
       /\ holds' \in [Frames -> 0 .. MaxPkts]
  BY <1>16, <1>17
<1>19. AddrInv'
  BY <1>1, <1>10, <1>16, ZenonT(30) DEF AddrInv
<1>20. RxData'
  <2>1. /\ DOMAIN rxq' = 1 .. Len(rxq) - k
        /\ \A i \in 1 .. Len(rxq) - k : rxq'[i] = rxq[i + k]
    BY <1>2, <1>4, SubSeqRest
  <2>2. \A i \in DOMAIN rxq' : i + k \in DOMAIN rxq /\ rxq'[i] = rxq[i + k]
    BY <2>1, <1>3, <1>5
  <2> QED
    BY <2>2, <1>1 DEF RxData
<1> QED
  BY <1>6, <1>7, <1>8, <1>9, <1>14, <1>15, <1>18, <1>19, <1>20, Zenon DEF A

\* What both ways of receiving keep: everything but what depends on the fill
\* ring and on which frames are Filled.
LEMMA RxKeeps ==
  ASSUME UmemInv, NEW k \in 0 .. Len(rxq), UpdateRxFrames(k),
         panicked' = panicked \cup RxPanics(k), UNCHANGED <<mem, txq, compq, pkts>>,
         status' \in [Frames -> {"Free", "OnTxQueue", "Filled"}],
         \A f \in TxFrames : status'[f] = status[f],
         fillq' \in Seq(Bytes)
  PROVE  UType' /\ AddrInv' /\ TxAccount' /\ TxData' /\ RxData'
<1>1. UType /\ AddrInv /\ TxAccount /\ RxAccount /\ TxData /\ RxData /\ FilledData
  BY DEF UmemInv
<1>2. panicked' = panicked
  BY <1>1, ReceivedIs
<1>3. mem' = mem
  OBVIOUS
<1>4. /\ rxq' \in Seq(Descs) /\ addr' \in [Frames -> Bytes] /\ len' \in [Frames -> Nat]
      /\ holds' \in [Frames -> 0 .. MaxPkts] /\ AddrInv' /\ RxData'
  BY <1>3, UpdateFacts, Zenon
<1>5. \A f \in TxFrames : f \in Frames /\ len'[f] = len[f]
  BY <1>3, UpdateFacts, TwoHalves, Zenon
<1>6. UType'
  BY <1>1, <1>2, <1>4, ZenonT(30) DEF UType
<1>7. TxAccount'
  BY <1>1, <1>5, ZenonT(30) DEF TxAccount
<1>8. TxData'
  <2> SUFFICES ASSUME NEW i \in DOMAIN txq
      PROVE  /\ txq[i].addr = FrameAddr(FrameOf(txq[i].addr))
             /\ txq[i].len <= len'[FrameOf(txq[i].addr)]
             /\ Within(txq[i].addr, txq[i].len) =>
                  Holds(mem, txq[i].addr, txq[i].len, txq[i].pkt)
    BY DEF TxData
  <2>1. FrameOf(txq[i].addr) \in Frames /\ On(Addrs(txq), FrameOf(txq[i].addr))
    BY <1>1, DescOn, ZenonT(30) DEF UType
  <2>2. FrameOf(txq[i].addr) \in TxFrames
    BY <1>1, <2>1 DEF TxAccount
  <2> QED
    BY <1>1, <1>5, <2>2, ZenonT(30) DEF TxData
<1> QED
  BY <1>4, <1>6, <1>7, <1>8

\* The frames received become Filled.
LEMMA FilledByIs ==
  ASSUME UType, RxAccount, NEW k \in 0 .. Len(rxq)
  PROVE  /\ FilledBy(k) \in [Frames -> {"Free", "OnTxQueue", "Filled"}]
         /\ \A f \in Frames : FilledBy(k)[f] = IF Taken(k, f) THEN "Filled" ELSE status[f]
<1> DEFINE F == [i \in DOMAIN rxq |-> "Filled"]
<1>1. /\ DOMAIN Updated(status, F, k) = Frames
      /\ \A i \in 1 .. k : Updated(status, F, k)[FrameOf(rxq[i].addr)] = F[i]
      /\ \A f \in Frames : (\A i \in 1 .. k : FrameOf(rxq[i].addr) # f) =>
           Updated(status, F, k)[f] = status[f]
  <2> HIDE DEF F
  <2> QED
    BY UpdatedIs
<1>2. \A i \in 1 .. k : F[i] = "Filled"
  BY ReceivedIs
<1>3. \A f \in Frames : FilledBy(k)[f] = IF Taken(k, f) THEN "Filled" ELSE status[f]
  BY <1>1, <1>2 DEF FilledBy, Taken
<1>4. FilledBy(k) = [f \in Frames |-> FilledBy(k)[f]]
  BY DEF FilledBy, Updated
<1>5. \A f \in Frames : status[f] \in {"Free", "OnTxQueue", "Filled"}
  BY DEF UType
<1> QED
  BY <1>3, <1>4, <1>5

\* recv reads one Filled frame and returns it to the kernel.
LEMMA RecvInv ==
  ASSUME UmemInv, Recv
  PROVE  UmemInv'
<1>1. UType /\ AddrInv /\ TxAccount /\ RxAccount /\ TxData /\ RxData /\ FilledData
  BY DEF UmemInv
<1>2. mem' = mem /\ txq' = txq /\ compq' = compq /\ pkts' = pkts
  BY DEF Recv
<1>3. PICK k \in 0 .. Len(rxq) :
       /\ UpdateRxFrames(k) /\ panicked' = panicked \cup RxPanics(k)
       /\ \/ \E f \in RxFrames :
               /\ FilledBy(k)[f] = "Filled"
               /\ status' = [FilledBy(k) EXCEPT ![f] = "Free"]
               /\ fillq' = Append(fillq, addr'[f])
          \/ /\ status' = FilledBy(k)
             /\ UNCHANGED fillq
  BY DEF Recv
<1>4. /\ Apart(Addrs(rxq'))
      /\ \A f \in Frames : On(Addrs(rxq'), f) <=> On(Addrs(rxq), f) /\ ~Taken(k, f)
      /\ \A f : Taken(k, f) => f \in RxFrames /\ On(Addrs(rxq), f)
      /\ addr' \in [Frames -> Bytes] /\ AddrInv'
      /\ \A f \in Frames : ~Taken(k, f) =>
           addr'[f] = addr[f] /\ len'[f] = len[f] /\ holds'[f] = holds[f]
      /\ \A f \in Frames : Taken(k, f) =>
           Within(addr'[f], len'[f]) /\ Holds(mem, addr'[f], len'[f], holds'[f])
  BY <1>2, <1>3, UpdateFacts, Zenon
<1>5. /\ FilledBy(k) \in [Frames -> {"Free", "OnTxQueue", "Filled"}]
      /\ \A f \in Frames : FilledBy(k)[f] = IF Taken(k, f) THEN "Filled" ELSE status[f]
  BY <1>1, FilledByIs
<1>6. fillq \in Seq(Bytes) /\ Apart(fillq)
  BY <1>1 DEF UType, RxAccount
<1>7. ASSUME NEW f \in Frames
      PROVE  /\ On(fillq, f) => f \in RxFrames /\ status[f] = "Free" /\ ~On(Addrs(rxq), f)
             /\ On(Addrs(rxq), f) => f \in RxFrames /\ status[f] = "Free"
             /\ f \in RxFrames =>
                  \/ status[f] = "Filled"
                  \/ status[f] = "Free" /\ (On(fillq, f) \/ On(Addrs(rxq), f))
  BY <1>1, ZenonT(30) DEF RxAccount
<1>8. ASSUME NEW g \in RxFrames, status'[g] = "Filled", FilledBy(k)[g] = "Filled"
      PROVE  Within(addr'[g], len'[g]) /\ Holds(mem, addr'[g], len'[g], holds'[g])
  <2>1. g \in Frames
    BY TwoHalves
  <2>2. CASE Taken(k, g)
    BY <2>1, <2>2, <1>4, Zenon
  <2>3. CASE ~Taken(k, g)
    <3>1. status[g] = "Filled"
      BY <2>1, <2>3, <1>5, <1>8
    <3>2. Within(addr[g], len[g]) /\ Holds(mem, addr[g], len[g], holds[g])
      BY <3>1, <1>1 DEF FilledData
    <3> QED
      BY <3>2, <2>1, <2>3, <1>4, Zenon
  <2> QED
    BY <2>2, <2>3
<1>9. ASSUME NEW f \in RxFrames, FilledBy(k)[f] = "Filled",
             status' = [FilledBy(k) EXCEPT ![f] = "Free"], fillq' = Append(fillq, addr'[f])
      PROVE  UmemInv'
  <2>1. f \in Frames /\ f \notin TxFrames
    BY TwoHalves
  <2>2. addr'[f] \in Bytes /\ FrameOf(addr'[f]) = f
    BY <2>1, <1>4, Zenon DEF AddrInv
  <2>3. ~On(fillq, f)
    BY <2>1, <1>4, <1>5, <1>7, <1>9, Zenon
  <2>4. /\ fillq' \in Seq(Bytes) /\ Apart(fillq')
        /\ \A g \in Frames : On(fillq', g) <=> On(fillq, g) \/ g = f
    BY <2>2, <2>3, <1>6, <1>9, AppendOn
  <2>5. /\ status' \in [Frames -> {"Free", "OnTxQueue", "Filled"}]
        /\ \A g \in Frames : status'[g] = IF g = f THEN "Free" ELSE FilledBy(k)[g]
    BY <1>5, <1>9, Zenon
  <2>6. \A g \in TxFrames : status'[g] = status[g]
    BY <2>1, <2>5, <1>4, <1>5, TwoHalves, ZenonT(30)
  <2>7. UType' /\ AddrInv' /\ TxAccount' /\ TxData' /\ RxData'
    BY <1>2, <1>3, <2>4, <2>5, <2>6, RxKeeps
  <2>8. RxAccount'
    <3> SUFFICES ASSUME NEW g \in Frames
        PROVE  /\ On(fillq', g) => g \in RxFrames /\ status'[g] = "Free" /\ ~On(Addrs(rxq'), g)
               /\ On(Addrs(rxq'), g) => g \in RxFrames /\ status'[g] = "Free"
               /\ g \in RxFrames =>
                    \/ status'[g] = "Filled"
                    \/ status'[g] = "Free" /\ (On(fillq', g) \/ On(Addrs(rxq'), g))
      BY <1>4, <2>4, Zenon DEF RxAccount
    <3>1. status'[g] = IF g = f THEN "Free" ELSE IF Taken(k, g) THEN "Filled" ELSE status[g]
      BY <1>5, <2>5
    <3>2. /\ On(Addrs(rxq'), g) <=> On(Addrs(rxq), g) /\ ~Taken(k, g)
          /\ Taken(k, g) => g \in RxFrames /\ On(Addrs(rxq), g)
          /\ On(fillq', g) <=> On(fillq, g) \/ g = f
      BY <1>4, <2>4, Zenon
    <3>3. Taken(k, f) \/ status[f] = "Filled"
      BY <2>1, <1>5, <1>9
    <3> QED
      BY <3>1, <3>2, <3>3, <1>7, <2>1, Zenon
  <2>9. FilledData'
    <3> SUFFICES ASSUME NEW g \in RxFrames, status'[g] = "Filled"
        PROVE  Within(addr'[g], len'[g]) /\ Holds(mem', addr'[g], len'[g], holds'[g])
      BY DEF FilledData
    <3>1. FilledBy(k)[g] = "Filled"
      BY <2>5, TwoHalves
    <3> QED
      BY <3>1, <1>2, <1>8, Zenon
  <2> QED
    BY <2>7, <2>8, <2>9 DEF UmemInv
<1>10. ASSUME status' = FilledBy(k), fillq' = fillq
       PROVE  UmemInv'
  <2>1. \A g \in TxFrames : status'[g] = status[g]
    BY <1>4, <1>5, <1>10, TwoHalves, Zenon
  <2>2. UType' /\ AddrInv' /\ TxAccount' /\ TxData' /\ RxData'
    BY <1>2, <1>3, <1>5, <1>6, <1>10, <2>1, RxKeeps, Zenon
  <2>3. RxAccount'
    <3> SUFFICES ASSUME NEW g \in Frames
        PROVE  /\ On(fillq, g) => g \in RxFrames /\ status'[g] = "Free" /\ ~On(Addrs(rxq'), g)
               /\ On(Addrs(rxq'), g) => g \in RxFrames /\ status'[g] = "Free"
               /\ g \in RxFrames =>
                    \/ status'[g] = "Filled"
                    \/ status'[g] = "Free" /\ (On(fillq, g) \/ On(Addrs(rxq'), g))
      BY <1>4, <1>6, <1>10, Zenon DEF RxAccount
    <3>1. status'[g] = IF Taken(k, g) THEN "Filled" ELSE status[g]
      BY <1>5, <1>10
    <3>2. /\ On(Addrs(rxq'), g) <=> On(Addrs(rxq), g) /\ ~Taken(k, g)
          /\ Taken(k, g) => g \in RxFrames /\ On(Addrs(rxq), g)
      BY <1>4, Zenon
    <3> QED
      BY <3>1, <3>2, <1>7, Zenon
  <2>4. FilledData'
    <3> SUFFICES ASSUME NEW g \in RxFrames, status'[g] = "Filled"
        PROVE  Within(addr'[g], len'[g]) /\ Holds(mem', addr'[g], len'[g], holds'[g])
      BY DEF FilledData
    <3> QED
      BY <1>2, <1>8, <1>10
  <2> QED
    BY <2>2, <2>3, <2>4 DEF UmemInv
<1> QED
  BY <1>3, <1>9, <1>10

\* recv_apply returns all the frames it was given.
LEMMA RecvApplyInv ==
  ASSUME UmemInv, RecvApply
  PROVE  UmemInv'
<1> DEFINE A == Addrs(rxq)
<1>1. UType /\ AddrInv /\ TxAccount /\ RxAccount /\ TxData /\ RxData /\ FilledData
  BY DEF UmemInv
<1>2. mem' = mem /\ txq' = txq /\ compq' = compq /\ pkts' = pkts /\ status' = status
  BY DEF RecvApply
<1>3. PICK k \in 1 .. Len(rxq) :
       /\ UpdateRxFrames(k) /\ panicked' = panicked \cup RxPanics(k)
       /\ fillq' = fillq \o [i \in 1 .. k |-> rxq[i].addr]
  BY ZenonT(30) DEF RecvApply
<1>4. /\ A \in Seq(Bytes) /\ Len(A) = Len(rxq) /\ Len(rxq) \in Nat
      /\ DOMAIN rxq = 1 .. Len(rxq) /\ \A i \in DOMAIN rxq : A[i] = rxq[i].addr
  BY <1>1, AddrsOf DEF UType
<1>5. k \in 0 .. Len(rxq) /\ k \in 0 .. Len(A) /\ \A i \in 1 .. k : i \in DOMAIN rxq
  BY <1>4
<1>6. /\ Apart(Addrs(rxq'))
      /\ \A f \in Frames : On(Addrs(rxq'), f) <=> On(A, f) /\ ~Taken(k, f)
      /\ \A f : Taken(k, f) => f \in RxFrames /\ On(A, f)
      /\ \A f \in Frames : ~Taken(k, f) =>
           addr'[f] = addr[f] /\ len'[f] = len[f] /\ holds'[f] = holds[f]
  BY <1>2, <1>3, <1>5, UpdateFacts, Zenon
<1>7. fillq \in Seq(Bytes) /\ Apart(fillq) /\ Apart(A)
  BY <1>1 DEF UType, RxAccount
<1>8. ASSUME NEW f \in Frames
      PROVE  /\ On(fillq, f) => f \in RxFrames /\ status[f] = "Free" /\ ~On(A, f)
             /\ On(A, f) => f \in RxFrames /\ status[f] = "Free"
             /\ f \in RxFrames =>
                  \/ status[f] = "Filled"
                  \/ status[f] = "Free" /\ (On(fillq, f) \/ On(A, f))
  BY <1>1, ZenonT(30) DEF RxAccount
<1>9. [i \in 1 .. k |-> rxq[i].addr] = [i \in 1 .. k |-> A[i]]
  BY <1>4, <1>5
<1>10. \A f : Taken(k, f) <=> \E i \in 1 .. k : FrameOf(A[i]) = f
  BY <1>4, <1>5, ZenonT(30) DEF Taken
<1> HIDE DEF A
<1>11. \A i \in 1 .. k : ~On(fillq, FrameOf(A[i]))
  <2> SUFFICES ASSUME NEW i \in 1 .. k PROVE ~On(fillq, FrameOf(A[i]))
    OBVIOUS
  <2>1. Taken(k, FrameOf(A[i]))
    BY <1>10
  <2> QED
    BY <2>1, <1>6, <1>8, TwoHalves
<1>12. /\ fillq' \in Seq(Bytes) /\ Apart(fillq')
       /\ \A f \in Frames : On(fillq', f) <=> On(fillq, f) \/ Taken(k, f)
  <2>1. LET s == fillq \o [i \in 1 .. k |-> A[i]]
        IN  /\ s \in Seq(Bytes) /\ Apart(s)
            /\ \A f \in Frames : On(s, f) <=> On(fillq, f) \/ \E i \in 1 .. k : FrameOf(A[i]) = f
    BY <1>4, <1>5, <1>7, <1>11, ConcatOn
  <2>2. fillq' = fillq \o [i \in 1 .. k |-> A[i]]
    BY <1>3, <1>9
  <2> QED
    BY <2>1, <2>2, <1>10
<1>13. UType' /\ AddrInv' /\ TxAccount' /\ TxData' /\ RxData'
  <2>1. status' \in [Frames -> {"Free", "OnTxQueue", "Filled"}]
        /\ \A f \in TxFrames : status'[f] = status[f]
    BY <1>1, <1>2 DEF UType
  <2> QED
    BY <1>2, <1>3, <1>5, <1>12, <2>1, RxKeeps
<1>14. RxAccount'
  <2> SUFFICES ASSUME NEW g \in Frames
      PROVE  /\ On(fillq', g) => g \in RxFrames /\ status[g] = "Free" /\ ~On(Addrs(rxq'), g)
             /\ On(Addrs(rxq'), g) => g \in RxFrames /\ status[g] = "Free"
             /\ g \in RxFrames =>
                  \/ status[g] = "Filled"
                  \/ status[g] = "Free" /\ (On(fillq', g) \/ On(Addrs(rxq'), g))
    BY <1>2, <1>6, <1>12, Zenon DEF RxAccount
  <2>1. /\ On(Addrs(rxq'), g) <=> On(A, g) /\ ~Taken(k, g)
        /\ Taken(k, g) => g \in RxFrames /\ On(A, g)
        /\ On(fillq', g) <=> On(fillq, g) \/ Taken(k, g)
    BY <1>6, <1>12, Zenon
  <2> QED
    BY <2>1, <1>8
<1>15. FilledData'
  <2> SUFFICES ASSUME NEW g \in RxFrames, status[g] = "Filled"
      PROVE  Within(addr'[g], len'[g]) /\ Holds(mem, addr'[g], len'[g], holds'[g])
    BY <1>2, ZenonT(30) DEF FilledData
  <2>1. g \in Frames
    BY TwoHalves, ZenonT(30)
  <2>2. ~Taken(k, g)
    BY <2>1, <1>6, <1>8, ZenonT(30)
  <2>3. Within(addr[g], len[g]) /\ Holds(mem, addr[g], len[g], holds[g])
    BY <1>1 DEF FilledData
  <2> QED
    BY <2>1, <2>2, <2>3, <1>6, ZenonT(30)
<1> QED
  BY <1>13, <1>14, <1>15 DEF UmemInv

-----------------------------------------------------------------------------
(* Theorems                                                                *)

\* At the start every frame of XskRx is on the fill ring.
LEMMA UmemInitInv ==
  ASSUME Init
  PROVE  UmemInv
<1>1. /\ addr = [f \in Frames |-> FrameAddr(f)] /\ len = [f \in Frames |-> 0]
      /\ status = [f \in Frames |-> "Free"] /\ mem = [b \in Bytes |-> 0]
      /\ txq = <<>> /\ rxq = <<>> /\ compq = <<>> /\ pkts = 0
      /\ fillq = [i \in 1 .. NRxFrames |-> FrameAddr(NTxFrames + i - 1)]
      /\ holds = [f \in Frames |-> 0] /\ panicked = {}
  BY DEF Init
<1>2. \A f \in Frames : FrameAddr(f) \in Bytes /\ FrameOf(FrameAddr(f)) = f
  BY FrameStart
<1>3. \A i \in 1 .. NRxFrames : NTxFrames + i - 1 \in RxFrames
  BY UmemFacts DEF RxFrames
<1>4. \A f \in RxFrames : /\ f - NTxFrames + 1 \in 1 .. NRxFrames
                             /\ NTxFrames + (f - NTxFrames + 1) - 1 = f
  BY UmemFacts DEF RxFrames
<1>5. /\ fillq \in Seq(Bytes) /\ DOMAIN fillq = 1 .. NRxFrames
      /\ \A i \in 1 .. NRxFrames : FrameOf(fillq[i]) = NTxFrames + i - 1
  <2>1. \A i \in 1 .. NRxFrames : FrameAddr(NTxFrames + i - 1) \in Bytes
                                  /\ FrameOf(FrameAddr(NTxFrames + i - 1)) = NTxFrames + i - 1
    BY <1>2, <1>3, TwoHalves
  <2>2. fillq \in Seq(Bytes) /\ DOMAIN fillq = 1 .. NRxFrames
    <3> DEFINE e(i) == FrameAddr(NTxFrames + i - 1)
    <3>1. fillq = [i \in 1 .. NRxFrames |-> e(i)] /\ \A i \in 1 .. NRxFrames : e(i) \in Bytes
      BY <2>1, <1>1
    <3>2. NRxFrames \in Nat
      BY UmemFacts
    <3> HIDE DEF e
    <3> QED
      BY <3>1, <3>2
  <2>3. \A i \in 1 .. NRxFrames : fillq[i] = FrameAddr(NTxFrames + i - 1)
    BY <1>1
  <2> QED
    BY <2>1, <2>2, <2>3
<1>6. Apart(fillq)
  BY <1>5, UmemFacts DEF Apart
<1>7. \A f \in Frames : On(fillq, f) <=> f \in RxFrames
  <2>1. \A f \in Frames : On(fillq, f) => f \in RxFrames
    BY <1>3, <1>5 DEF On
  <2>2. \A f \in RxFrames : On(fillq, f)
    BY <1>4, <1>5 DEF On
  <2> QED
    BY <2>1, <2>2
<1>8. Addrs(txq) = <<>> /\ Addrs(rxq) = <<>>
  BY <1>1 DEF Addrs
<1>9. Apart(<<>>) /\ \A f : ~On(<<>>, f)
  BY DEF Apart, On
<1>10. UType
  BY <1>1, <1>2, <1>5, UmemFacts DEF UType
<1>11. AddrInv
  BY <1>1, <1>2, TwoHalves DEF AddrInv
<1>12. TxAccount
  BY <1>1, <1>8, <1>9 DEF TxAccount
<1>13. RxAccount
  BY <1>1, <1>6, <1>7, <1>8, <1>9 DEF RxAccount
<1>14. TxData /\ RxData /\ FilledData
  BY <1>1, TwoHalves DEF TxData, RxData, FilledData
<1> QED
  BY <1>10, <1>11, <1>12, <1>13, <1>14 DEF UmemInv

\* Every step keeps the invariant.
LEMMA UmemNextInv ==
  ASSUME UmemInv, [Next]_vars
  PROVE  UmemInv'
<1>1. CASE UNCHANGED vars
  <2>1. /\ addr' = addr /\ len' = len /\ status' = status /\ holds' = holds
        /\ panicked' = panicked /\ mem' = mem /\ txq' = txq /\ rxq' = rxq
        /\ compq' = compq /\ fillq' = fillq /\ pkts' = pkts
    BY <1>1 DEF vars, halves, rings
  <2> QED
    BY <2>1, Zenon DEF UmemInv, UType, AddrInv, TxAccount, RxAccount, TxData, RxData, FilledData
<1>2. CASE Stopped
  BY <1>1, <1>2 DEF Stopped
<1> QED
  BY <1>1, <1>2, SendInv, SendApplyInv, RecvInv, RecvApplyInv, KTransmitInv, KReceiveInv
     DEF Next

\* The invariant holds, for every value of the constants.
THEOREM UmemInvariant == Spec => []UmemInv
<1>1. Init => UmemInv
  BY UmemInitInv
<1>2. UmemInv /\ [Next]_vars => UmemInv'
  BY UmemNextInv
<1> QED
  BY <1>1, <1>2, PTL DEF Spec

\* Addresses stay inside their frames and everything in its type: set_addr
\* never moves a Frame out of its memory.
THEOREM UmemTypes == Spec => []UmemTypeOK
<1>1. UmemInv => UmemTypeOK
  <2> SUFFICES ASSUME UmemInv PROVE UmemTypeOK
    OBVIOUS
  <2>1. UType /\ AddrInv
    BY DEF UmemInv
  <2>2. \A f \in Frames : addr[f] \in Chunk(f)
    <3> SUFFICES ASSUME NEW f \in Frames PROVE addr[f] \in Chunk(f)
      OBVIOUS
    <3>1. addr[f] \in Bytes /\ FrameOf(addr[f]) = f
      BY <2>1 DEF UType, AddrInv
    <3>2. FrameAddr(f) <= addr[f] /\ addr[f] < FrameAddr(f) + FrameSize
      BY <3>1, ByteFrame
    <3>3. addr[f] \in Int /\ FrameAddr(f) \in Int /\ FrameSize \in Int
      BY <3>1, FrameAddrs, UmemFacts DEF Bytes
    <3> QED
      BY <3>2, <3>3 DEF Chunk
  <2>3. TxFrames \cup RxFrames = Frames
    BY TwoHalves
  <2> QED
    BY <2>1, <2>2, <2>3 DEF UmemTypeOK, UType
<1> QED
  BY <1>1, UmemInvariant, PTL

\* The frame indices computed from addresses in 32 bits are the right ones:
\* no frame is marked for another, none is in two places, and one is lost only
\* to a closure that returned more than its slice holds.
THEOREM UmemAccounted == Spec => []FramesAccounted
<1>1. UmemInv => FramesAccounted
  <2> SUFFICES ASSUME UmemInv PROVE FramesAccounted
    OBVIOUS
  <2>1. UType /\ TxAccount /\ RxAccount
    BY DEF UmemInv
  <2>2. /\ Addrs(txq) \in Seq(Bytes) /\ Addrs(rxq) \in Seq(Bytes)
        /\ compq \in Seq(Bytes) /\ fillq \in Seq(Bytes)
        /\ Apart(Addrs(txq)) /\ Apart(Addrs(rxq)) /\ Apart(compq) /\ Apart(fillq)
    BY <2>1, AddrsOf, Zenon DEF UType, TxAccount, RxAccount
  <2>3. \A f : /\ Places(Addrs(txq), f) = IF On(Addrs(txq), f) THEN 1 ELSE 0
               /\ Places(Addrs(rxq), f) = IF On(Addrs(rxq), f) THEN 1 ELSE 0
               /\ Places(compq, f) = IF On(compq, f) THEN 1 ELSE 0
               /\ Places(fillq, f) = IF On(fillq, f) THEN 1 ELSE 0
    BY <2>2, PlacesOn
  <2>4. panicked \subseteq {"tx"}
    BY <2>1, ZenonT(30) DEF UType
  <2>5. ASSUME NEW f \in TxFrames
        PROVE  LET n == Places(Addrs(txq), f) + Places(compq, f)
               IN  IF status[f] = "Free" THEN n = 0
                   ELSE n = 1 \/ (n = 0 /\ len[f] > FrameSize)
    <3>1. f \in Frames
      BY TwoHalves
    <3>2. /\ On(Addrs(txq), f) => status[f] = "OnTxQueue" /\ ~On(compq, f)
          /\ On(compq, f) => status[f] = "OnTxQueue"
          /\ \/ status[f] = "Free"
             \/ /\ status[f] = "OnTxQueue"
                /\ On(Addrs(txq), f) \/ On(compq, f) \/ len[f] > FrameSize
      BY <3>1, <2>1, Zenon DEF TxAccount
    <3> QED
      BY <3>2, <2>3
  <2>6. ASSUME NEW f \in RxFrames
        PROVE  Places(fillq, f) + Places(Addrs(rxq), f)
                 + (IF status[f] = "Filled" THEN 1 ELSE 0) = 1
    <3>1. f \in Frames
      BY TwoHalves
    <3>2. /\ On(fillq, f) => status[f] = "Free" /\ ~On(Addrs(rxq), f)
          /\ On(Addrs(rxq), f) => status[f] = "Free"
          /\ \/ status[f] = "Filled"
             \/ status[f] = "Free" /\ (On(fillq, f) \/ On(Addrs(rxq), f))
      BY <3>1, <2>1, ZenonT(30) DEF RxAccount
    <3> QED
      BY <3>2, <2>3
  <2> QED
    BY <2>4, <2>5, <2>6, Zenon DEF FramesAccounted
<1> QED
  BY <1>1, UmemInvariant, PTL

\* What a descriptor points to is its own packet, from the moment it is put on
\* a ring until it is transmitted or read.
THEOREM UmemHoldsData == Spec => []DescriptorsHoldData
<1>1. UmemInv => DescriptorsHoldData
  <2> SUFFICES ASSUME UmemInv PROVE DescriptorsHoldData
    OBVIOUS
  <2>1. UType /\ TxData /\ RxData /\ FilledData
    BY DEF UmemInv
  <2>2. ASSUME NEW i \in DOMAIN txq, ValidDesc(txq[i])
        PROVE  \A b \in MemRange(txq[i].addr, txq[i].len) : mem[b] = txq[i].pkt
    <3>1. txq[i] \in Descs
      BY <2>1, AddrsOf, ZenonT(30) DEF UType
    <3>2. Within(txq[i].addr, txq[i].len)
      BY <3>1, <2>2, ValidWithin
    <3> QED
      BY <3>2, <2>1, ZenonT(30) DEF TxData, Holds
  <2>3. \A i \in DOMAIN rxq :
          \A b \in MemRange(rxq[i].addr, rxq[i].len) : mem[b] = rxq[i].pkt
    BY <2>1, ZenonT(30) DEF RxData, Holds
  <2>4. \A f \in RxFrames : status[f] = "Filled" =>
          \A b \in MemRange(addr[f], len[f]) : mem[b] = holds[f]
    BY <2>1 DEF FilledData, Holds
  <2> QED
    BY <2>2, <2>3, <2>4, ZenonT(30) DEF DescriptorsHoldData
<1> QED
  BY <1>1, UmemInvariant, PTL

\* The frame a byte belongs to may be written: the condition of OnlyOwnFrame.
OwnFrame(f) ==
  \/ /\ Places(Addrs(txq), f) + Places(compq', f) = 0
     /\ Places(Addrs(txq'), f) = 1
  \/ /\ Places(Addrs(rxq), f) = 0 /\ status[f] # "Filled"
     /\ Places(Addrs(rxq'), f) = 1

\* Frames on neither of two rings.
LEMMA NoneAndNone == 0 + 0 = 0
OBVIOUS

\* A send writes into the frame it puts on the tx ring.
LEMMA TxWritesOnlyOwn ==
  ASSUME UmemInv, UmemInv', NEW k \in 0 .. Len(compq), NEW f \in TxFrames, NEW n \in Nat,
         NEW w \in Nat, w <= FrameSize, pkts < MaxPkts, TxWrites(k, f, n, w),
         NEW b \in Bytes, mem'[b] # mem[b]
  PROVE  OwnFrame(FrameOf(b))
<1> DEFINE rest == SubSeq(compq, k + 1, Len(compq))
           d == [addr |-> addr[f], len |-> n % Word, pkt |-> pkts + 1]
<1>1. UType /\ AddrInv /\ TxAccount /\ TxAccount' /\ UType'
  BY Zenon DEF UmemInv
<1>2. /\ compq' = rest /\ Completed(k)[f] = "Free"
      /\ mem' = Written(MemRange(addr[f], w), pkts + 1) /\ txq' = Append(txq, d)
  BY Zenon DEF TxWrites, TxWritesBut, Submit
<1>3. /\ ~On(Addrs(txq), f) /\ ~On(rest, f) /\ FrameOf(addr[f]) = f
      /\ addr[f] \in Bytes
      /\ \A x \in MemRange(addr[f], w) : FrameOf(x) = f
  BY <1>1, <1>2, TxWritesOwn, ZenonT(30)
<1>4. FrameOf(b) = f
  <2>1. b \in MemRange(addr[f], w)
    BY <1>2 DEF Written
  <2> QED
    BY <2>1, <1>3
<1>5. d \in Descs /\ d.addr = addr[f]
  BY <1>1, TxDesc
<1>6. /\ txq \in Seq(Descs) /\ Addrs(txq) \in Seq(Bytes) /\ Apart(Addrs(txq))
      /\ compq' \in Seq(Bytes) /\ Apart(compq')
      /\ Addrs(txq') \in Seq(Bytes) /\ Apart(Addrs(txq'))
  BY <1>1, AddrsOf, ZenonT(30) DEF UType, TxAccount
<1> HIDE DEF d, rest
<1>7. Addrs(txq') = Append(Addrs(txq), addr[f])
  BY <1>2, <1>5, <1>6, AddrsAppend, ZenonT(30)
<1>8. f \in Frames
  BY TwoHalves, ZenonT(30)
<1>9. On(Addrs(txq'), f)
  BY <1>3, <1>6, <1>7, <1>8, AppendOn, ZenonT(30)
<1>10. /\ Places(Addrs(txq), f) = 0 /\ Places(compq', f) = 0 /\ Places(Addrs(txq'), f) = 1
  BY <1>2, <1>3, <1>6, <1>9, PlacesOn, ZenonT(30)
<1>11. Places(Addrs(txq), f) + Places(compq', f) = 0
  BY <1>10, NoneAndNone, Zenon
<1> QED
  BY <1>4, <1>10, <1>11, Zenon DEF OwnFrame

\* So does the kernel, into the frame it puts on the rx ring.
LEMMA KReceiveOnlyOwn ==
  ASSUME UmemInv, UmemInv', KReceive, NEW b \in Bytes, mem'[b] # mem[b]
  PROVE  OwnFrame(FrameOf(b))
<1> DEFINE h == FrameOf(Head(fillq))
           a == KBuffer(Head(fillq))
<1>1. PICK n \in Nat :
               /\ h \in Frames /\ status[h] = "Free" /\ ~On(Addrs(rxq), h)
               /\ a \in Bytes /\ FrameOf(a) = h
               /\ LET d == [addr |-> a, len |-> n, pkt |-> pkts + 1]
                  IN  d \in Descs /\ d.addr = a /\ rxq' = Append(rxq, d)
               /\ \A x \in MemRange(a, n) : FrameOf(x) = h
               /\ mem' = Written(MemRange(a, n), pkts + 1)
  BY KReceiveIs, ZenonT(30)
<1> DEFINE d == [addr |-> a, len |-> n, pkt |-> pkts + 1]
<1>2. d \in Descs /\ d.addr = a /\ rxq' = Append(rxq, d)
  BY <1>1, ZenonT(30)
<1>3. FrameOf(b) = h
  <2>1. b \in MemRange(a, n)
    BY <1>1 DEF Written
  <2> QED
    BY <2>1, <1>1, ZenonT(30)
<1>4. /\ rxq \in Seq(Descs) /\ Addrs(rxq) \in Seq(Bytes) /\ Apart(Addrs(rxq))
      /\ Addrs(rxq') \in Seq(Bytes) /\ Apart(Addrs(rxq'))
  <2>1. UType /\ RxAccount /\ UType' /\ RxAccount'
    BY DEF UmemInv
  <2> QED
    BY <2>1, AddrsOf, ZenonT(30) DEF UType, RxAccount
<1> HIDE DEF h, a, d
<1>5. Addrs(rxq') = Append(Addrs(rxq), a)
  BY <1>2, <1>4, AddrsAppend
<1>6. h \in Frames /\ a \in Bytes /\ FrameOf(a) = h /\ ~On(Addrs(rxq), h) /\ status[h] # "Filled"
  BY <1>1, Zenon
<1>7. On(Addrs(rxq'), h)
  BY <1>4, <1>5, <1>6, AppendOn, ZenonT(30)
<1>8. Places(Addrs(rxq), h) = 0 /\ Places(Addrs(rxq'), h) = 1
  BY <1>4, <1>6, <1>7, PlacesOn
<1> QED
  BY <1>3, <1>6, <1>8, Zenon DEF OwnFrame

\* A step changes bytes of one frame only, the one it hands on with them: what
\* write_to_umem_checked and the slice of send_apply promise, and the kernel's
\* writes past the headroom.
THEOREM UmemOnlyOwnFrame == Spec => OnlyOwnFrame
<1> DEFINE Step == \A b \in Bytes : mem'[b] # mem[b] => OwnFrame(FrameOf(b))
<1>1. UmemInv /\ UmemInv' /\ [Next]_vars => [Step]_vars
  <2> SUFFICES ASSUME UmemInv, UmemInv', Next, NEW b \in Bytes, mem'[b] # mem[b]
               PROVE  OwnFrame(FrameOf(b))
    BY ZenonT(30)
  <2>1. CASE Send
    <3>1. pkts < MaxPkts
      BY <2>1, SendIs
    <3>2. PICK k \in 0 .. Len(compq), f \in TxFrames, n \in DataLens :
            (IsDataValid(n) /\ TxWrites(k, f, n, n)) \/ mem' = mem
      BY <2>1, SendIs
    <3>3. IsDataValid(n) /\ TxWrites(k, f, n, n)
      BY <3>2
    <3>4. n \in Nat
      BY UmemFacts
    <3>5. n <= FrameSize
      BY <3>3, <3>4, ValidFits
    <3> QED
      BY <3>1, <3>3, <3>4, <3>5, TxWritesOnlyOwn
  <2>2. CASE SendApply
    <3>1. pkts < MaxPkts
      BY <2>2, SendApplyIs
    <3>2. PICK k \in 0 .. Len(compq), f \in TxFrames, n \in ClosureLens :
            TxWrites(k, f, n, IF n < FrameSize THEN n ELSE FrameSize)
      BY <2>2, SendApplyIs
    <3> DEFINE w == IF n < FrameSize THEN n ELSE FrameSize
    <3>3. n \in Nat
      BY UmemFacts
    <3>4. w \in Nat /\ w <= FrameSize /\ TxWrites(k, f, n, w)
      BY <3>2, <3>3, UmemFacts
    <3> HIDE DEF w
    <3> QED
      BY <3>1, <3>3, <3>4, TxWritesOnlyOwn
  <2>3. CASE KReceive
    BY <2>3, KReceiveOnlyOwn
  <2>4. CASE Recv \/ RecvApply \/ KTransmit \/ Stopped
    <3>1. mem' = mem
      BY <2>4 DEF Recv, RecvApply, KTransmit, Stopped, vars
    <3> QED
      BY <3>1
  <2> QED
    BY <2>1, <2>2, <2>3, <2>4 DEF Next
<1>2. Spec => [][Step]_vars
  <2> HIDE DEF Step
  <2> QED
    BY <1>1, UmemInvariant, PTL DEF Spec
<1>3. OnlyOwnFrame <=> [][Step]_vars
  BY DEF OnlyOwnFrame, OwnFrame
<1> QED
  BY <1>2, <1>3
=============================================================================
