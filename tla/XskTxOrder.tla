----------------------------- MODULE XskTxOrder -----------------------------
(***************************************************************************)
(* Further theorems about XskTx: its counters, the order of its frames and *)
(* packets, and that it implements the channel of module TxChannel.        *)
(***************************************************************************)
EXTENDS XskTxProofs, FiniteSetTheorems

\* A leaf that names no prover is tried with SMT, with Zenon, and with SMT
\* again, given more time.
USE SMT, Zenon, SMTT(30), SMTT(40)

\* The packets of the current batch that are not on the tx ring.
Unsent == IF submitted THEN 0 ELSE cur_batch_size

\* How many frames are on the tx ring tq, in the device and on the
\* completion ring cq.
OwnedBy(tq, dev, cq) == Len(tq) + Cardinality(dev) + Len(cq)

\* What the counters count.
Counts ==
  /\ outstanding_tx_frames + (IF submitted THEN cur_batch_size ELSE 0)
       = OwnedBy(txq, inflight, compq)
  /\ pkts_tx = pkts_tx_completed + outstanding_tx_frames

\* Where drain and a refused send leave the user thread.
Flow ==
  /\ pc = "idle" => ~draining
  /\ pc \in {"drain", "drain_check"} => draining
  /\ pc = "drain_check" => cur_batch_size = 0
  /\ result = "NoFreeTxFrames" => pc \in {"idle", "write_panic"}

\* The packets accepted are, in this order, those transmitted, those in the
\* frames on the tx ring, and those in the last frames before the cursor.
\* (Of a batch of more packets than frames only the last ones are left.)
InOrder ==
  /\ Len(wire) + Len(txq) + Unsent = next_pkt - 1
  /\ \A i \in 1 .. Len(wire) : wire[i] = i
  /\ \A i \in 1 .. Len(txq) : umem[txq[i]] = Len(wire) + i
  /\ \A j \in 1 .. Unsent : j <= NTxFrames => umem[Back(tx_cursor, j)] = next_pkt - j

\* A device that completes in order hands the frames round in a circle:
\* before the cursor c come the u frames of the batch, those on the tx ring,
\* the one in the device and those on the completion ring.
CircleOf(c, u, tq, dev, cq) ==
  /\ IsFiniteSet(dev) /\ Cardinality(dev) \in {0, 1}
  /\ u + OwnedBy(tq, dev, cq) <= NTxFrames \/ OwnedBy(tq, dev, cq) = 0
  /\ \A i \in 1 .. Len(tq) : tq[i] = Back(c, u + Len(tq) - i + 1)
  /\ \A f \in dev : f = Back(c, u + Len(tq) + 1)
  /\ \A i \in 1 .. Len(cq) : cq[i] = Back(c, u + OwnedBy(tq, dev, cq) - i + 1)

\* f is on the tx ring tq, in the device or on the completion ring cq.
Holds(tq, dev, cq, f) ==
  \/ \E i \in 1 .. Len(tq) : tq[i] = f
  \/ f \in dev
  \/ \E i \in 1 .. Len(cq) : cq[i] = f

Circle == CircleOf(tx_cursor, Unsent, txq, inflight, compq)

OrderInv ==
  /\ OwnInv /\ Counts /\ Flow
  /\ "prefill_midway" \notin Client => InOrder
  /\ MaxInFlight = 1 => Circle /\ NoFreeFramesIsTrue
-----------------------------------------------------------------------------
(* Going back from the cursor                                              *)

\* The positions 1 .. NTxFrames before the cursor are all the frames, the
\* last of them the cursor itself; they are what Pending computes.
LEMMA BackIs ==
  ASSUME NEW c \in Frames
  PROVE  /\ \A k \in 1 .. NTxFrames :
              /\ Back(c, k) \in Frames
              /\ Back(c, k) = c <=> k = NTxFrames
              /\ (c - k + NTxFrames) % NTxFrames = Back(c, k)
         /\ \A f \in Frames : \E k \in 1 .. NTxFrames : f = Back(c, k)
<1>1. \A k \in 1 .. NTxFrames : Back(c, k) \in Frames /\ (Back(c, k) = c <=> k = NTxFrames)
  BY TxConstants DEF Back, Frames
<1>2. \A k \in 1 .. NTxFrames : (c - k + NTxFrames) % NTxFrames = Back(c, k)
  BY TxConstants DEF Back, Frames
<1>3. ASSUME NEW f \in Frames PROVE \E k \in 1 .. NTxFrames : f = Back(c, k)
  <2>1. CASE f < c
    <3>1. c - f \in 1 .. NTxFrames /\ f = Back(c, c - f)
      BY <2>1, TxConstants DEF Back, Frames
    <3> QED BY <3>1
  <2>2. CASE f >= c
    <3>1. c - f + NTxFrames \in 1 .. NTxFrames /\ f = Back(c, c - f + NTxFrames)
      BY <2>2, TxConstants DEF Back, Frames
    <3> QED BY <3>1
  <2> QED BY <2>1, <2>2 DEF Frames
<1> QED BY <1>1, <1>2, <1>3

\* The i-th frame of the range of put_batch_on_tx_queue is the one of the
\* i-th packet of the batch.
LEMMA BatchBack ==
  ASSUME NEW c \in Frames, NEW cur \in Nat, BatchStart(c, cur) >= 0
  PROVE  /\ cur <= NTxFrames
         /\ \A i \in 1 .. cur : Batch(c, cur)[i] = Back(c, cur - i + 1)
<1>1. cur <= NTxFrames
  BY TxConstants DEF BatchStart, BatchEnd, Frames
<1>2. ASSUME NEW i \in 1 .. cur PROVE Batch(c, cur)[i] = Back(c, cur - i + 1)
  <2>1. Batch(c, cur)[i] = BatchStart(c, cur) + i - 1
    BY DEF Batch
  <2> QED BY <2>1, TxConstants DEF BatchStart, BatchEnd, Back, Frames
<1> QED BY <1>1, <1>2

-----------------------------------------------------------------------------
(* The counters                                                            *)

\* A sequence without repetition has as many elements as entries.
LEMMA EntriesCount ==
  ASSUME NEW S, NEW s \in Seq(S), \A i, j \in 1 .. Len(s) : s[i] = s[j] => i = j
  PROVE  /\ IsFiniteSet({s[i] : i \in 1 .. Len(s)})
         /\ Cardinality({s[i] : i \in 1 .. Len(s)}) = Len(s)
<1> DEFINE R == {s[i] : i \in 1 .. Len(s)}
<1>1. Len(s) \in Nat /\ s \in [1 .. Len(s) -> S]
  BY LenProperties
<1>2. IsFiniteSet(1 .. Len(s)) /\ Cardinality(1 .. Len(s)) = Len(s)
  BY <1>1, FS_Interval
<1>3. s \in [1 .. Len(s) -> R] /\ \A r \in R : \E i \in 1 .. Len(s) : s[i] = r
  BY <1>1
<1>4. s \in Injection(1 .. Len(s), R)
  BY <1>3 DEF Injection, IsInjective
<1>5. s \in Surjection(1 .. Len(s), R)
  BY <1>3 DEF Surjection
<1> HIDE DEF R
<1>6. ExistsBijection(1 .. Len(s), R)
  BY <1>4, <1>5 DEF ExistsBijection, Bijection
<1>7. IsFiniteSet(R) /\ Cardinality(R) = Cardinality(1 .. Len(s))
  BY <1>2, <1>6, FS_Bijection
<1> QED BY <1>2, <1>7 DEF R

\* The frames on the rings and in the device are different ones: there are at
\* most NTxFrames.
LEMMA OwnedBound ==
  ASSUME OwnInv
  PROVE  /\ OwnedBy(txq, inflight, compq) <= NTxFrames
         /\ IsFiniteSet(inflight) /\ Cardinality(inflight) \in Nat
<1> DEFINE A == {txq[i] : i \in 1 .. Len(txq)}
           C == {compq[i] : i \in 1 .. Len(compq)}
<1>1. /\ txq \in Seq(Frames) /\ compq \in Seq(Frames) /\ inflight \in SUBSET Frames
      /\ FrameOwnership
  BY DEF OwnInv, TypeInv, TxTypeOK
<1>2. IsFiniteSet(Frames) /\ Cardinality(Frames) = NTxFrames
  BY TxConstants, FS_Interval DEF Frames
<1>3. IsFiniteSet(inflight) /\ Cardinality(inflight) \in Nat
  BY <1>1, <1>2, FS_Subset, FS_CardinalityType
<1>4. IsFiniteSet(A) /\ Cardinality(A) = Len(txq)
  BY <1>1, EntriesCount DEF FrameOwnership
<1>5. IsFiniteSet(C) /\ Cardinality(C) = Len(compq)
  BY <1>1, EntriesCount, Zenon DEF FrameOwnership
<1>6. A \subseteq Frames /\ C \subseteq Frames
  BY <1>1
<1>7. A \cap inflight = {} /\ (A \cup inflight) \cap C = {}
  BY <1>1, <1>6 DEF FrameOwnership, OnTxRing, OnCompRing
<1> HIDE DEF A, C
<1>8. /\ IsFiniteSet(A \cup inflight)
      /\ Cardinality(A \cup inflight) = Len(txq) + Cardinality(inflight)
  <2>1. Cardinality(A \cap inflight) = 0
    BY <1>7, FS_EmptySet
  <2>2. /\ IsFiniteSet(A \cup inflight)
        /\ Cardinality(A \cup inflight)
             = Cardinality(A) + Cardinality(inflight) - Cardinality(A \cap inflight)
    BY <1>3, <1>4, FS_Union
  <2> QED BY <1>1, <1>3, <1>4, <2>1, <2>2
<1>9. Cardinality((A \cup inflight) \cup C) = Len(txq) + Cardinality(inflight) + Len(compq)
  <2>1. Cardinality((A \cup inflight) \cap C) = 0
    BY <1>7, FS_EmptySet
  <2>2. Cardinality((A \cup inflight) \cup C)
          = Cardinality(A \cup inflight) + Cardinality(C) - Cardinality((A \cup inflight) \cap C)
    BY <1>5, <1>8, FS_Union
  <2> QED BY <1>1, <1>3, <1>5, <1>8, <2>1, <2>2
<1>10. Cardinality((A \cup inflight) \cup C) <= NTxFrames
  BY <1>1, <1>2, <1>6, FS_Subset
<1> QED BY <1>3, <1>9, <1>10 DEF OwnedBy

\* complete_frames takes as much off the count as off the completion ring.
LEMMA CountsComplete ==
  ASSUME OwnInv, Counts, NEW k \in Consumable, CompleteFrames(k), ~submitted, ~submitted',
         UNCHANGED <<pkts_tx, txq, inflight>>
  PROVE  Counts'
<1>1. /\ k \in 0 .. Len(compq) /\ compq \in Seq(Frames) /\ txq \in Seq(Frames)
      /\ outstanding_tx_frames \in Nat /\ pkts_tx_completed \in Nat /\ pkts_tx \in Nat
      /\ Len(compq) \in Nat /\ Len(txq) \in Nat
  BY DEF OwnInv, TypeInv, TxTypeOK, Consumable
<1>2. Len(compq') = Len(compq) - k
  BY <1>1, SubSeqProperties DEF CompleteFrames
<1>3. Cardinality(inflight) \in Nat
  BY OwnedBound
<1>4. /\ outstanding_tx_frames = Len(txq) + Cardinality(inflight) + Len(compq)
      /\ pkts_tx = pkts_tx_completed + outstanding_tx_frames
  BY <1>1 DEF Counts, OwnedBy
<1>5. /\ outstanding_tx_frames' = outstanding_tx_frames - k
      /\ pkts_tx_completed' = pkts_tx_completed + k
  BY DEF CompleteFrames
<1>6. /\ outstanding_tx_frames' = Len(txq') + Cardinality(inflight') + Len(compq')
      /\ pkts_tx' = pkts_tx_completed' + outstanding_tx_frames'
  <2>1. (Len(txq) + Cardinality(inflight) + Len(compq)) - k
          = Len(txq) + Cardinality(inflight) + (Len(compq) - k)
    BY <1>1, <1>3
  <2>2. pkts_tx_completed + outstanding_tx_frames
          = (pkts_tx_completed + k) + (outstanding_tx_frames - k)
    BY <1>1
  <2>3. outstanding_tx_frames' = Len(txq) + Cardinality(inflight) + Len(compq')
    BY <1>2, <1>4, <1>5, <2>1, Zenon
  <2>4. pkts_tx = pkts_tx_completed' + outstanding_tx_frames'
    BY <1>4, <1>5, <2>2, Zenon
  <2> QED BY <2>3, <2>4
<1> QED BY <1>1, <1>5, <1>6 DEF Counts, OwnedBy

-----------------------------------------------------------------------------
(* The circle of frames                                                    *)

\* Consuming from the completion ring shortens the circle at its far end.
LEMMA CircleComplete ==
  ASSUME NEW c \in Frames, NEW u \in Nat, NEW tq \in Seq(Frames), NEW dev,
         NEW cq \in Seq(Frames), NEW k \in 0 .. Len(cq), CircleOf(c, u, tq, dev, cq)
  PROVE  CircleOf(c, u, tq, dev, SubSeq(cq, k + 1, Len(cq)))
<1> DEFINE cp == SubSeq(cq, k + 1, Len(cq))
<1>1. /\ Len(tq) \in Nat /\ Len(cq) \in Nat /\ Len(cp) = Len(cq) - k
      /\ \A i \in 1 .. Len(cp) : cp[i] = cq[k + i]
  BY SubSeqProperties
<1>2. IsFiniteSet(dev) /\ Cardinality(dev) \in {0, 1}
  BY DEF CircleOf
<1> HIDE DEF cp
<1>3. OwnedBy(tq, dev, cp) = OwnedBy(tq, dev, cq) - k
  BY <1>1, <1>2 DEF OwnedBy
<1>4. OwnedBy(tq, dev, cq) \in Nat /\ OwnedBy(tq, dev, cp) \in Nat
  BY <1>1, <1>2 DEF OwnedBy
<1>5. u + OwnedBy(tq, dev, cp) <= NTxFrames \/ OwnedBy(tq, dev, cp) = 0
  <2>1. u + OwnedBy(tq, dev, cq) <= NTxFrames \/ OwnedBy(tq, dev, cq) = 0
    BY DEF CircleOf
  <2> QED BY <1>3, <1>4, <2>1, TxConstants
<1>6. ASSUME NEW i \in 1 .. Len(cp)
      PROVE  cp[i] = Back(c, u + OwnedBy(tq, dev, cp) - i + 1)
  <2>1. k + i \in 1 .. Len(cq)
    BY <1>1
  <2>2. cq[k + i] = Back(c, u + OwnedBy(tq, dev, cq) - (k + i) + 1)
    BY <2>1 DEF CircleOf
  <2>3. u + OwnedBy(tq, dev, cq) - (k + i) + 1 = u + OwnedBy(tq, dev, cp) - i + 1
    BY <1>1, <1>3, <1>4
  <2> QED BY <1>1, <2>2, <2>3
<1>7. CircleOf(c, u, tq, dev, cp)
  BY <1>2, <1>5, <1>6 DEF CircleOf
<1> QED BY <1>7 DEF cp

\* Writing one more packet moves the cursor and every frame of the circle
\* one position away from it.
LEMMA CircleAccept ==
  ASSUME NEW c \in Frames, NEW u \in Nat, NEW tq \in Seq(Frames), NEW dev,
         NEW cq \in Seq(Frames), CircleOf(c, u, tq, dev, cq),
         u + OwnedBy(tq, dev, cq) < NTxFrames \/ OwnedBy(tq, dev, cq) = 0
  PROVE  CircleOf(NextCursor(c), u + 1, tq, dev, cq)
<1>1. Len(tq) \in Nat /\ Len(cq) \in Nat /\ IsFiniteSet(dev) /\ Cardinality(dev) \in {0, 1}
  BY DEF CircleOf
<1> DEFINE n == OwnedBy(tq, dev, cq)
<1>2. n \in Nat /\ n = Len(tq) + Cardinality(dev) + Len(cq)
  BY <1>1 DEF OwnedBy
<1>3. /\ \A i \in 1 .. Len(tq) : tq[i] = Back(c, u + Len(tq) - i + 1)
      /\ \A f \in dev : f = Back(c, u + Len(tq) + 1)
      /\ \A i \in 1 .. Len(cq) : cq[i] = Back(c, u + n - i + 1)
  BY DEF CircleOf
<1>4. u + n < NTxFrames \/ n = 0
  OBVIOUS
<1> HIDE DEF n
<1>5. (u + 1) + n <= NTxFrames \/ n = 0
  BY <1>2, <1>4, TxConstants
<1>6. ASSUME NEW p \in Nat, p >= 1, p < NTxFrames
      PROVE  Back(NextCursor(c), p + 1) = Back(c, p)
  <2>1. p + 1 \in 1 .. NTxFrames /\ p + 1 # 1 /\ (p + 1) - 1 = p
    BY <1>6, TxConstants
  <2> QED BY <2>1, BackNext
<1>7. ASSUME NEW i \in 1 .. Len(tq) PROVE tq[i] = Back(NextCursor(c), (u + 1) + Len(tq) - i + 1)
  <2> DEFINE p == u + Len(tq) - i + 1
  <2>1. p \in Nat /\ p >= 1 /\ p < NTxFrames /\ p + 1 = (u + 1) + Len(tq) - i + 1
    BY <1>1, <1>2, <1>4, TxConstants
  <2>2. tq[i] = Back(c, p)
    BY <1>3
  <2> HIDE DEF p
  <2>3. tq[i] = Back(NextCursor(c), p + 1)
    BY <1>6, <2>1, <2>2
  <2> QED BY <2>1, <2>3
<1>8. ASSUME NEW f \in dev PROVE f = Back(NextCursor(c), (u + 1) + Len(tq) + 1)
  <2> DEFINE p == u + Len(tq) + 1
  <2>0. Cardinality(dev) = 1
    BY <1>1, FS_EmptySet
  <2>1. p \in Nat /\ p >= 1 /\ p < NTxFrames /\ p + 1 = (u + 1) + Len(tq) + 1
    BY <1>1, <1>2, <1>4, <2>0, TxConstants
  <2>2. f = Back(c, p)
    BY <1>3
  <2> HIDE DEF p
  <2>3. f = Back(NextCursor(c), p + 1)
    BY <1>6, <2>1, <2>2
  <2> QED BY <2>1, <2>3
<1>9. ASSUME NEW i \in 1 .. Len(cq) PROVE cq[i] = Back(NextCursor(c), (u + 1) + n - i + 1)
  <2> DEFINE p == u + n - i + 1
  <2>0. n >= i /\ u + n < NTxFrames
    BY <1>1, <1>2, <1>4
  <2>1. p \in Nat /\ p >= 1 /\ p < NTxFrames /\ p + 1 = (u + 1) + n - i + 1
    BY <1>2, <2>0, TxConstants
  <2>2. cq[i] = Back(c, p)
    BY <1>3
  <2> HIDE DEF p
  <2>3. cq[i] = Back(NextCursor(c), p + 1)
    BY <1>6, <2>1, <2>2
  <2> QED BY <2>1, <2>3
<1> QED BY <1>1, <1>5, <1>7, <1>8, <1>9, ZenonT(30) DEF CircleOf, n

\* A device that is idle takes the oldest frame of the tx ring.
LEMMA CircleTransmit ==
  ASSUME NEW c \in Frames, NEW u \in Nat, NEW tq \in Seq(Frames), tq # <<>>,
         NEW cq \in Seq(Frames), CircleOf(c, u, tq, {}, cq)
  PROVE  CircleOf(c, u, Tail(tq), {Head(tq)}, cq)
<1> DEFINE tp == Tail(tq)
           h == Head(tq)
<1>1. /\ Len(tq) \in Nat /\ Len(tq) >= 1 /\ Len(tp) = Len(tq) - 1 /\ Len(cq) \in Nat
      /\ h = tq[1] /\ \A i \in 1 .. Len(tp) : tp[i] = tq[i + 1]
  BY HeadTailProperties
<1>2. Cardinality({}) = 0 /\ IsFiniteSet({h}) /\ Cardinality({h}) = 1
  BY FS_EmptySet, FS_Singleton, Zenon
<1> HIDE DEF tp, h
<1>3. OwnedBy(tp, {h}, cq) = OwnedBy(tq, {}, cq)
  BY <1>1, <1>2 DEF OwnedBy
<1>4. ASSUME NEW i \in 1 .. Len(tp) PROVE tp[i] = Back(c, u + Len(tp) - i + 1)
  <2>1. i + 1 \in 1 .. Len(tq) /\ u + Len(tq) - (i + 1) + 1 = u + Len(tp) - i + 1
    BY <1>1
  <2>2. tq[i + 1] = Back(c, u + Len(tq) - (i + 1) + 1)
    BY <2>1 DEF CircleOf
  <2> QED BY <1>1, <2>1, <2>2
<1>5. h = Back(c, u + Len(tp) + 1)
  <2>1. 1 \in 1 .. Len(tq) /\ u + Len(tq) - 1 + 1 = u + Len(tp) + 1
    BY <1>1
  <2>2. tq[1] = Back(c, u + Len(tq) - 1 + 1)
    BY <2>1 DEF CircleOf
  <2> QED BY <1>1, <2>1, <2>2
<1>6. CircleOf(c, u, tp, {h}, cq)
  BY <1>2, <1>3, <1>4, <1>5, Zenon DEF CircleOf
<1> QED BY <1>6 DEF tp, h

\* The frame the device completes is the one behind the completion ring.
LEMMA CircleReturn ==
  ASSUME NEW c \in Frames, NEW u \in Nat, NEW tq \in Seq(Frames), NEW h \in Frames,
         NEW cq \in Seq(Frames), CircleOf(c, u, tq, {h}, cq)
  PROVE  CircleOf(c, u, tq, {}, Append(cq, h))
<1> DEFINE cp == Append(cq, h)
<1>1. /\ Len(tq) \in Nat /\ Len(cq) \in Nat /\ Len(cp) = Len(cq) + 1
      /\ cp[Len(cq) + 1] = h /\ \A i \in 1 .. Len(cq) : cp[i] = cq[i]
  BY AppendProperties
<1>2. Cardinality({}) = 0 /\ IsFiniteSet({}) /\ Cardinality({h}) = 1
  BY FS_EmptySet, FS_Singleton, Zenon
<1> HIDE DEF cp
<1> DEFINE n == OwnedBy(tq, {h}, cq)
<1>3. OwnedBy(tq, {}, cp) = n /\ n \in Nat /\ n = Len(tq) + 1 + Len(cq)
  BY <1>1, <1>2 DEF OwnedBy
<1>4. /\ \A i \in 1 .. Len(cq) : cq[i] = Back(c, u + n - i + 1)
      /\ h = Back(c, u + Len(tq) + 1)
  BY Zenon DEF CircleOf
<1> HIDE DEF n
<1>5. ASSUME NEW i \in 1 .. Len(cp) PROVE cp[i] = Back(c, u + n - i + 1)
  <2>1. CASE i \in 1 .. Len(cq)
    BY <1>1, <1>4, <2>1
  <2>2. CASE i = Len(cq) + 1
    <3>1. u + n - i + 1 = u + Len(tq) + 1
      BY <1>1, <1>3, <2>2
    <3> QED BY <1>1, <1>4, <2>2, <3>1
  <2> QED BY <1>1, <2>1, <2>2
<1>6. CircleOf(c, u, tq, {}, cp)
  BY <1>2, <1>3, <1>5, Zenon DEF CircleOf, n
<1> QED BY <1>6 DEF cp

\* TxQueue::produce appends the batch to the tx ring: its frames are those
\* before the cursor.
LEMMA CirclePut ==
  ASSUME NEW c \in Frames, NEW cur \in Nat, NEW tq \in Seq(Frames), NEW dev,
         NEW cq \in Seq(Frames), CircleOf(c, cur, tq, dev, cq), BatchStart(c, cur) >= 0
  PROVE  CircleOf(c, 0, tq \o Batch(c, cur), dev, cq)
<1> DEFINE b == Batch(c, cur)
           tp == tq \o b
<1>1. cur <= NTxFrames /\ \A i \in 1 .. cur : b[i] = Back(c, cur - i + 1)
  BY BatchBack
<1>2. b \in Seq(Frames) /\ Len(b) = cur
  BY BatchRange
<1>3. IsFiniteSet(dev) /\ Cardinality(dev) \in {0, 1} /\ Len(tq) \in Nat /\ Len(cq) \in Nat
  BY DEF CircleOf
<1> HIDE DEF b
<1>4. Len(tp) = Len(tq) + cur
  <2>1. Len(tq \o b) = Len(tq) + Len(b)
    BY <1>2, ConcatProperties, Zenon
  <2> QED BY <1>2, <2>1
<1>5. /\ \A i \in 1 .. Len(tq) : tp[i] = tq[i]
      /\ \A i \in 1 .. cur : tp[Len(tq) + i] = b[i]
  BY <1>2, ConcatProperties
<1> HIDE DEF tp
<1> DEFINE n == OwnedBy(tq, dev, cq)
<1>6. n \in Nat /\ n = Len(tq) + Cardinality(dev) + Len(cq) /\ OwnedBy(tp, dev, cq) = n + cur
  BY <1>3, <1>4 DEF OwnedBy
<1>7. /\ cur + n <= NTxFrames \/ n = 0
      /\ \A i \in 1 .. Len(tq) : tq[i] = Back(c, cur + Len(tq) - i + 1)
      /\ \A f \in dev : f = Back(c, cur + Len(tq) + 1)
      /\ \A i \in 1 .. Len(cq) : cq[i] = Back(c, cur + n - i + 1)
  BY DEF CircleOf
<1> HIDE DEF n
<1>8. 0 + (n + cur) <= NTxFrames
  BY <1>1, <1>6, <1>7, TxConstants
<1>9. ASSUME NEW i \in 1 .. Len(tp) PROVE tp[i] = Back(c, 0 + Len(tp) - i + 1)
  <2>1. CASE i \in 1 .. Len(tq)
    <3>1. 0 + Len(tp) - i + 1 = cur + Len(tq) - i + 1
      BY <1>3, <1>4
    <3> QED BY <1>5, <1>7, <2>1, <3>1, Zenon
  <2>2. CASE i > Len(tq)
    <3> DEFINE j == i - Len(tq)
    <3>1. j \in 1 .. cur /\ Len(tq) + j = i /\ cur - j + 1 = 0 + Len(tp) - i + 1
      BY <1>3, <1>4, <2>2
    <3> HIDE DEF j
    <3>2. tp[Len(tq) + j] = Back(c, cur - j + 1)
      BY <1>1, <1>5, <3>1
    <3> QED BY <3>1, <3>2
  <2> QED BY <1>3, <1>4, <2>1, <2>2
<1>10. ASSUME NEW f \in dev PROVE f = Back(c, 0 + Len(tp) + 1)
  <2>1. 0 + Len(tp) + 1 = cur + Len(tq) + 1
    BY <1>3, <1>4
  <2> QED BY <1>7, <2>1
<1>11. ASSUME NEW i \in 1 .. Len(cq) PROVE cq[i] = Back(c, 0 + (n + cur) - i + 1)
  <2>1. 0 + (n + cur) - i + 1 = cur + n - i + 1
    BY <1>3, <1>6
  <2> QED BY <1>7, <2>1
<1>12. CircleOf(c, 0, tp, dev, cq)
  BY <1>3, <1>6, <1>8, <1>9, <1>10, <1>11, ZenonT(30) DEF CircleOf
<1> QED BY <1>12 DEF tp, b

\* If the frame at the cursor is still in the circle, the circle is closed:
\* every frame is in it.
LEMMA CircleClosed ==
  ASSUME NEW c \in Frames, NEW u \in Nat, NEW tq \in Seq(Frames), NEW dev \in SUBSET Frames,
         NEW cq \in Seq(Frames), CircleOf(c, u, tq, dev, cq),
         Holds(tq, dev, cq, c), NEW f \in Frames
  PROVE  \/ \E j \in 1 .. u : f = (c - j + NTxFrames) % NTxFrames
         \/ Holds(tq, dev, cq, f)
<1> DEFINE n == OwnedBy(tq, dev, cq)
<1>1. Len(tq) \in Nat /\ Len(cq) \in Nat /\ IsFiniteSet(dev) /\ Cardinality(dev) \in {0, 1}
  BY DEF CircleOf
<1>2. n \in Nat /\ n = Len(tq) + Cardinality(dev) + Len(cq)
  BY <1>1 DEF OwnedBy
<1>3. /\ \A i \in 1 .. Len(tq) : tq[i] = Back(c, u + Len(tq) - i + 1)
      /\ \A g \in dev : g = Back(c, u + Len(tq) + 1)
      /\ \A i \in 1 .. Len(cq) : cq[i] = Back(c, u + n - i + 1)
  BY DEF CircleOf
<1>b. u + n <= NTxFrames \/ n = 0
  BY DEF CircleOf
<1> HIDE DEF n
<1>4. dev # {} <=> Cardinality(dev) = 1
  BY <1>1, FS_EmptySet
<1>5. \E p \in 1 .. NTxFrames : p <= u + n /\ Back(c, p) = c
  <2>1. CASE \E i \in 1 .. Len(tq) : tq[i] = c
    <3> PICK i \in 1 .. Len(tq) : tq[i] = c
      BY <2>1
    <3> DEFINE p == u + Len(tq) - i + 1
    <3>1. Back(c, p) = c
      BY <1>3
    <3>2. n >= i /\ n >= Len(tq) /\ u + n <= NTxFrames
      BY <1>1, <1>2, <1>b
    <3>4. p \in Int /\ p >= 1 /\ p <= u + n
      BY <1>1, <1>2, <3>2
    <3> HIDE DEF p
    <3>3. p \in 1 .. NTxFrames
      BY <1>2, <3>2, <3>4, TxConstants
    <3> QED BY <3>1, <3>3, <3>4
  <2>2. CASE c \in dev
    <3> DEFINE p == u + Len(tq) + 1
    <3>1. Back(c, p) = c
      BY <1>3, <2>2
    <3>2. Cardinality(dev) = 1
      BY <1>4, <2>2
    <3>3. p \in 1 .. NTxFrames /\ p <= u + n
      BY <1>1, <1>2, <1>b, <3>2, TxConstants
    <3> QED BY <3>1, <3>3
  <2>3. CASE \E i \in 1 .. Len(cq) : cq[i] = c
    <3> PICK i \in 1 .. Len(cq) : cq[i] = c
      BY <2>3
    <3> DEFINE p == u + n - i + 1
    <3>1. Back(c, p) = c
      BY <1>3
    <3>2. n >= i /\ n >= Len(tq) /\ u + n <= NTxFrames
      BY <1>1, <1>2, <1>b
    <3>4. p \in Int /\ p >= 1 /\ p <= u + n
      BY <1>1, <1>2, <3>2
    <3> HIDE DEF p
    <3>3. p \in 1 .. NTxFrames
      BY <1>2, <3>2, <3>4, TxConstants
    <3> QED BY <3>1, <3>3, <3>4
  <2> QED BY <2>1, <2>2, <2>3 DEF Holds
<1>6. u + n >= NTxFrames
  BY <1>2, <1>5, BackIs, TxConstants
<1>7. PICK k \in 1 .. NTxFrames : f = Back(c, k)
  BY BackIs
<1>8. CASE k <= u
  <2>1. k \in 1 .. u /\ f = (c - k + NTxFrames) % NTxFrames
    BY <1>7, <1>8, BackIs
  <2> QED BY <2>1
<1>9. CASE k > u /\ k <= u + Len(tq)
  <2> DEFINE i == u + Len(tq) + 1 - k
  <2>1. i \in 1 .. Len(tq) /\ u + Len(tq) - i + 1 = k
    BY <1>1, <1>9
  <2>2. tq[i] = f
    BY <1>3, <1>7, <2>1, ZenonT(30)
  <2> QED BY <2>1, <2>2 DEF Holds
<1>10. CASE k = u + Len(tq) + 1 /\ Cardinality(dev) = 1
  <2>1. PICK g \in dev : TRUE
    BY <1>4, <1>10
  <2> QED BY <1>3, <1>7, <1>10, <2>1 DEF Holds
<1>11. CASE k > u + Len(tq) + Cardinality(dev)
  <2> DEFINE i == u + n + 1 - k
  <2>0. n = k - u - 1 + i /\ n >= NTxFrames - u /\ i \in Int
    BY <1>2, <1>6, TxConstants
  <2>3. Cardinality(dev) \in Int /\ NTxFrames \in Int /\ k <= NTxFrames
    BY <1>1, TxConstants
  <2> HIDE DEF i
  <2>4. i <= Len(cq)
    <3>1. Len(tq) \in Int /\ Len(cq) \in Int /\ n \in Int /\ u \in Int /\ k \in Int
      BY <1>1, <1>2
    <3>2. k >= u + Len(tq) + Cardinality(dev) + 1
      BY <1>11, <2>3, <3>1
    <3> QED BY <1>2, <2>0, <2>3, <3>1, <3>2
  <2>5. i >= 1
    BY <1>2, <2>0, <2>3
  <2>1. i \in 1 .. Len(cq) /\ u + n - i + 1 = k
    BY <1>1, <1>2, <2>0, <2>4, <2>5
  <2>2. cq[i] = f
    BY <1>3, <1>7, <2>1
  <2> QED BY <2>1, <2>2 DEF Holds
<1> QED BY <1>1, <1>8, <1>9, <1>10, <1>11 DEF Holds

\* In a closed circle that is not all one batch the frame at the cursor is
\* the oldest one the kernel owns.
LEMMA CircleOldest ==
  ASSUME NEW c \in Frames, NEW u \in Nat, NEW tq \in Seq(Frames), NEW dev,
         NEW cq \in Seq(Frames), CircleOf(c, u, tq, dev, cq),
         u + OwnedBy(tq, dev, cq) = NTxFrames, OwnedBy(tq, dev, cq) # 0
  PROVE  Holds(tq, dev, cq, c)
<1> DEFINE n == OwnedBy(tq, dev, cq)
<1>1. Len(tq) \in Nat /\ Len(cq) \in Nat /\ IsFiniteSet(dev) /\ Cardinality(dev) \in {0, 1}
  BY DEF CircleOf
<1>2. n \in Nat /\ n = Len(tq) + Cardinality(dev) + Len(cq) /\ n # 0 /\ u + n = NTxFrames
  BY <1>1 DEF OwnedBy
<1>3. /\ \A i \in 1 .. Len(tq) : tq[i] = Back(c, u + Len(tq) - i + 1)
      /\ \A g \in dev : g = Back(c, u + Len(tq) + 1)
      /\ \A i \in 1 .. Len(cq) : cq[i] = Back(c, u + n - i + 1)
  BY DEF CircleOf
<1> HIDE DEF n
<1>4. Back(c, NTxFrames) = c
  BY TxConstants, BackIs
<1>5. CASE Len(cq) > 0
  <2>1. 1 \in 1 .. Len(cq) /\ u + n - 1 + 1 = NTxFrames
    BY <1>1, <1>2, <1>5
  <2>2. cq[1] = Back(c, u + n - 1 + 1)
    BY <1>3, <2>1
  <2>3. cq[1] = c
    BY <1>4, <2>1, <2>2
  <2> QED BY <2>1, <2>3 DEF Holds
<1>6. CASE Len(cq) = 0 /\ Cardinality(dev) = 1
  <2>1. PICK g \in dev : TRUE
    BY <1>1, <1>6, FS_EmptySet
  <2>2. u + Len(tq) + 1 = NTxFrames
    BY <1>1, <1>2, <1>6
  <2> QED BY <1>3, <1>4, <2>1, <2>2 DEF Holds
<1>7. CASE Len(cq) = 0 /\ Cardinality(dev) = 0
  <2>1. 1 \in 1 .. Len(tq) /\ u + Len(tq) - 1 + 1 = NTxFrames
    BY <1>1, <1>2, <1>7
  <2>2. tq[1] = Back(c, u + Len(tq) - 1 + 1)
    BY <1>3, <2>1
  <2>3. tq[1] = c
    BY <1>4, <2>1, <2>2
  <2> QED BY <2>1, <2>3 DEF Holds
<1> QED BY <1>1, <1>5, <1>6, <1>7 DEF Holds
-----------------------------------------------------------------------------
(* The steps                                                               *)

\* A step that moves neither a frame nor a packet.
LEMMA OrderSame ==
  ASSUME OrderInv, OwnInv', Flow',
         UNCHANGED <<status, tx_cursor, cur_batch_size, outstanding_tx_frames, pkts_tx,
                     pkts_tx_completed, submitted, umem, next_pkt, txq, compq, inflight, wire>>,
         result' = "NoFreeTxFrames" => result = "NoFreeTxFrames"
  PROVE  OrderInv'
<1>1. Unsent' = Unsent
  BY DEF Unsent
<1>2. Counts'
  BY DEF OrderInv, Counts, OwnedBy
<1>3. ASSUME InOrder PROVE InOrder'
  BY <1>1, <1>3 DEF InOrder, Back
<1>4. ASSUME Circle PROVE Circle'
  BY <1>1, <1>4 DEF Circle
<1>5. ASSUME NoFreeFramesIsTrue PROVE NoFreeFramesIsTrue'
  BY <1>5 DEF NoFreeFramesIsTrue, Pending
<1> QED BY <1>2, <1>3, <1>4, <1>5 DEF OrderInv

\* Accepting a packet appends it to the packets in the frames before the
\* cursor, and leaves those on the tx ring alone.
LEMMA AcceptInOrder ==
  ASSUME OwnInv, OwnInv', InOrder, pc = "idle", ~submitted, ~submitted',
         NEW k \in Consumable, CompleteFrames(k), Accept(UpdateTxFrames(k)),
         UNCHANGED <<txq, inflight, wire>>
  PROVE  InOrder'
<1>1. /\ tx_cursor \in Frames /\ cur_batch_size \in Nat /\ next_pkt \in Nat
      /\ umem \in [Frames -> Nat] /\ txq \in Seq(Frames) /\ wire \in Seq(Nat)
      /\ Len(txq) \in Nat /\ Len(wire) \in Nat
  BY DEF OwnInv, TypeInv, TxTypeOK
<1>2. /\ umem' = [umem EXCEPT ![tx_cursor] = next_pkt] /\ next_pkt' = next_pkt + 1
      /\ tx_cursor' = NextCursor(tx_cursor) /\ cur_batch_size' = cur_batch_size + 1
  BY DEF Accept, WriteToUmem
<1>3. Unsent = cur_batch_size /\ Unsent' = cur_batch_size + 1
  BY <1>2 DEF Unsent
<1>4. /\ Len(wire) + Len(txq) + cur_batch_size = next_pkt - 1
      /\ \A i \in 1 .. Len(wire) : wire[i] = i
      /\ \A i \in 1 .. Len(txq) : umem[txq[i]] = Len(wire) + i
      /\ \A j \in 1 .. cur_batch_size :
           j <= NTxFrames => umem[Back(tx_cursor, j)] = next_pkt - j
  BY <1>3 DEF InOrder
<1>5. Len(wire') + Len(txq') + Unsent' = next_pkt' - 1
  BY <1>1, <1>2, <1>3, <1>4
<1>6. ASSUME NEW i \in 1 .. Len(txq) PROVE umem'[txq[i]] = umem[txq[i]]
  <2>1. txq[i] \in Frames /\ KernelOwned(txq[i])'
    BY <1>1 DEF KernelOwned, OnTxRing
  <2> QED BY <2>1, SendWrites
<1>7. ASSUME NEW j \in 1 .. Unsent', j <= NTxFrames
      PROVE  umem'[Back(tx_cursor', j)] = next_pkt' - j
  <2>1. j \in 1 .. NTxFrames
    BY <1>1, <1>3, <1>7, TxConstants
  <2>2. Back(tx_cursor', j) = IF j = 1 THEN tx_cursor ELSE Back(tx_cursor, j - 1)
    BY <1>1, <1>2, <2>1, BackNext
  <2>3. CASE j = 1
    BY <1>1, <1>2, <2>2, <2>3
  <2>4. CASE j # 1
    <3> DEFINE m == j - 1
    <3>1. m \in 1 .. cur_batch_size /\ m \in 1 .. NTxFrames /\ m # NTxFrames
          /\ next_pkt - m = next_pkt' - j
      BY <1>1, <1>2, <1>3, <2>1, <2>4, TxConstants
    <3>2. Back(tx_cursor', j) = Back(tx_cursor, m)
      BY <2>2, <2>4
    <3> HIDE DEF m
    <3>3. Back(tx_cursor, m) \in Frames /\ Back(tx_cursor, m) # tx_cursor
      BY <1>1, <3>1, BackIs
    <3>4. umem[Back(tx_cursor, m)] = next_pkt - m
      BY <1>4, <3>1
    <3> QED BY <1>1, <1>2, <3>1, <3>2, <3>3, <3>4, ZenonT(30)
  <2> QED BY <2>3, <2>4
<1> QED BY <1>4, <1>5, <1>6, <1>7 DEF InOrder

\* A send, whatever its outcome.
LEMMA SendOrder ==
  ASSUME OrderInv, OwnInv', pc = "idle", NEW k \in Consumable, CompleteFrames(k),
         Reject(UpdateTxFrames(k)) \/ Accept(UpdateTxFrames(k))
           \/ RefuseLongData(UpdateTxFrames(k)),
         UNCHANGED <<pkts_tx, draining, submitted, txq, kernelVars>>
  PROVE  OrderInv'
<1> DEFINE st == UpdateTxFrames(k)
<1>1. /\ OwnInv /\ Counts /\ Flow /\ ~submitted /\ ~submitted' /\ ~draining
      /\ UNCHANGED <<pkts_tx, draining, txq, inflight, wire>>
      /\ tx_cursor \in Frames /\ cur_batch_size \in Nat /\ txq \in Seq(Frames)
      /\ compq \in Seq(Frames) /\ inflight \in SUBSET Frames
      /\ st \in [Frames -> Statuses] /\ k \in 0 .. Len(compq)
  BY CompleteFramesType, Zenon
     DEF OrderInv, Flow, OwnInv, TypeInv, TxTypeOK, PutRange, kernelVars, Consumable
<1>2. Counts'
  BY <1>1, CountsComplete
<1>3. \A f \in Frames : st[f] = "OnTxQueue" <=> KernelOwned(f)'
  <2>1. Submitting = {}
    BY DEF Submitting
  <2>2. \A f \in Frames : st[f] = "OnTxQueue" <=> (KernelOwned(f)' \/ f \in Submitting)
    BY <1>1, CompleteFramesOwn
  <2> QED BY <2>1, <2>2
<1>4. Unsent = cur_batch_size /\ Unsent' = cur_batch_size'
  BY <1>1 DEF Unsent
<1>5. compq' \in Seq(Frames) /\ compq' = SubSeq(compq, k + 1, Len(compq))
  BY CompleteFramesType, <1>1 DEF CompleteFrames, OwnInv, TypeInv
<1>6. Circle => CircleOf(tx_cursor, cur_batch_size, txq, inflight, compq')
  BY <1>1, <1>4, <1>5, CircleComplete, ZenonT(30) DEF Circle
<1>7. \A f \in Frames : KernelOwned(f)' <=> Holds(txq, inflight, compq', f)
  BY <1>1 DEF KernelOwned, OnTxRing, OnCompRing, Holds
<1>c. PICK c \in Frames : c = tx_cursor
  BY <1>1
<1> HIDE DEF st
<1>8. ASSUME status' = st, pc' \in {"idle", "write_panic"},
             UNCHANGED <<tx_cursor, cur_batch_size, umem, next_pkt>>
      PROVE  /\ InOrder => InOrder'
             /\ Circle => Circle'
  <2>1. Unsent' = Unsent
    BY <1>4, <1>8
  <2>2. InOrder => InOrder'
    BY <1>1, <1>8, <2>1 DEF InOrder, Back
  <2>3. Circle => Circle'
    BY <1>1, <1>4, <1>6, <1>8 DEF Circle
  <2> QED BY <2>2, <2>3
<1>9. CASE Reject(st)
  <2>1. /\ status' = st /\ pc' = "idle" /\ st[tx_cursor] # "Free"
        /\ UNCHANGED <<tx_cursor, cur_batch_size, umem, next_pkt>>
    BY <1>9 DEF Reject, IsFree, dataVars
  <2>2. Flow'
    BY <1>1, <2>1 DEF Flow
  <2>3. Circle => NoFreeFramesIsTrue'
    <3> SUFFICES ASSUME Circle, NEW f \in Frames, f \notin Pending'
                 PROVE  status'[f] # "Free"
      BY DEF NoFreeFramesIsTrue
    <3>1. KernelOwned(c)'
      BY <1>1, <1>3, <1>c, <2>1 DEF Statuses
    <3>2. Holds(txq, inflight, compq', tx_cursor)
      BY <1>7, <1>c, <3>1
    <3>6. CircleOf(tx_cursor, cur_batch_size, txq, inflight, compq')
      BY <1>6
    <3>3. \/ \E j \in 1 .. cur_batch_size : f = (tx_cursor - j + NTxFrames) % NTxFrames
          \/ Holds(txq, inflight, compq', f)
      BY <1>1, <1>5, <3>2, <3>6, CircleClosed, Zenon
    <3>4. ~ \E j \in 1 .. cur_batch_size : f = (tx_cursor - j + NTxFrames) % NTxFrames
      BY <2>1 DEF Pending
    <3>5. KernelOwned(f)'
      BY <1>7, <3>3, <3>4
    <3> QED BY <1>3, <2>1, <3>5
  <2> QED BY <1>2, <1>8, <2>1, <2>2, <2>3 DEF OrderInv
<1>10. CASE RefuseLongData(st)
  <2>1. /\ status' = st /\ pc' = "write_panic" /\ result' = "none"
        /\ UNCHANGED <<tx_cursor, cur_batch_size, umem, next_pkt>>
    BY <1>10 DEF RefuseLongData, dataVars
  <2>2. Flow' /\ NoFreeFramesIsTrue'
    BY <2>1 DEF Flow, NoFreeFramesIsTrue
  <2> QED BY <1>2, <1>8, <2>1, <2>2 DEF OrderInv
<1>11. CASE Accept(st)
  <2>1. /\ tx_cursor' = NextCursor(tx_cursor) /\ cur_batch_size' = cur_batch_size + 1
        /\ st[tx_cursor] = "Free" /\ result' = "ok"
    BY <1>11, ZenonT(30) DEF Accept, IsFree
  <2>2. pc' \in {"idle", "produce", "range_panic"}
    BY <1>1, <1>11 DEF Accept, PutBatch
  <2>3. Flow' /\ NoFreeFramesIsTrue'
    BY <1>1, <2>1, <2>2 DEF Flow, NoFreeFramesIsTrue
  <2>4. InOrder => InOrder'
    BY <1>1, <1>11, AcceptInOrder DEF st
  <2>5. Circle => Circle'
    <3> SUFFICES ASSUME Circle PROVE Circle'
      OBVIOUS
    <3> DEFINE n == OwnedBy(txq, inflight, compq')
    <3>1. CircleOf(tx_cursor, cur_batch_size, txq, inflight, compq')
      BY <1>6, ZenonT(30)
    <3>2. n \in Nat /\ (cur_batch_size + n <= NTxFrames \/ n = 0)
      BY <1>1, <1>5, <3>1 DEF CircleOf, OwnedBy
    <3>3. ~KernelOwned(c)'
      BY <1>3, <1>c, <2>1
    <3>4. ~(cur_batch_size + n = NTxFrames /\ n # 0)
      <4> SUFFICES ASSUME cur_batch_size + n = NTxFrames, n # 0 PROVE FALSE
        OBVIOUS
      <4>1. Holds(txq, inflight, compq', tx_cursor)
        BY <1>1, <1>5, <3>1, CircleOldest, Zenon
      <4> QED BY <1>7, <1>c, <3>3, <4>1
    <3>5. cur_batch_size + n < NTxFrames \/ n = 0
      BY <1>1, <3>2, <3>4, TxConstants
    <3>6. CircleOf(NextCursor(tx_cursor), cur_batch_size + 1, txq, inflight, compq')
      BY <1>1, <1>5, <3>1, <3>5, CircleAccept, Zenon
    <3> QED BY <1>1, <1>4, <2>1, <3>6 DEF Circle
  <2> QED BY <1>2, <2>3, <2>4, <2>5, ZenonT(30) DEF OrderInv
<1> QED BY <1>9, <1>10, <1>11 DEF st

\* TxQueue::produce appends the packets of the batch to those on the tx ring.
LEMMA ProduceOrder ==
  ASSUME OrderInv, OwnInv', Produce PROVE OrderInv'
<1> DEFINE b == Batch(tx_cursor, cur_batch_size)
<1>1. /\ OwnInv /\ Counts /\ Flow /\ ~submitted /\ pc = "produce" /\ pc' = "wakeup"
      /\ tx_cursor \in Frames /\ cur_batch_size \in Nat /\ txq \in Seq(Frames)
      /\ compq \in Seq(Frames) /\ inflight \in SUBSET Frames /\ wire \in Seq(Nat)
      /\ BatchStart(tx_cursor, cur_batch_size) >= 0
      /\ outstanding_tx_frames \in Nat /\ next_pkt \in Nat
      /\ Len(txq) \in Nat /\ Len(compq) \in Nat /\ Len(wire) \in Nat
  BY DEF Produce, OrderInv, OwnInv, TypeInv, TxTypeOK, PutRange, Putting
<1>2. UNCHANGED <<status, tx_cursor, cur_batch_size, outstanding_tx_frames, pkts_tx,
                  pkts_tx_completed, draining, result, umem, next_pkt, compq, inflight, wire>>
  BY DEF Produce, statVars, dataVars, kernelVars
<1>3. Flow' /\ result # "NoFreeTxFrames"
  BY <1>1, <1>2 DEF Flow
<1>4. CASE txq' = txq /\ submitted' = submitted
  BY <1>2, <1>3, <1>4, OrderSame
<1>5. CASE txq' = txq \o b /\ submitted' = TRUE
  <2>1. b \in Seq(Frames) /\ Len(b) = cur_batch_size
    BY <1>1, BatchRange
  <2>2. /\ cur_batch_size <= NTxFrames
        /\ \A i \in 1 .. cur_batch_size : b[i] = Back(tx_cursor, cur_batch_size - i + 1)
    BY <1>1, BatchBack
  <2>3. Unsent = cur_batch_size /\ Unsent' = 0
    BY <1>1, <1>5 DEF Unsent
  <2>4. Circle => Circle'
    <3>1. Circle => CircleOf(tx_cursor, 0, txq \o b, inflight, compq)
      BY <1>1, <2>3, CirclePut DEF Circle
    <3> QED BY <1>2, <1>5, <2>3, <3>1 DEF Circle
  <2> HIDE DEF b
  <2>5. Len(txq') = Len(txq) + cur_batch_size
    <3>1. Len(txq \o b) = Len(txq) + Len(b)
      BY <1>1, <2>1, ConcatProperties, Zenon
    <3> QED BY <1>5, <2>1, <3>1
  <2>6. Counts'
    <3>1. Cardinality(inflight) \in Nat
      BY <1>1, OwnedBound
    <3>2. outstanding_tx_frames = Len(txq) + Cardinality(inflight) + Len(compq)
      BY <1>1 DEF Counts, OwnedBy
    <3>3. outstanding_tx_frames + cur_batch_size
            = Len(txq') + Cardinality(inflight) + Len(compq)
      BY <1>1, <2>5, <3>1, <3>2
    <3> QED BY <1>1, <1>2, <1>5, <3>3 DEF Counts, OwnedBy
  <2>7. /\ \A i \in 1 .. Len(txq) : txq'[i] = txq[i]
        /\ \A i \in 1 .. cur_batch_size : txq'[Len(txq) + i] = b[i]
    BY <1>1, <1>5, <2>1
  <2>8. ASSUME InOrder PROVE InOrder'
    <3>1. /\ Len(wire) + Len(txq) + cur_batch_size = next_pkt - 1
          /\ \A i \in 1 .. Len(txq) : umem[txq[i]] = Len(wire) + i
          /\ \A j \in 1 .. cur_batch_size :
               j <= NTxFrames => umem[Back(tx_cursor, j)] = next_pkt - j
      BY <2>3, <2>8 DEF InOrder
    <3>2. ASSUME NEW i \in 1 .. Len(txq') PROVE umem[txq'[i]] = Len(wire) + i
      <4>1. CASE i \in 1 .. Len(txq)
        BY <2>7, <3>1, <4>1
      <4>2. CASE i > Len(txq)
        <5> DEFINE m == i - Len(txq)
                   j == cur_batch_size - m + 1
        <5>1. m \in 1 .. cur_batch_size /\ Len(txq) + m = i
          BY <1>1, <2>5, <4>2
        <5> HIDE DEF m
        <5>2. j \in 1 .. cur_batch_size /\ j <= NTxFrames
          BY <1>1, <2>2, <5>1, TxConstants
        <5>a. next_pkt = Len(wire) + Len(txq) + cur_batch_size + 1
          BY <1>1, <3>1
        <5>b. Len(wire) \in Int /\ Len(txq) \in Int /\ cur_batch_size \in Int /\ m \in Int
          BY <1>1, <5>1
        <5>c. next_pkt - j = Len(wire) + (Len(txq) + m)
          BY <5>a, <5>b
        <5>3. next_pkt - j = Len(wire) + i
          BY <5>1, <5>c
        <5>4. txq'[Len(txq) + m] = Back(tx_cursor, j)
          BY <2>2, <2>7, <5>1
        <5> HIDE DEF j
        <5>5. umem[Back(tx_cursor, j)] = next_pkt - j
          BY <3>1, <5>2
        <5> QED BY <5>1, <5>3, <5>4, <5>5
      <4> QED BY <1>1, <2>5, <4>1, <4>2
    <3>3. Len(wire) + Len(txq') + 0 = next_pkt - 1
      BY <1>1, <2>5, <3>1
    <3> QED BY <1>2, <2>3, <2>8, <3>2, <3>3 DEF InOrder
  <2>9. NoFreeFramesIsTrue'
    BY <1>2, <1>3 DEF NoFreeFramesIsTrue
  <2> QED BY <1>3, <2>4, <2>6, <2>8, <2>9 DEF OrderInv
<1> QED BY <1>4, <1>5, Zenon DEF Produce

\* The count follows when put_batch_on_tx_queue leaves its loop.
LEMMA ReturnOrder ==
  ASSUME OrderInv, OwnInv', ProduceReturn PROVE OrderInv'
<1>1. /\ OwnInv /\ Counts /\ Flow /\ pc = "wakeup" /\ cur_batch_size \in Nat
      /\ outstanding_tx_frames \in Nat /\ pkts_tx \in Nat /\ pkts_tx_completed \in Nat
      /\ submitted \in BOOLEAN
  BY DEF ProduceReturn, OrderInv, OwnInv, TypeInv, TxTypeOK
<1>2. UNCHANGED <<status, tx_cursor, pkts_tx_completed, draining, result, umem, next_pkt,
                  txq, compq, inflight, wire>>
  BY DEF ProduceReturn, dataVars, ringVars
<1>3. result # "NoFreeTxFrames"
  BY <1>1 DEF Flow
<1>4. CASE submitted
  <2>1. /\ pkts_tx' = pkts_tx + cur_batch_size
        /\ outstanding_tx_frames' = outstanding_tx_frames + cur_batch_size
        /\ cur_batch_size' = 0 /\ submitted' = FALSE
        /\ pc' = IF draining THEN "drain_check" ELSE "idle"
    BY <1>4 DEF ProduceReturn
  <2>2. Unsent = 0 /\ Unsent' = 0
    BY <1>4, <2>1 DEF Unsent
  <2>3. Flow'
    BY <1>2, <1>3, <2>1 DEF Flow
  <2>4. Counts'
    <3>1. /\ outstanding_tx_frames + cur_batch_size = OwnedBy(txq, inflight, compq)
          /\ pkts_tx = pkts_tx_completed + outstanding_tx_frames
      BY <1>1, <1>4 DEF Counts
    <3>2. outstanding_tx_frames' + 0 = OwnedBy(txq, inflight, compq)
      BY <1>1, <2>1, <3>1
    <3>3. pkts_tx' = pkts_tx_completed' + outstanding_tx_frames'
      BY <1>1, <1>2, <2>1, <3>1
    <3> QED BY <1>2, <2>1, <3>2, <3>3 DEF Counts
  <2>5. InOrder => InOrder'
    BY <1>2, <2>2 DEF InOrder
  <2>6. Circle => Circle'
    BY <1>2, <2>2 DEF Circle
  <2>7. NoFreeFramesIsTrue'
    BY <1>2, <1>3 DEF NoFreeFramesIsTrue
  <2> QED BY <2>3, <2>4, <2>5, <2>6, <2>7 DEF OrderInv
<1>5. CASE ~submitted
  <2>1. /\ UNCHANGED <<pkts_tx, outstanding_tx_frames, cur_batch_size, submitted>>
        /\ pc' = "produce"
    BY <1>5 DEF ProduceReturn
  <2>2. Flow'
    BY <1>2, <1>3, <2>1 DEF Flow
  <2> QED BY <1>2, <2>1, <2>2, OrderSame
<1> QED BY <1>4, <1>5

\* An iteration of drain completes frames and, if there is a batch, marks it.
LEMMA DrainIterOrder ==
  ASSUME OrderInv, OwnInv', DrainIter PROVE OrderInv'
<1>1. PICK k \in Consumable :
        CompleteFrames(k) /\ PutBatch(UpdateTxFrames(k), tx_cursor, cur_batch_size)
  BY DEF DrainIter
<1>2. /\ UNCHANGED <<tx_cursor, cur_batch_size, pkts_tx, draining, submitted, result, umem,
                     next_pkt, txq, inflight, wire>>
      /\ pc = "drain"
  BY DEF DrainIter, dataVars, kernelVars
<1>3. /\ OwnInv /\ Counts /\ Flow /\ ~submitted /\ tx_cursor \in Frames
      /\ cur_batch_size \in Nat /\ txq \in Seq(Frames) /\ compq \in Seq(Frames)
      /\ k \in 0 .. Len(compq)
  BY <1>2 DEF OrderInv, OwnInv, TypeInv, TxTypeOK, PutRange, Consumable
<1>4. Counts'
  BY <1>1, <1>2, <1>3, CountsComplete
<1>5. /\ pc' \in {"drain_check", "range_panic", "produce"}
      /\ pc' = "drain_check" => cur_batch_size' = 0
  BY <1>1, <1>2 DEF PutBatch
<1>6. Flow' /\ result # "NoFreeTxFrames"
  BY <1>2, <1>3, <1>5 DEF Flow
<1>7. Unsent' = Unsent /\ Unsent = cur_batch_size
  BY <1>2, <1>3, ZenonT(30) DEF Unsent
<1>8. InOrder => InOrder'
  BY <1>2, <1>7 DEF InOrder
<1>9. Circle => Circle'
  <2>1. compq' = SubSeq(compq, k + 1, Len(compq))
    BY <1>1 DEF CompleteFrames
  <2>2. Circle => CircleOf(tx_cursor, Unsent, txq, inflight, compq')
    BY <1>3, <1>7, <2>1, CircleComplete DEF Circle
  <2> QED BY <1>2, <1>7, <2>2 DEF Circle
<1>10. NoFreeFramesIsTrue'
  BY <1>2, <1>6 DEF NoFreeFramesIsTrue
<1> QED BY <1>4, <1>6, <1>8, <1>9, <1>10 DEF OrderInv

\* What the invariant says of the types of frames and packets.
LEMMA OwnTypes ==
  ASSUME OwnInv
  PROVE  /\ tx_cursor \in Frames /\ cur_batch_size \in Nat
         /\ txq \in Seq(Frames) /\ compq \in Seq(Frames) /\ inflight \in SUBSET Frames
         /\ wire \in Seq(Nat) /\ umem \in [Frames -> Nat] /\ next_pkt \in Nat
         /\ Len(txq) \in Nat /\ Len(compq) \in Nat /\ Len(wire) \in Nat
  BY DEF OwnInv, TypeInv, TxTypeOK

\* The kernel transmits the packet of the oldest frame on the tx ring.
LEMMA TransmitOrder ==
  ASSUME OrderInv, OwnInv', KTransmit PROVE OrderInv'
<1>b. OwnInv /\ Counts /\ Flow
  BY DEF OrderInv
<1>1. /\ OwnInv /\ Counts /\ Flow /\ tx_cursor \in Frames /\ cur_batch_size \in Nat
      /\ txq \in Seq(Frames) /\ compq \in Seq(Frames) /\ inflight \in SUBSET Frames
      /\ wire \in Seq(Nat) /\ umem \in [Frames -> Nat] /\ next_pkt \in Nat
      /\ Len(txq) \in Nat /\ Len(compq) \in Nat /\ Len(wire) \in Nat
  BY <1>b, OwnTypes, Zenon
<1>a. txq # <<>>
  BY DEF KTransmit
<1>2. /\ txq' = Tail(txq) /\ inflight' = inflight \cup {Head(txq)} /\ compq' = compq
      /\ wire' = Append(wire, umem[Head(txq)])
      /\ UNCHANGED <<status, tx_cursor, cur_batch_size, outstanding_tx_frames, pkts_tx,
                     pkts_tx_completed, pc, draining, submitted, result, umem, next_pkt>>
  BY DEF KTransmit, userVars, statVars, dataVars
<1>3. /\ Len(txq) >= 1 /\ Len(txq') = Len(txq) - 1 /\ Head(txq) = txq[1] /\ txq[1] \in Frames
      /\ \A i \in 1 .. Len(txq') : txq'[i] = txq[i + 1]
  BY <1>1, <1>2, <1>a, HeadTailProperties
<1>4. Unsent' = Unsent /\ Unsent \in Nat
  BY <1>1, <1>2 DEF Unsent
<1>5. Flow' /\ (NoFreeFramesIsTrue => NoFreeFramesIsTrue')
  BY <1>1, <1>2 DEF Flow, NoFreeFramesIsTrue, Pending
<1>6. Cardinality(inflight') = Cardinality(inflight) + 1 /\ Cardinality(inflight) \in Nat
  <2>1. IsFiniteSet(inflight) /\ Cardinality(inflight) \in Nat
    BY <1>1, OwnedBound
  <2>2. OnTxRing(txq[1])
    BY <1>1, <1>3 DEF OnTxRing
  <2>3. Head(txq) \notin inflight
    BY <1>1, <1>3, <2>2 DEF OwnInv, FrameOwnership
  <2> QED BY <1>2, <2>1, <2>3, FS_AddElement, Zenon
<1>7. Counts'
  <2>1. OwnedBy(txq', inflight', compq') = OwnedBy(txq, inflight, compq)
    BY <1>1, <1>2, <1>3, <1>6 DEF OwnedBy
  <2> QED BY <1>1, <1>2, <2>1, ZenonT(30) DEF Counts
<1>8. ASSUME InOrder PROVE InOrder'
  <2>1. /\ Len(wire) + Len(txq) + Unsent = next_pkt - 1
        /\ \A i \in 1 .. Len(wire) : wire[i] = i
        /\ \A i \in 1 .. Len(txq) : umem[txq[i]] = Len(wire) + i
        /\ \A j \in 1 .. Unsent : j <= NTxFrames => umem[Back(tx_cursor, j)] = next_pkt - j
    BY <1>8 DEF InOrder
  <2>2. umem[Head(txq)] = Len(wire) + 1
    BY <1>1, <1>3, <2>1
  <2>3. /\ Len(wire') = Len(wire) + 1 /\ wire'[Len(wire) + 1] = Len(wire) + 1
        /\ \A i \in 1 .. Len(wire) : wire'[i] = wire[i]
    BY <1>1, <1>2, <2>2, AppendProperties
  <2>4. ASSUME NEW i \in 1 .. Len(wire') PROVE wire'[i] = i
    <3>1. i \in 1 .. Len(wire) \/ i = Len(wire) + 1
      BY <1>1, <2>3
    <3> QED BY <2>1, <2>3, <3>1
  <2>5. Len(wire') + Len(txq') + Unsent' = next_pkt' - 1
    <3>1. (Len(wire) + 1) + (Len(txq) - 1) + Unsent = Len(wire) + Len(txq) + Unsent
      BY <1>1, <1>4
    <3> QED BY <1>2, <1>3, <1>4, <2>1, <2>3, <3>1, Zenon
  <2>6. ASSUME NEW i \in 1 .. Len(txq') PROVE umem'[txq'[i]] = Len(wire') + i
    <3>1. i + 1 \in 1 .. Len(txq) /\ Len(wire) + (i + 1) = Len(wire') + i
      BY <1>1, <1>3, <2>3
    <3>2. umem[txq[i + 1]] = Len(wire) + (i + 1)
      BY <2>1, <3>1
    <3> QED BY <1>2, <1>3, <3>1, <3>2
  <2>7. \A j \in 1 .. Unsent' : j <= NTxFrames => umem'[Back(tx_cursor', j)] = next_pkt' - j
    BY <1>2, <1>4, <2>1
  <2> QED BY <2>4, <2>5, <2>6, <2>7, ZenonT(30) DEF InOrder
<1>9. ASSUME MaxInFlight = 1, Circle PROVE Circle'
  <2>1. Cardinality(inflight) = 0
    BY <1>6, <1>9 DEF KTransmit
  <2>2. inflight = {}
    BY <1>1, <2>1, OwnedBound, FS_EmptySet
  <2>3. CircleOf(tx_cursor, Unsent, txq, {}, compq)
    BY <1>9, <2>2 DEF Circle
  <2>4. CircleOf(tx_cursor, Unsent, Tail(txq), {Head(txq)}, compq)
    BY <1>1, <1>4, <1>a, <2>3, CircleTransmit
  <2>5. inflight' = {Head(txq)}
    BY <1>2, <2>2
  <2> QED BY <1>2, <1>4, <2>4, <2>5, Zenon DEF Circle
<1> QED BY <1>5, <1>7, <1>8, <1>9 DEF OrderInv

\* The device puts a frame it is done with on the completion ring.
LEMMA CompleteOrder ==
  ASSUME OrderInv, OwnInv', NEW f \in Frames, KComplete(f) PROVE OrderInv'
<1>1. /\ OwnInv /\ Counts /\ Flow /\ tx_cursor \in Frames /\ cur_batch_size \in Nat
      /\ txq \in Seq(Frames) /\ compq \in Seq(Frames) /\ inflight \in SUBSET Frames
      /\ Len(txq) \in Nat /\ Len(compq) \in Nat /\ submitted \in BOOLEAN /\ f \in inflight
  BY DEF KComplete, OrderInv, OwnInv, TypeInv, TxTypeOK
<1>2. /\ inflight' = inflight \ {f} /\ compq' = Append(compq, f)
      /\ UNCHANGED <<status, tx_cursor, cur_batch_size, outstanding_tx_frames, pkts_tx,
                     pkts_tx_completed, pc, draining, submitted, result, umem, next_pkt,
                     txq, wire>>
  BY DEF KComplete, userVars, statVars, dataVars
<1>3. Unsent' = Unsent /\ Unsent \in Nat
  BY <1>1, <1>2 DEF Unsent
<1>4. Flow' /\ (NoFreeFramesIsTrue => NoFreeFramesIsTrue')
  BY <1>1, <1>2 DEF Flow, NoFreeFramesIsTrue, Pending
<1>5. IsFiniteSet(inflight) /\ Cardinality(inflight) \in Nat
  BY <1>1, OwnedBound
<1>6. Cardinality(inflight') = Cardinality(inflight) - 1
  BY <1>1, <1>2, <1>5, FS_RemoveElement, Zenon
<1>7. Counts'
  <2>1. Len(compq') = Len(compq) + 1
    BY <1>1, <1>2, AppendProperties
  <2>2. OwnedBy(txq', inflight', compq') = OwnedBy(txq, inflight, compq)
    <3>1. Len(txq) + (Cardinality(inflight) - 1) + (Len(compq) + 1)
            = Len(txq) + Cardinality(inflight) + Len(compq)
      BY <1>1, <1>5
    <3> QED BY <1>2, <1>6, <2>1, <3>1 DEF OwnedBy
  <2> QED BY <1>1, <1>2, <2>2, ZenonT(30) DEF Counts
<1>8. InOrder => InOrder'
  BY <1>2, <1>3 DEF InOrder
<1>9. Circle => Circle'
  <2> SUFFICES ASSUME Circle PROVE Circle'
    BY ZenonT(30)
  <2>1. Cardinality(inflight) \in {0, 1} /\ \A g \in inflight : g = Back(tx_cursor, Unsent + Len(txq) + 1)
    BY DEF Circle, CircleOf
  <2>2. inflight = {f} /\ inflight' = {}
    BY <1>1, <1>2, <2>1
  <2>3. CircleOf(tx_cursor, Unsent, txq, {f}, compq)
    BY <2>2 DEF Circle
  <2>4. CircleOf(tx_cursor, Unsent, txq, {}, Append(compq, f))
    BY <1>1, <1>3, <2>3, CircleReturn
  <2> QED BY <1>2, <1>3, <2>2, <2>4, Zenon DEF Circle
<1> QED BY <1>4, <1>7, <1>8, <1>9, ZenonT(30) DEF OrderInv

\* XskTx::new establishes the invariant.
LEMMA OrderInit == Init => OrderInv
<1> SUFFICES ASSUME Init PROVE OrderInv
  OBVIOUS
<1>1. OwnInv
  BY OwnInit
<1>2. /\ cur_batch_size = 0 /\ outstanding_tx_frames = 0 /\ pkts_tx = 0 /\ pkts_tx_completed = 0
      /\ pc = "idle" /\ draining = FALSE /\ submitted = FALSE /\ result = "none" /\ next_pkt = 1
      /\ txq = <<>> /\ compq = <<>> /\ inflight = {} /\ wire = <<>>
  BY DEF Init
<1>3. IsFiniteSet(inflight) /\ Cardinality(inflight) = 0 /\ Len(txq) = 0 /\ Len(compq) = 0
      /\ Len(wire) = 0 /\ Unsent = 0
  BY <1>2, FS_EmptySet DEF Unsent
<1>4. OwnedBy(txq, inflight, compq) = 0
  BY <1>3 DEF OwnedBy
<1>5. Counts /\ Flow /\ NoFreeFramesIsTrue
  BY <1>2, <1>4 DEF Counts, Flow, NoFreeFramesIsTrue
<1>6. InOrder
  BY <1>2, <1>3 DEF InOrder
<1>7. Circle
  BY <1>2, <1>3, <1>4 DEF Circle, CircleOf
<1> QED BY <1>1, <1>5, <1>6, <1>7 DEF OrderInv

\* Every call, loop iteration and kernel step keeps the invariant.
LEMMA OrderStep == OrderInv /\ [Next]_vars => OrderInv'
<1> SUFFICES ASSUME OrderInv, [Next]_vars PROVE OrderInv'
  OBVIOUS
<1>o. OwnInv /\ OwnInv' /\ Flow
  BY OwnStep DEF OrderInv
<1>1. CASE Send
  BY <1>o, <1>1, SendOrder DEF Send
<1>2. CASE SendApply
  BY <1>o, <1>2, SendOrder DEF SendApply
<1>3. CASE Prefill
  <2>1. /\ UNCHANGED <<status, tx_cursor, cur_batch_size, outstanding_tx_frames, pkts_tx,
                       pkts_tx_completed, draining, submitted, result, next_pkt, txq, compq,
                       inflight, wire>>
        /\ pc = "idle" /\ pc' \in {"idle", "write_panic"}
    BY <1>3 DEF Prefill, statVars, ringVars, kernelVars
  <2>2. Flow'
    BY <1>o, <2>1 DEF Flow
  <2>3. CASE UNCHANGED umem
    BY <1>o, <2>1, <2>2, <2>3, OrderSame
  <2>4. CASE umem' = [f \in Frames |-> 0]
    <3>1. Unsent' = Unsent
      BY <2>1 DEF Unsent
    <3>2. Counts'
      BY <2>1 DEF OrderInv, Counts
    <3>3. Circle => Circle'
      BY <2>1, <3>1 DEF Circle
    <3>4. NoFreeFramesIsTrue => NoFreeFramesIsTrue'
      BY <2>1, ZenonT(30) DEF NoFreeFramesIsTrue, Pending
    <3>5. ASSUME "prefill_midway" \notin Client, InOrder PROVE InOrder'
      <4>1. next_pkt = 1
        BY <1>3, <3>5 DEF Prefill
      <4>2. cur_batch_size = 0 /\ txq = <<>>
        BY <1>o, <4>1 DEF OwnInv, Fresh
      <4>3. Unsent = 0
        BY <4>2 DEF Unsent
      <4> QED BY <2>1, <3>1, <3>5, <4>2, <4>3 DEF InOrder
    <3> QED BY <1>o, <2>2, <3>2, <3>3, <3>4, <3>5, ZenonT(30) DEF OrderInv
  <2> QED BY <1>3, <2>3, <2>4 DEF Prefill
<1>4. CASE DrainCall
  <2>1. Flow' /\ result' # "NoFreeTxFrames"
    BY <1>o, <1>4 DEF DrainCall, Flow
  <2> QED BY <1>o, <1>4, <2>1, OrderSame DEF DrainCall, statVars, dataVars, ringVars, kernelVars
<1>5. CASE Produce
  BY <1>o, <1>5, ProduceOrder
<1>6. CASE NoWakeup \/ WakeupOk \/ WakeupSwallowed
  BY <1>o, <1>6, ReturnOrder DEF NoWakeup, WakeupOk, WakeupSwallowed
<1>7. CASE WakeupFatal
  <2>1. Flow'
    BY <1>o, <1>7, ZenonT(30) DEF WakeupFatal, Flow
  <2> QED BY <1>o, <1>7, <2>1, OrderSame DEF WakeupFatal, statVars, dataVars, ringVars, kernelVars
<1>8. CASE DrainIter
  BY <1>o, <1>8, DrainIterOrder
<1>9. CASE DrainCheck
  <2>1. Flow'
    BY <1>o, <1>9, Zenon DEF DrainCheck, Flow
  <2> QED BY <1>o, <1>9, <2>1, OrderSame DEF DrainCheck, statVars, dataVars, ringVars, kernelVars
<1>10. CASE KTransmit
  BY <1>o, <1>10, TransmitOrder
<1>11. CASE \E f \in Frames : KComplete(f)
  BY <1>o, <1>11, CompleteOrder
<1>12. CASE KSleep
  <2>1. Flow'
    BY <1>o, <1>12 DEF KSleep, userVars, Flow
  <2> QED BY <1>o, <1>12, <2>1, OrderSame DEF KSleep, userVars, statVars, dataVars, ringVars
<1>13. CASE UNCHANGED vars
  <2>1. Flow'
    BY <1>o, <1>13 DEF vars, Flow
  <2> QED BY <1>o, <1>13, <2>1, OrderSame DEF vars, statVars, dataVars, ringVars, kernelVars
<1> QED
  BY <1>1, <1>2, <1>3, <1>4, <1>5, <1>6, <1>7, <1>8, <1>9, <1>10, <1>11, <1>12, <1>13
     DEF Next, Calls, Loops, Kernel, Stopped

\* The invariant holds in every behaviour.
LEMMA OrderInvariant == Spec => []OrderInv
  BY OrderInit, OrderStep, PTL DEF Spec
-----------------------------------------------------------------------------
(* Theorems                                                                *)

\* outstanding_tx_frames and the stats count exactly the frames the kernel
\* owns, never more than there are, whatever the caller and the kernel do.
THEOREM TxOutstandingExact == Spec => []OutstandingExact
<1>1. OrderInv => OutstandingExact
  <2> SUFFICES ASSUME OrderInv PROVE OutstandingExact
    OBVIOUS
  <2>1. OwnInv /\ Counts
    BY DEF OrderInv
  <2>2. OwnedBy(txq, inflight, compq) <= NTxFrames
    BY <2>1, OwnedBound
  <2>3. /\ outstanding_tx_frames \in Nat /\ cur_batch_size \in Nat
        /\ submitted \in BOOLEAN
    BY <2>1 DEF OwnInv, TypeInv, TxTypeOK
  <2>4. outstanding_tx_frames <= NTxFrames
    <3>1. CASE submitted
      BY <2>1, <2>2, <2>3, <3>1, TxConstants DEF Counts
    <3>2. CASE ~submitted
      BY <2>1, <2>2, <2>3, <3>2, TxConstants DEF Counts
    <3> QED BY <3>1, <3>2
  <2> QED BY <2>1, <2>4 DEF OutstandingExact, Counts, OwnedBy
<1> QED BY <1>1, OrderInvariant, PTL

\* Over a device that completes in order send returns NoFreeTxFrames only
\* when every frame is the kernel's or holds a packet of the pending batch.
THEOREM TxNoFreeFramesIsTrue ==
  ASSUME MaxInFlight = 1 PROVE Spec => []NoFreeFramesIsTrue
<1>1. OrderInv => NoFreeFramesIsTrue
  BY DEF OrderInv
<1> QED BY <1>1, OrderInvariant, PTL

\* Unless the caller prefills after its first send, XskTx implements the
\* channel: it transmits every packet it accepts once, unchanged and in
\* order, and drain returns only when all are transmitted.
THEOREM TxIsChannel ==
  ASSUME "prefill_midway" \notin Client PROVE Spec => ChannelSpec
<1>1. Init => Channel!Init
  BY DEF Init, Channel!Init
<1>2. ASSUME OrderInv, [Next]_vars PROVE [Channel!Next]_(Channel!vars)
  <2>o. OwnInv /\ Flow /\ InOrder /\ Counts
    BY <1>2 DEF OrderInv
  <2>t. /\ next_pkt \in Nat /\ wire \in Seq(Nat) /\ Len(wire) \in Nat /\ Len(txq) \in Nat
        /\ txq \in Seq(Frames) /\ Unsent \in Nat
    BY <2>o DEF OwnInv, TypeInv, TxTypeOK, Unsent
  <2>s. ASSUME UNCHANGED <<next_pkt, draining, wire>> PROVE [Channel!Next]_(Channel!vars)
    BY <2>s DEF Channel!vars
  <2>a. ASSUME NEW k \in Consumable, pc = "idle",
               Reject(UpdateTxFrames(k)) \/ Accept(UpdateTxFrames(k))
                 \/ RefuseLongData(UpdateTxFrames(k)),
               UNCHANGED <<draining, wire>>
        PROVE  [Channel!Next]_(Channel!vars)
    <3>1. CASE next_pkt' = next_pkt
      BY <2>a, <2>s, <3>1
    <3>2. CASE Accept(UpdateTxFrames(k))
      <4>1. next_pkt' = next_pkt + 1 /\ ~draining
        BY <2>a, <2>o, <3>2 DEF Accept, Flow
      <4>2. Channel!Accept
        BY <2>a, <2>t, <4>1 DEF Channel!Accept
      <4> QED BY <4>2 DEF Channel!Next
    <3> QED BY <2>a, <3>1, <3>2 DEF Reject, RefuseLongData, dataVars
  <2>1. CASE Send
    BY <2>1, <2>a DEF Send, kernelVars
  <2>2. CASE SendApply
    BY <2>2, <2>a DEF SendApply, kernelVars
  <2>3. CASE Prefill
    BY <2>3, <2>s DEF Prefill, kernelVars
  <2>4. CASE DrainCall
    <3>1. Channel!BeginDrain
      BY <2>4, <2>o, ZenonT(30) DEF DrainCall, Flow, dataVars, kernelVars, Channel!BeginDrain
    <3> QED BY <3>1 DEF Channel!Next
  <2>5. CASE Produce \/ NoWakeup \/ WakeupOk \/ WakeupSwallowed \/ WakeupFatal \/ DrainIter
    BY <2>5, <2>s DEF Produce, NoWakeup, WakeupOk, WakeupSwallowed, WakeupFatal, ProduceReturn,
                      DrainIter, dataVars, kernelVars
  <2>6. CASE DrainCheck
    <3>1. UNCHANGED <<next_pkt, wire>> /\ pc = "drain_check"
      BY <2>6 DEF DrainCheck, dataVars, kernelVars
    <3>2. CASE UNCHANGED draining
      BY <2>s, <3>1, <3>2
    <3>3. CASE outstanding_tx_frames = 0 /\ draining' = FALSE
      <4>1. ~submitted /\ cur_batch_size = 0 /\ draining
        BY <2>o, <3>1 DEF Flow, OwnInv, TypeInv, PutRange
      <4>2. Cardinality(inflight) \in Nat /\ Len(compq) \in Nat
        BY <2>o, OwnedBound DEF OwnInv, TypeInv, TxTypeOK
      <4>3. Len(txq) = 0
        BY <2>o, <2>t, <3>3, <4>1, <4>2 DEF Counts, OwnedBy
      <4>4. Len(wire) = next_pkt - 1
        BY <2>o, <2>t, <4>1, <4>3 DEF InOrder, Unsent
      <4>5. Channel!EndDrain
        BY <3>1, <3>3, <4>1, <4>4 DEF Channel!EndDrain
      <4> QED BY <4>5 DEF Channel!Next
    <3> QED BY <2>6, <3>2, <3>3, Zenon DEF DrainCheck, DrainDone
  <2>7. CASE KTransmit
    <3>1. /\ UNCHANGED <<next_pkt, draining>> /\ txq # <<>>
          /\ wire' = Append(wire, umem[Head(txq)])
      BY <2>7 DEF KTransmit, userVars, dataVars
    <3>2. Len(txq) >= 1 /\ Head(txq) = txq[1]
      BY <2>t, <3>1, HeadTailProperties
    <3>3. umem[txq[1]] = Len(wire) + 1
      BY <2>o, <2>t, <3>2 DEF InOrder
    <3>4. Len(wire) < next_pkt - 1
      BY <2>o, <2>t, <3>2 DEF InOrder
    <3>5. Channel!Transmit
      BY <3>1, <3>2, <3>3, <3>4 DEF Channel!Transmit
    <3> QED BY <3>5 DEF Channel!Next
  <2>8. CASE (\E f \in Frames : KComplete(f)) \/ KSleep \/ UNCHANGED vars
    BY <2>8, <2>s DEF KComplete, KSleep, userVars, dataVars, vars, kernelVars
  <2> QED
    BY <1>2, <2>1, <2>2, <2>3, <2>4, <2>5, <2>6, <2>7, <2>8
       DEF Next, Calls, Loops, Kernel, Stopped
<1>3. OrderInv /\ [Next]_vars => [Channel!Next]_(Channel!vars)
  BY <1>2
<1> QED BY <1>1, <1>3, OrderInvariant, PTL DEF Spec, ChannelSpec, Channel!Spec
-----------------------------------------------------------------------------
(* The range of put_batch_on_tx_queue                                      *)

\* Batches that fill tx_frames evenly: the batch size divides the number of
\* frames, and only a caller with batches of one goes on sending after a
\* drain, which may cut a batch short.
EvenBatches ==
  /\ \E m \in Nat : NTxFrames = m * BatchSize
  /\ BatchSize = 1 \/ "drain_midway" \notin Client

\* The packets of the current batch are in the frames from q * BatchSize on.
Aligned(q) ==
  /\ q * BatchSize + BatchSize <= NTxFrames
  /\ \/ cur_batch_size < BatchSize /\ tx_cursor = q * BatchSize + cur_batch_size
     \/ /\ cur_batch_size = BatchSize /\ Putting
        /\ BatchEnd(tx_cursor) = q * BatchSize + BatchSize

\* Every batch starts at a multiple of the batch size, until the last drain.
AlignInv ==
  /\ pc # "range_panic"
  /\ (\E q \in Nat : Aligned(q)) \/ (cur_batch_size = 0 /\ next_pkt > MaxPkts)
  /\ Putting /\ ~draining => cur_batch_size = BatchSize
  /\ draining => next_pkt > MaxPkts \/ BatchSize = 1

\* The multiples of a batch size that divides the number of frames.
LEMMA EvenFacts ==
  ASSUME EvenBatches
  PROVE  /\ BatchSize \in Nat \ {0} /\ BatchSize <= NTxFrames
         /\ \A q \in Nat : q * BatchSize \in Nat
         /\ \A q \in Nat : q * BatchSize + BatchSize < NTxFrames
              => /\ (q + 1) * BatchSize = q * BatchSize + BatchSize
                 /\ (q + 1) * BatchSize + BatchSize <= NTxFrames
<1>1. PICK m \in Nat : NTxFrames = m * BatchSize
  BY DEF EvenBatches
<1>2. BatchSize \in Nat \ {0} /\ m # 0
  BY <1>1, TxConstants
<1>3. BatchSize <= NTxFrames
  BY <1>1, <1>2
<1>4. \A q \in Nat : q * BatchSize \in Nat
  BY <1>2
<1>5. ASSUME NEW q \in Nat, q * BatchSize + BatchSize < NTxFrames
      PROVE  /\ (q + 1) * BatchSize = q * BatchSize + BatchSize
             /\ (q + 1) * BatchSize + BatchSize <= NTxFrames
  <2>1. (q + 1) * BatchSize = q * BatchSize + BatchSize
    BY <1>2
  <2>2. q + 1 < m
    <3> SUFFICES ASSUME q + 1 >= m PROVE FALSE
      OBVIOUS
    <3>1. PICK d \in Nat : q + 1 = m + d
      <4>1. q + 1 - m \in Nat /\ q + 1 = m + (q + 1 - m)
        OBVIOUS
      <4> QED BY <4>1
    <3>2. (m + d) * BatchSize = m * BatchSize + d * BatchSize /\ d * BatchSize \in Nat
      BY <1>2
    <3> QED BY <1>1, <1>2, <1>5, <2>1, <3>1, <3>2
  <2>3. PICK d \in Nat : m = q + 2 + d
    <3>1. m - (q + 2) \in Nat /\ m = q + 2 + (m - (q + 2))
      BY <2>2
    <3> QED BY <3>1
  <2>4. /\ (q + 2 + d) * BatchSize = q * BatchSize + 2 * BatchSize + d * BatchSize
        /\ d * BatchSize \in Nat /\ q * BatchSize \in Nat
    BY <1>2
  <2> QED BY <1>1, <1>2, <2>1, <2>3, <2>4
<1> QED BY <1>2, <1>3, <1>4, <1>5

\* A send writes within the batch's stretch of frames, and the batch it
\* completes is that stretch.
LEMMA SendAligned ==
  ASSUME EvenBatches, OwnInv, Flow, AlignInv, pc = "idle", next_pkt <= MaxPkts,
         NEW st, Reject(st) \/ Accept(st) \/ RefuseLongData(st),
         UNCHANGED draining
  PROVE  AlignInv'
<1>1. /\ tx_cursor \in Frames /\ cur_batch_size \in Nat /\ next_pkt \in Nat /\ ~Putting
      /\ ~draining /\ NTxFrames \in Nat
  BY TxConstants DEF OwnInv, TypeInv, TxTypeOK, Putting, Flow
<1>2. PICK q \in Nat : Aligned(q)
  BY <1>1, TxConstants DEF AlignInv
<1>3. /\ q * BatchSize + BatchSize <= NTxFrames /\ cur_batch_size < BatchSize
      /\ tx_cursor = q * BatchSize + cur_batch_size
  BY <1>1, <1>2, EvenFacts DEF Aligned
<1>4. q * BatchSize \in Nat /\ BatchSize \in Nat \ {0}
  BY EvenFacts
<1>5. CASE Reject(st) \/ RefuseLongData(st)
  <2>1. UNCHANGED <<tx_cursor, cur_batch_size, next_pkt>> /\ pc' \in {"idle", "write_panic"}
    BY <1>5 DEF Reject, RefuseLongData, dataVars
  <2>2. Aligned(q)'
    BY <1>3, <2>1 DEF Aligned
  <2> QED BY <1>1, <2>1, <2>2 DEF AlignInv, Putting
<1>6. CASE Accept(st)
  <2> DEFINE x == q * BatchSize
  <2>0. /\ tx_cursor' = NextCursor(tx_cursor) /\ cur_batch_size' = cur_batch_size + 1
        /\ next_pkt' = next_pkt + 1 /\ ~draining'
    BY <1>1, <1>6 DEF Accept
  <2>1. NextCursor(tx_cursor) = IF tx_cursor = NTxFrames - 1 THEN 0 ELSE tx_cursor + 1
    BY <1>1, NextCursorValue
  <2>2. x \in Nat /\ x + BatchSize <= NTxFrames /\ tx_cursor = x + cur_batch_size
    BY <1>3, <1>4
  <2>3. CASE cur_batch_size + 1 = BatchSize
    <3>1. PutBatch(st, NextCursor(tx_cursor), cur_batch_size + 1)
      BY <1>6, <2>3 DEF Accept
    <3> HIDE DEF x
    <3>2. BatchEnd(tx_cursor') = x + BatchSize /\ BatchEnd(NextCursor(tx_cursor)) = x + BatchSize
      BY <1>1, <1>4, <2>0, <2>1, <2>2, <2>3 DEF BatchEnd
    <3>3. BatchStart(NextCursor(tx_cursor), cur_batch_size + 1) = x
      BY <1>1, <1>4, <2>2, <2>3, <3>2 DEF BatchStart
    <3>4. pc' = "produce"
      BY <1>1, <2>2, <3>1, <3>3 DEF PutBatch
    <3>5. Aligned(q)'
      BY <2>0, <2>2, <2>3, <3>2, <3>4, ZenonT(30) DEF Aligned, Putting, x
    <3> QED BY <2>0, <2>3, <3>4, <3>5, ZenonT(30) DEF AlignInv
  <2>4. CASE cur_batch_size + 1 # BatchSize
    <3>1. pc' = "idle"
      BY <1>6, <2>4 DEF Accept
    <3> HIDE DEF x
    <3>2. cur_batch_size' < BatchSize /\ tx_cursor' = x + cur_batch_size'
      BY <1>1, <1>3, <1>4, <2>0, <2>1, <2>2, <2>4
    <3>3. Aligned(q)'
      BY <2>2, <3>2 DEF Aligned, x
    <3> QED BY <2>0, <3>1, <3>3, ZenonT(30) DEF AlignInv, Putting
  <2> QED BY <2>3, <2>4
<1> QED BY <1>5, <1>6

\* Initially the cursor is at the first batch.
LEMMA AlignInit == ASSUME EvenBatches PROVE Init => AlignInv
<1> SUFFICES ASSUME Init PROVE AlignInv
  OBVIOUS
<1>1. /\ tx_cursor = 0 /\ cur_batch_size = 0 /\ pc = "idle" /\ draining = FALSE
  BY DEF Init
<1>2. Aligned(0)
  <2>1. BatchSize \in Nat \ {0} /\ BatchSize <= NTxFrames
    BY EvenFacts
  <2>2. 0 * BatchSize + BatchSize <= NTxFrames /\ 0 < BatchSize /\ 0 = 0 * BatchSize + 0
    BY <2>1
  <2> QED BY <1>1, <2>2 DEF Aligned
<1> QED BY <1>1, <1>2 DEF AlignInv, Putting

\* Every step keeps the batches aligned.
LEMMA AlignStep ==
  ASSUME EvenBatches PROVE OrderInv /\ AlignInv /\ [Next]_vars => AlignInv'
<1> SUFFICES ASSUME OrderInv, AlignInv, [Next]_vars PROVE AlignInv'
  OBVIOUS
<1>o. OwnInv /\ Flow /\ BatchSize \in Nat \ {0}
  BY EvenFacts DEF OrderInv
<1>t. /\ tx_cursor \in Frames /\ cur_batch_size \in Nat /\ next_pkt \in Nat /\ MaxPkts \in Nat
      /\ (Putting => cur_batch_size > 0) /\ NTxFrames \in Nat
  BY <1>o, TxConstants DEF OwnInv, TypeInv, TxTypeOK, PutRange
<1>s. ASSUME UNCHANGED <<tx_cursor, cur_batch_size, next_pkt>>, pc' # "range_panic",
             Putting => Putting', Putting' /\ ~draining' => cur_batch_size = BatchSize,
             draining' => next_pkt > MaxPkts \/ BatchSize = 1
      PROVE  AlignInv'
  <2>1. ASSUME NEW q \in Nat, Aligned(q) PROVE Aligned(q)'
    BY <1>s, <2>1 DEF Aligned, BatchEnd
  <2> QED BY <1>s, <2>1 DEF AlignInv
<1>1. CASE Send
  BY <1>o, <1>1, SendAligned DEF Send
<1>2. CASE SendApply
  BY <1>o, <1>2, SendAligned, ZenonT(30) DEF SendApply
<1>3. CASE Prefill
  BY <1>3, <1>s DEF Prefill, Putting, AlignInv
<1>4. CASE DrainCall
  BY <1>4, <1>s, ZenonT(30) DEF DrainCall, Putting, dataVars, EvenBatches
<1>5. CASE Produce
  BY <1>5, <1>s DEF Produce, Putting, dataVars, AlignInv
<1>r. ASSUME ProduceReturn PROVE AlignInv'
  <2>1. pc = "wakeup" /\ Putting /\ UNCHANGED <<tx_cursor, draining, next_pkt>>
    BY <1>r, ZenonT(30) DEF ProduceReturn, Putting, dataVars
  <2>2. CASE ~submitted
    BY <1>r, <1>s, <2>1, <2>2 DEF ProduceReturn, Putting, AlignInv
  <2>3. CASE submitted
    <3>1. cur_batch_size' = 0 /\ pc' \in {"idle", "drain_check"} /\ ~Putting'
      BY <1>r, <2>3 DEF ProduceReturn, Putting
    <3>2. CASE next_pkt > MaxPkts
      BY <2>1, <3>1, <3>2 DEF AlignInv
    <3>3. CASE ~(next_pkt > MaxPkts)
      <4>1. cur_batch_size = BatchSize
        <5>1. PICK q \in Nat : Aligned(q)
          BY <3>3 DEF AlignInv
        <5>2. cur_batch_size <= BatchSize
          BY <1>o, <1>t, <5>1 DEF Aligned
        <5>3. CASE draining
          BY <1>o, <1>t, <2>1, <3>3, <5>2, <5>3 DEF AlignInv
        <5>4. CASE ~draining
          BY <2>1, <5>4 DEF AlignInv
        <5> QED BY <5>3, <5>4
      <4>2. PICK q \in Nat : Aligned(q)
        BY <3>3 DEF AlignInv
      <4>3. BatchEnd(tx_cursor) = q * BatchSize + BatchSize
        BY <1>o, <4>1, <4>2 DEF Aligned
      <4>4. \E p \in Nat : Aligned(p)'
        <5>1. CASE tx_cursor = 0
          <6>3. BatchSize <= NTxFrames
            BY EvenFacts
          <6>1. 0 * BatchSize + BatchSize <= NTxFrames /\ 0 < BatchSize /\ 0 = 0 * BatchSize + 0
            BY <1>o, <6>3
          <6>2. Aligned(0)'
            BY <2>1, <3>1, <5>1, <6>1 DEF Aligned
          <6> QED BY <6>2
        <5>2. CASE tx_cursor # 0
          <6>1. tx_cursor = q * BatchSize + BatchSize /\ tx_cursor < NTxFrames
            BY <1>t, <4>3, <5>2 DEF BatchEnd, Frames
          <6>2. /\ (q + 1) * BatchSize = q * BatchSize + BatchSize
                /\ (q + 1) * BatchSize + BatchSize <= NTxFrames
            BY <6>1, EvenFacts
          <6>3. tx_cursor = (q + 1) * BatchSize + 0 /\ 0 < BatchSize
            BY <1>o, <1>t, <6>1, <6>2
          <6> DEFINE p == q + 1
          <6>4. p \in Nat
            OBVIOUS
          <6>5. p * BatchSize + BatchSize <= NTxFrames /\ tx_cursor = p * BatchSize + 0
            BY <6>2, <6>3
          <6> HIDE DEF p
          <6>6. Aligned(p)'
            BY <2>1, <3>1, <6>3, <6>5 DEF Aligned
          <6> QED BY <6>4, <6>6
        <5> QED BY <5>1, <5>2
      <4> QED BY <2>1, <3>1, <4>4 DEF AlignInv
    <3> QED BY <3>2, <3>3
  <2> QED BY <2>2, <2>3
<1>6. CASE NoWakeup \/ WakeupOk \/ WakeupSwallowed
  BY <1>6, <1>r, ZenonT(30) DEF NoWakeup, WakeupOk, WakeupSwallowed
<1>7. CASE WakeupFatal
  BY <1>7, <1>s DEF WakeupFatal, Putting, dataVars, AlignInv
<1>8. CASE DrainIter
  <2>1. PICK st : PutBatch(st, tx_cursor, cur_batch_size)
    BY <1>8 DEF DrainIter
  <2>2. /\ UNCHANGED <<tx_cursor, cur_batch_size, draining, next_pkt>> /\ pc = "drain"
        /\ ~Putting /\ draining
    BY <1>o, <1>8 DEF DrainIter, dataVars, Putting, Flow
  <2>3. ASSUME cur_batch_size > 0 PROVE BatchStart(tx_cursor, cur_batch_size) >= 0
    <3>1. PICK q \in Nat : Aligned(q)
      BY <2>3, <1>t DEF AlignInv
    <3>2. tx_cursor = q * BatchSize + cur_batch_size
      BY <1>o, <2>2, <3>1 DEF Aligned
    <3>3. q * BatchSize \in Nat
      BY EvenFacts
    <3>4. BatchEnd(tx_cursor) = tx_cursor
      BY <1>t, <2>3, <3>2, <3>3 DEF BatchEnd
    <3> QED BY <1>t, <3>2, <3>3, <3>4 DEF BatchStart
  <2>4. pc' # "range_panic"
    <3>1. CASE cur_batch_size = 0
      BY <2>1, <3>1 DEF PutBatch
    <3>2. CASE cur_batch_size > 0
      <4>1. ~(BatchStart(tx_cursor, cur_batch_size) < 0)
        <5>1. BatchStart(tx_cursor, cur_batch_size) \in Int
          BY <1>t DEF BatchStart, BatchEnd, Frames
        <5> QED BY <2>3, <3>2, <5>1
      <4> QED BY <1>t, <2>1, <3>2, <4>1 DEF PutBatch
    <3> QED BY <1>t, <3>1, <3>2
  <2> QED BY <1>s, <2>2, <2>4 DEF AlignInv
<1>9. CASE DrainCheck
  BY <1>9, <1>s DEF DrainCheck, Putting, dataVars, AlignInv
<1>10. CASE Kernel
  BY <1>10, <1>s DEF Kernel, KTransmit, KComplete, KSleep, userVars, Putting, dataVars, AlignInv
<1>11. CASE UNCHANGED vars
  BY <1>11, <1>s DEF vars, Putting, dataVars, AlignInv
<1> QED
  BY <1>1, <1>2, <1>3, <1>4, <1>5, <1>6, <1>7, <1>8, <1>9, <1>10, <1>11
     DEF Next, Calls, Loops, Stopped

\* With a batch size that divides the number of frames, and no send after a
\* drain unless batches are of one packet, the range of
\* put_batch_on_tx_queue never starts below zero.
THEOREM TxNoRangePanic == ASSUME EvenBatches PROVE Spec => []NoRangePanic
<1>1. AlignInv => NoRangePanic
  BY DEF AlignInv, NoRangePanic
<1> QED BY <1>1, AlignInit, AlignStep, OrderInvariant, PTL DEF Spec
=============================================================================
