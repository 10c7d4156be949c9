----------------------------- MODULE XskRxOrder -----------------------------
(***************************************************************************)
(* Further theorems about XskRx: refilling never waits, and the user       *)
(* thread keeps the order of its frames and packets too, so that XskRx     *)
(* implements the channel of module RxChannel.                             *)
(***************************************************************************)
EXTENDS XskRxProofs, XskRxChannel

\* A leaf that names no prover is tried with SMT, with Zenon, and with SMT
\* again, given more time.
USE SMT, Zenon, SMTT(30), SMTT(40)

-----------------------------------------------------------------------------
(* The steps of the user thread                                            *)

\* Frames go back to the fill ring: the steps of the user thread other than
\* those that read the rx ring.
LEMMA RefillBatchOrder ==
  ASSUME RxInv, RxOrderInv, RefillBatch \/ RefillPanic PROVE RxOrderInv'
<1>1. /\ UNCHANGED <<client, in_order, status, rx_cursor, result, umem, rxq, held, arrived>>
      /\ fillq' = fillq \o processed /\ processed' = <<>>
      /\ (pc = "refill_batch" /\ pc' = "idle") \/ pc' \in Panics
  BY DEF RefillBatch, RefillPanic, FillProduce, setting, Panics
<1>2. RxTypeOK
  BY DEF RxInv
<1>3. Filled' = Filled /\ RxFrames' = RxFrames /\ OnlyRecv' = OnlyRecv
  BY <1>1 DEF Filled, RxFrames, OnlyRecv
<1>4. Starved'
  BY <1>1, <1>3 DEF RxOrderInv, Starved
<1>5. \A f \in Frames : umem'[f] <= arrived'
  BY <1>1 DEF RxOrderInv
<1>6. "recv" \notin client' => Filled' = {}
  BY <1>1, <1>3 DEF RxOrderInv
<1>7. Numbered => Numbered'
  BY <1>1, <1>3 DEF Numbered
<1>8. ~OnlyRecv \/ pc' \in Panics
  BY <1>1 DEF RxOrderInv, Returned, Panics
<1>9. pc \in Panics => pc' \in Panics
  BY <1>1 DEF Panics
<1> QED BY <1>1, <1>3, <1>4, <1>5, <1>6, <1>7, <1>8, <1>9 DEF RxOrderInv

\* recv gives the frame at the cursor back: it is now the last of the circle.
LEMMA RefillCircle ==
  ASSUME RxInv, Refill, Circle, NRxFrames <= FillQueueSize PROVE Circle'
<1> DEFINE c == rx_cursor
           k == NFilled
<1>1. RxTypeOK /\ Accounted /\ Processing /\ pc = "refill"
  BY DEF RxInv, Refill, Panics
<1>2. /\ NFilled \in Int /\ Len(rxq) \in Nat /\ Len(held) \in Nat /\ Len(fillq) \in Nat
      /\ rx_cursor \in Frames /\ NRxFrames \in Nat \ {0} /\ n_frames_to_be_filled \in Nat
  <2>1. n_frames_to_be_filled \in Nat
    BY <1>1 DEF RxTypeOK
  <2> QED BY <1>1, <2>1, CircleNumbers
<1>3. processed = <<c>> /\ c \in Filled
  BY <1>1 DEF Processing
<1>4. /\ fillq' = fillq \o processed /\ rxq' = rxq /\ held' = held /\ umem' = umem
      /\ n_frames_to_be_filled' = n_frames_to_be_filled + 1
      /\ rx_cursor' = NextCursor(c) /\ status' = [status EXCEPT ![c] = "Free"]
  BY DEF Refill, FillProduce
<1>5. k >= 1 /\ k + Len(rxq) + Len(held) + Len(fillq) = NRxFrames
  <2>1. \E j \in 0 .. k - 1 : c = At(c, j)
    BY <1>2, <1>3 DEF Circle
  <2>2. k >= 1
    BY <1>2, <2>1
  <2>3. n_frames_to_be_filled = Len(fillq) + Len(held) + Len(rxq)
    BY <1>1 DEF Accounted
  <2> QED BY <1>2, <2>2, <2>3 DEF NFilled
<1>6. NFilled' = k - 1 /\ k - 1 \in Int
  BY <1>2, <1>4 DEF NFilled
<1>7. /\ NextCursor(c) \in Frames
      /\ \A j \in 0 .. NRxFrames - 2 : At(NextCursor(c), j) = At(c, j + 1)
      /\ At(NextCursor(c), NRxFrames - 1) = c
  BY <1>2, AtNext
<1>8. Filled' = Filled \ {c}
  BY <1>1, <1>2, <1>4 DEF Filled, RxTypeOK
<1>9. Len(fillq') = Len(fillq) + 1 /\ fillq'[Len(fillq) + 1] = c
      /\ \A i \in 1 .. Len(fillq) : fillq'[i] = fillq[i]
  <2>1. fillq \in Seq(Frames) /\ fillq' = fillq \o <<c>>
    BY <1>1, <1>3, <1>4 DEF RxTypeOK
  <2> QED BY <1>2, <2>1
<1>10. \A j \in 0 .. NRxFrames - 1 :
          /\ At(c, j) \in Frames /\ At(c, 0) = c
          /\ \A i \in 0 .. NRxFrames - 1 : At(c, i) = At(c, j) => i = j
  BY <1>2, AtFrame
<1> HIDE DEF c, k
<1>11. ASSUME NEW f \in Frames
       PROVE  f \in Filled' <=> \E j \in 0 .. NFilled' - 1 : f = At(rx_cursor', j)
  <2>1. f \in Filled <=> \E j \in 0 .. k - 1 : f = At(c, j)
    BY DEF Circle, c, k
  <2>2. k \in Int /\ k >= 1 /\ k <= NRxFrames
    BY <1>2, <1>5 DEF k
  <2>3. ASSUME f \in Filled' PROVE \E j \in 0 .. NFilled' - 1 : f = At(rx_cursor', j)
    <3>1. PICK j \in 0 .. k - 1 : f = At(c, j)
      BY <1>8, <2>1, <2>3
    <3>2. j # 0
      <4>1. At(c, 0) = c /\ f # c
        BY <1>2, <1>8, <1>10, <2>3
      <4> QED BY <3>1, <4>1
    <3>3. j - 1 \in 0 .. (k - 1) - 1 /\ j - 1 \in 0 .. NRxFrames - 2 /\ (j - 1) + 1 = j
      BY <1>2, <2>2, <3>2
    <3>4. f = At(rx_cursor', j - 1)
      BY <1>4, <1>7, <3>1, <3>3
    <3> QED BY <1>6, <3>3, <3>4
  <2>4. ASSUME NEW j \in 0 .. NFilled' - 1, f = At(rx_cursor', j) PROVE f \in Filled'
    <3>1. /\ j \in 0 .. NRxFrames - 2 /\ j + 1 \in 0 .. k - 1 /\ j + 1 \in 0 .. NRxFrames - 1
          /\ 0 \in 0 .. NRxFrames - 1 /\ j + 1 # 0
      BY <1>2, <1>6, <2>2
    <3>2. f = At(c, j + 1)
      BY <1>4, <1>7, <2>4, <3>1
    <3>3. f # c
      BY <1>10, <3>1, <3>2
    <3> QED BY <1>8, <2>1, <3>1, <3>2, <3>3
  <2> QED BY <2>3, <2>4
<1>12. ASSUME NEW j \in Int, k + j >= 1, k + j < NRxFrames
       PROVE  At(rx_cursor', (k - 1) + j) = At(c, k + j)
  <2>1. (k - 1) + j \in 0 .. NRxFrames - 2 /\ ((k - 1) + j) + 1 = k + j
    BY <1>2, <1>6, <1>12 DEF k
  <2> QED BY <1>4, <1>7, <2>1
<1>13. ASSUME NEW i \in 1 .. Len(rxq')
       PROVE  rxq'[i].frame = At(rx_cursor', NFilled' + i - 1)
  <2>1. rxq[i].frame = At(c, NFilled + i - 1)
    BY <1>4 DEF Circle, c
  <2>2. /\ NFilled + i - 1 = k + (i - 1) /\ NFilled' + i - 1 = (k - 1) + (i - 1)
        /\ i - 1 \in Int /\ k + (i - 1) >= 1 /\ k + (i - 1) < NRxFrames
    BY <1>2, <1>4, <1>5, <1>6 DEF k
  <2> QED BY <1>4, <1>12, <2>1, <2>2
<1>14. ASSUME NEW i \in 1 .. Len(held')
       PROVE  held'[i] = At(rx_cursor', NFilled' + Len(rxq') + i - 1)
  <2> DEFINE j == Len(rxq) + (i - 1)
  <2>1. held[i] = At(c, NFilled + Len(rxq) + i - 1)
    BY <1>4 DEF Circle, c
  <2>2. /\ NFilled + Len(rxq) + i - 1 = k + j /\ NFilled' + Len(rxq') + i - 1 = (k - 1) + j
        /\ j \in Int /\ k + j >= 1 /\ k + j < NRxFrames
    BY <1>2, <1>4, <1>5, <1>6 DEF k
  <2> HIDE DEF j
  <2> QED BY <1>4, <1>12, <2>1, <2>2
<1>15. ASSUME NEW i \in 1 .. Len(fillq')
       PROVE  fillq'[i] = At(rx_cursor', NFilled' + Len(rxq') + Len(held') + i - 1)
  <2> DEFINE j == Len(rxq) + Len(held) + (i - 1)
  <2>1. i \in 1 .. Len(fillq) \/ i = Len(fillq) + 1
    BY <1>2, <1>9
  <2>2. NFilled' + Len(rxq') + Len(held') + i - 1 = (k - 1) + j /\ j \in Int
    BY <1>2, <1>4, <1>6 DEF k
  <2>3. CASE i \in 1 .. Len(fillq)
    <3>1. fillq[i] = At(c, NFilled + Len(rxq) + Len(held) + i - 1)
      BY <2>3 DEF Circle, c
    <3>2. /\ NFilled + Len(rxq) + Len(held) + i - 1 = k + j
          /\ k + j >= 1 /\ k + j < NRxFrames
      BY <1>2, <1>5, <2>3 DEF k
    <3> HIDE DEF j
    <3> QED BY <1>9, <1>12, <2>2, <2>3, <3>1, <3>2
  <2>4. CASE i = Len(fillq) + 1
    <3>1. (k - 1) + j = NRxFrames - 1
      BY <1>2, <1>5, <2>4 DEF k
    <3> QED BY <1>4, <1>7, <1>9, <2>2, <2>4, <3>1
  <2> QED BY <2>1, <2>3, <2>4
<1>16. ASSUME NEW i \in 0 .. NFilled' + Len(rxq') - 1, NEW j \in 0 .. NFilled' + Len(rxq') - 1,
              i < j
       PROVE  umem'[At(rx_cursor', i)] < umem'[At(rx_cursor', j)]
  <2>1. \A x \in 0 .. NFilled' + Len(rxq') - 1 :
          /\ x + 1 \in 0 .. NFilled + Len(rxq) - 1 /\ x \in 0 .. NRxFrames - 2
    BY <1>2, <1>4, <1>5, <1>6 DEF k
  <2>2. /\ i + 1 \in 0 .. NFilled + Len(rxq) - 1 /\ j + 1 \in 0 .. NFilled + Len(rxq) - 1
        /\ At(rx_cursor', i) = At(c, i + 1) /\ At(rx_cursor', j) = At(c, j + 1)
    BY <1>4, <1>7, <2>1
  <2>3. i + 1 < j + 1
    BY <1>16
  <2>4. umem[At(c, i + 1)] < umem[At(c, j + 1)]
    BY <2>2, <2>3 DEF Circle, c
  <2> QED BY <1>4, <2>2, <2>4
<1>17. NFilled' >= 0
  BY <1>2, <1>5, <1>6 DEF k
<1> QED BY <1>11, <1>13, <1>14, <1>15, <1>16, <1>17 DEF Circle

\* recv returns: it has a result, and the frame is no longer Filled.
LEMMA RefillOrder == ASSUME RxInv, RxOrderInv, Refill PROVE RxOrderInv'
<1>1. /\ UNCHANGED <<client, in_order, result, umem, rxq, held, arrived>>
      /\ pc = "refill" /\ pc' = "idle" /\ pc \notin Panics
  BY DEF Refill, setting, Panics
<1>2. RxTypeOK /\ Processing
  BY <1>1 DEF RxInv
<1>3. rx_cursor \in Filled
  BY <1>1, <1>2 DEF Processing
<1>4. Filled' = Filled \ {rx_cursor}
  BY <1>2 DEF Refill, Filled, RxTypeOK
<1>5. RxFrames' = RxFrames /\ OnlyRecv' = OnlyRecv
  BY <1>1 DEF RxFrames, OnlyRecv
<1>6. Starved'
  BY <1>3 DEF RxOrderInv, Starved
<1>7. \A f \in Frames : umem'[f] <= arrived'
  BY <1>1 DEF RxOrderInv
<1>8. "recv" \notin client' => Filled' = {}
  BY <1>1, <1>4 DEF RxOrderInv
<1>9. Numbered'
  <2>1. Numbered
    BY <1>1 DEF RxOrderInv
  <2> QED BY <1>1, <1>4, <1>5, <2>1 DEF Numbered
<1>10. ASSUME OnlyRecv PROVE Returned' /\ (NRxFrames <= FillQueueSize => Circle')
  <2>1. Returned /\ (NRxFrames <= FillQueueSize => Circle)
    BY <1>1, <1>10 DEF RxOrderInv
  <2>2. result > 0 /\ result \in Nat
    BY <1>1, <1>2, <2>1 DEF Returned, RxTypeOK
  <2>3. Returned'
    BY <1>1, <2>2 DEF Returned
  <2> QED BY <2>1, <2>3, RefillCircle
<1> QED BY <1>1, <1>5, <1>6, <1>7, <1>8, <1>9, <1>10 DEF RxOrderInv

\* The packets that a call has not read are in order, and no packet is in two
\* frames, whether the frames read become Filled or not.
LEMMA ReadNumbered ==
  ASSUME RxInv, pc = "idle", Numbered, NEW n \in 0 .. Len(rxq), PollAndConsume(n), umem' = umem,
         Filled' \subseteq Filled \cup Range(SubSeq(RxFrames, 1, n))
  PROVE  Numbered'
<1> DEFINE got == SubSeq(RxFrames, 1, n)
<1>1. /\ n \in Nat /\ Len(rxq) \in Nat /\ n <= Len(rxq) /\ Len(rxq') = Len(rxq) - n
      /\ \A i \in 1 .. Len(rxq') : n + i \in 1 .. Len(rxq) /\ rxq'[i] = rxq[n + i]
      /\ \A f : f \in Range(got) <=> \E i \in 1 .. n : f = rxq[i].frame
      /\ Range(RxFrames) = Range(got) \cup Range(RxFrames')
  BY Consumes
<1> HIDE DEF got
<1>2. \A i \in 1 .. Len(rxq) : umem[rxq[i].frame] = rxq[i].len
  BY DEF RxInv, Panics, LengthsRight
<1>3. \A i \in 1 .. Len(rxq') : 0 < rxq'[i].len
  BY <1>1, Zenon DEF Numbered
<1>4. ASSUME NEW i \in 1 .. Len(rxq'), NEW j \in 1 .. Len(rxq'), i < j
      PROVE  rxq'[i].len < rxq'[j].len
  <2>1. n + i < n + j
    <3>1. n \in Nat /\ i \in Int /\ j \in Int /\ i < j
      BY <1>1, <1>4
    <3> QED BY <3>1
  <2>2. \A x, y \in 1 .. Len(rxq) : x < y => rxq[x].len < rxq[y].len
    BY DEF Numbered
  <2>3. /\ n + i \in 1 .. Len(rxq) /\ rxq'[i] = rxq[n + i]
        /\ n + j \in 1 .. Len(rxq) /\ rxq'[j] = rxq[n + j]
    BY <1>1
  <2> QED BY <2>1, <2>2, <2>3, ZenonT(30)
<1>5. ASSUME NEW f \in Range(got) PROVE 0 < umem[f]
  <2>1. PICK i \in 1 .. n : f = rxq[i].frame
    BY <1>1
  <2>2. i \in 1 .. Len(rxq)
    BY <1>1
  <2> QED BY <1>2, <2>1, <2>2 DEF Numbered
<1>6. Filled' \subseteq Filled \cup Range(got)
  BY DEF got
<1>7. \A f \in Filled' : 0 < umem'[f]
  BY <1>5, <1>6 DEF Numbered
<1>8. \A f, g \in Filled' \cup Range(RxFrames') : umem'[f] = umem'[g] => f = g
  BY <1>1, <1>6 DEF Numbered
<1> QED BY <1>3, <1>4, <1>7, <1>8 DEF Numbered

\* recv_apply reads packets and leaves the status of their frames alone.
LEMMA RecvApplyOrder == ASSUME RxInv, RxOrderInv, RecvApply PROVE RxOrderInv'
<1>1. PICK n \in 0 .. Len(rxq) :
        /\ PollAndConsume(n)
        /\ processed' = processed \o [i \in 1 .. n |-> rxq[i].frame]
        /\ pc' = IF n > 0 THEN "refill_batch" ELSE "idle"
  BY Zenon DEF RecvApply
<1>2. /\ UNCHANGED <<client, in_order, status, umem, fillq, held, arrived>>
      /\ pc = "idle" /\ pc \notin Panics /\ "recv_apply" \in client
  BY DEF RecvApply, setting, Panics
<1>3. RxTypeOK /\ processed = <<>>
  BY <1>2 DEF RxInv, Processing
<1>4. Filled' = Filled /\ ~OnlyRecv'
  BY <1>2 DEF Filled, OnlyRecv
<1>5. Starved'
  <2> SUFFICES ASSUME NRxFrames > FillQueueSize
               PROVE  /\ fillq' = <<>> /\ held' = <<>> /\ rxq' = <<>>
                      /\ processed' = <<>> /\ Filled' = {}
    BY DEF Starved
  <2>1. fillq = <<>> /\ held = <<>> /\ rxq = <<>> /\ Filled = {}
    BY DEF RxOrderInv, Starved
  <2>2. n = 0 /\ rxq' = SubSeq(rxq, n + 1, Len(rxq))
    BY <1>1, <2>1 DEF PollAndConsume
  <2>3. rxq' = <<>>
    BY <2>1, <2>2
  <2>4. processed' = <<>>
    <3>1. [i \in 1 .. n |-> rxq[i].frame] = <<>>
      BY <2>2
    <3> QED BY <1>1, <1>3, <3>1
  <2> QED BY <1>2, <1>4, <2>1, <2>3, <2>4
<1>6. \A f \in Frames : umem'[f] <= arrived'
  BY <1>2 DEF RxOrderInv
<1>7. "recv" \notin client' => Filled' = {}
  BY <1>2, <1>4 DEF RxOrderInv
<1>8. Numbered'
  <2>1. Numbered
    BY <1>2 DEF RxOrderInv
  <2> QED BY <1>1, <1>2, <1>4, <2>1, ReadNumbered
<1> QED BY <1>4, <1>5, <1>6, <1>7, <1>8 DEF RxOrderInv

\* The frames that recv reads from the ring are the next in the circle.
LEMMA ReadCircle ==
  ASSUME RxInv, pc = "idle", Circle, NEW n \in 0 .. Len(rxq), PollAndConsume(n),
         UNCHANGED <<umem, fillq, held, rx_cursor>>,
         Filled' = Filled \cup Range(SubSeq(RxFrames, 1, n))
  PROVE  Circle'
<1> DEFINE got == SubSeq(RxFrames, 1, n)
<1>1. /\ n \in Nat /\ Len(rxq) \in Nat /\ n <= Len(rxq) /\ Len(rxq') = Len(rxq) - n
      /\ \A i \in 1 .. Len(rxq') : n + i \in 1 .. Len(rxq) /\ rxq'[i] = rxq[n + i]
      /\ \A f : f \in Range(got) <=> \E i \in 1 .. n : f = rxq[i].frame
      /\ n_frames_to_be_filled' = n_frames_to_be_filled - n
  BY Consumes, Zenon
<1> HIDE DEF got
<1>2. /\ NFilled \in Int /\ Len(held) \in Nat /\ Len(fillq) \in Nat
      /\ NRxFrames \in Nat /\ n_frames_to_be_filled \in Nat
  <2>1. RxTypeOK
    BY DEF RxInv
  <2>2. n_frames_to_be_filled \in Nat
    BY <2>1 DEF RxTypeOK
  <2> QED BY <2>1, <2>2, CircleNumbers
<1>3. NFilled' = NFilled + n /\ NFilled' + Len(rxq') = NFilled + Len(rxq)
  BY <1>1, <1>2 DEF NFilled
<1>4. NFilled >= 0 /\ NFilled' >= 0
  <2>1. NFilled >= 0
    BY DEF Circle
  <2> QED BY <1>1, <1>2, <1>3, <2>1
<1>5. ASSUME NEW f \in Frames
      PROVE  f \in Filled' <=> \E j \in 0 .. NFilled' - 1 : f = At(rx_cursor', j)
  <2>1. f \in Filled' <=> f \in Filled \/ f \in Range(got)
    BY DEF got
  <2>2. f \in Filled <=> \E j \in 0 .. NFilled - 1 : f = At(rx_cursor, j)
    BY DEF Circle
  <2>3. f \in Range(got) <=> \E i \in 1 .. n : f = At(rx_cursor, NFilled + i - 1)
    <3>1. \A i \in 1 .. n : i \in 1 .. Len(rxq)
      BY <1>1
    <3>2. \A i \in 1 .. n : rxq[i].frame = At(rx_cursor, NFilled + i - 1)
      BY <3>1 DEF Circle
    <3>3. f \in Range(got) <=> \E i \in 1 .. n : f = rxq[i].frame
      BY <1>1
    <3> QED BY <3>2, <3>3, Zenon
  <2>4. ASSUME f \in Filled' PROVE \E j \in 0 .. NFilled' - 1 : f = At(rx_cursor', j)
    <3>1. CASE f \in Filled
      <4>1. PICK j \in 0 .. NFilled - 1 : f = At(rx_cursor, j)
        BY <2>2, <3>1
      <4>2. NFilled \in Int /\ NFilled' = NFilled + n /\ n \in Nat
        BY <1>1, <1>2, <1>3
      <4>3. j \in 0 .. NFilled' - 1
        BY <4>2
      <4> QED BY <4>1, <4>3
    <3>2. CASE f \in Range(got)
      <4>1. PICK i \in 1 .. n : f = At(rx_cursor, NFilled + i - 1)
        BY <2>3, <3>2
      <4>2. NFilled + i - 1 \in 0 .. NFilled' - 1
        BY <1>1, <1>2, <1>3, <1>4
      <4> QED BY <4>1, <4>2
    <3> QED BY <2>1, <2>4, <3>1, <3>2
  <2>5. ASSUME NEW j \in 0 .. NFilled' - 1, f = At(rx_cursor', j) PROVE f \in Filled'
    <3>1. CASE j <= NFilled - 1
      <4>1. j \in 0 .. NFilled - 1
        BY <1>2, <1>3, <1>1, <3>1
      <4> QED BY <2>1, <2>2, <2>5, <4>1
    <3>2. CASE ~(j <= NFilled - 1)
      <4>1. j - NFilled + 1 \in 1 .. n /\ NFilled + (j - NFilled + 1) - 1 = j
        BY <1>1, <1>2, <1>3, <3>2
      <4> QED BY <2>1, <2>3, <2>5, <4>1
    <3> QED BY <3>1, <3>2
  <2> QED BY <2>4, <2>5
<1>6. ASSUME NEW i \in 1 .. Len(rxq')
      PROVE  rxq'[i].frame = At(rx_cursor', NFilled' + i - 1)
  <2>1. rxq[n + i].frame = At(rx_cursor, NFilled + (n + i) - 1)
    BY <1>1 DEF Circle
  <2>2. NFilled + (n + i) - 1 = NFilled' + i - 1
    BY <1>1, <1>2, <1>3
  <2> QED BY <1>1, <2>1, <2>2
<1>7. ASSUME NEW i \in 1 .. Len(held')
      PROVE  held'[i] = At(rx_cursor', NFilled' + Len(rxq') + i - 1)
  <2>1. held[i] = At(rx_cursor, NFilled + Len(rxq) + i - 1)
    BY DEF Circle
  <2> QED BY <1>3, <2>1
<1>8. ASSUME NEW i \in 1 .. Len(fillq')
      PROVE  fillq'[i] = At(rx_cursor', NFilled' + Len(rxq') + Len(held') + i - 1)
  <2>1. fillq[i] = At(rx_cursor, NFilled + Len(rxq) + Len(held) + i - 1)
    BY DEF Circle
  <2> QED BY <1>3, <2>1
<1>9. NFilled' + Len(rxq') - 1 = NFilled + Len(rxq) - 1
  BY <1>1, <1>2, <1>3
<1>10. \A i, j \in 0 .. NFilled' + Len(rxq') - 1 :
         i < j => umem'[At(rx_cursor', i)] < umem'[At(rx_cursor', j)]
  BY <1>9 DEF Circle
<1> QED BY <1>4, <1>5, <1>6, <1>7, <1>8, <1>10 DEF Circle

\* recv reads packets, their frames become Filled, and it takes the one at the
\* cursor.  If that is not Filled no frame is.
LEMMA RecvOrder == ASSUME RxInv, RxInv', RxOrderInv, Recv PROVE RxOrderInv'
<1>1. PICK n \in 0 .. Len(rxq) :
        /\ PollAndConsume(n) /\ status' = UpdatedStatus(n)
        /\ TakePacket(UpdatedStatus(n), UpdatedLen(n)) \/ NoPacket(UpdatedStatus(n))
  BY DEF Recv
<1>2. /\ UNCHANGED <<client, in_order, rx_cursor, umem, fillq, held, arrived>>
      /\ pc = "idle" /\ pc \notin Panics /\ "recv" \in client
  BY DEF Recv, setting, Panics
<1>3. RxTypeOK /\ RxTypeOK' /\ processed = <<>> /\ rx_cursor \in Frames
  BY <1>2, ZenonT(60) DEF RxInv, Processing, RxTypeOK
<1> DEFINE got == SubSeq(RxFrames, 1, n)
<1>4. /\ n \in Nat /\ Len(rxq) \in Nat /\ Len(rxq') = Len(rxq) - n
      /\ \A f : f \in Range(got) <=> \E i \in 1 .. n : f = rxq[i].frame
      /\ Range(got) \subseteq Frames
      /\ \A f \in Frames : UpdatedStatus(n)[f] =
                              IF f \in Range(got) THEN "Filled" ELSE status[f]
      /\ \A f \in Filled \cup Range(got) : umem[f] = UpdatedLen(n)[f]
  BY <1>1, <1>2, Consumes, Zenon
<1>5. Filled' = Filled \cup Range(got)
  BY <1>1, <1>4, ZenonT(60) DEF Filled
<1>6. Numbered'
  <2>1. Numbered
    BY <1>2 DEF RxOrderInv
  <2> QED BY <1>1, <1>2, <1>5, <2>1, ReadNumbered
<1>7. ASSUME OnlyRecv, NRxFrames <= FillQueueSize PROVE Circle'
  <2>1. Circle
    BY <1>2, <1>7 DEF RxOrderInv
  <2> QED BY <1>1, <1>2, <1>5, <2>1, ReadCircle
<1> HIDE DEF got
<1>8. rx_cursor \in Filled' <=> UpdatedStatus(n)[rx_cursor] = "Filled"
  BY <1>1, <1>3 DEF Filled
<1>9. ASSUME NRxFrames > FillQueueSize
      PROVE  fillq' = <<>> /\ held' = <<>> /\ rxq' = <<>> /\ Filled' = {}
  <2>1. fillq = <<>> /\ held = <<>> /\ rxq = <<>> /\ Filled = {}
    BY <1>9 DEF RxOrderInv, Starved
  <2>2. n = 0 /\ rxq' = SubSeq(rxq, n + 1, Len(rxq))
    BY <1>1, <2>1 DEF PollAndConsume
  <2>3. rxq' = <<>>
    BY <2>1, <2>2
  <2>4. Range(got) = {}
    BY <1>4, <2>2
  <2> QED BY <1>2, <1>5, <2>1, <2>3, <2>4
<1>10. Starved'
  <2> SUFFICES ASSUME NRxFrames > FillQueueSize PROVE processed' = <<>>
    BY <1>9 DEF Starved
  <2>1. UpdatedStatus(n)[rx_cursor] # "Filled"
    BY <1>8, <1>9
  <2> QED BY <1>1, <1>3, <2>1 DEF TakePacket, NoPacket
<1>11. \A f \in Frames : umem'[f] <= arrived'
  BY <1>2 DEF RxOrderInv
<1>12. ASSUME OnlyRecv, pc' \notin Panics PROVE Returned'
  <2>1. CASE UpdatedStatus(n)[rx_cursor] = "Filled"
    <3>1. pc' = "refill" /\ result' = UpdatedLen(n)[rx_cursor]
      BY <1>1, <1>12, <2>1 DEF TakePacket, NoPacket, Panics
    <3>2. rx_cursor \in Filled'
      BY <1>8, <2>1
    <3>3. result' = umem[rx_cursor] /\ 0 < umem[rx_cursor]
      BY <1>2, <1>4, <1>5, <1>6, <3>1, <3>2, ZenonT(30) DEF Numbered
    <3>4. result' > 0
      BY <1>3, <3>3 DEF RxTypeOK
    <3> QED BY <3>1, <3>4 DEF Returned
  <2>2. CASE UpdatedStatus(n)[rx_cursor] # "Filled"
    <3>1. pc' = "idle"
      BY <1>1, <1>2, <2>2 DEF TakePacket, NoPacket
    <3>2. CASE NRxFrames <= FillQueueSize
      <4>1. Circle' /\ rx_cursor \notin Filled'
        BY <1>7, <1>8, <1>12, <2>2, <3>2
      <4>2. rx_cursor = At(rx_cursor', 0)
        BY <1>2, <1>3, AtFrame, RxConstants
      <4>3. NFilled' \in Int
        BY <1>3, RxConstants DEF NFilled, RxTypeOK
      <4>4. ASSUME NEW f \in Filled' PROVE FALSE
        <5>1. f \in Frames
          BY <4>4 DEF Filled
        <5>2. PICK j \in 0 .. NFilled' - 1 : f = At(rx_cursor', j)
          BY <4>1, <5>1 DEF Circle
        <5>3. 0 \in 0 .. NFilled' - 1
          <6>1. NFilled' - 1 \in Int
            BY <4>3
          <6> QED BY <5>2, <6>1, FromZero, Zenon
        <5>4. rx_cursor \in Filled'
          BY <1>3, <4>1, <4>2, <5>3 DEF Circle
        <5> QED BY <4>1, <5>4
      <4>7. Filled' = {}
        BY <4>4
      <4> QED BY <3>1, <4>7 DEF Returned
    <3>3. CASE ~(NRxFrames <= FillQueueSize)
      BY <1>9, <3>1, <3>3, RxConstants DEF Returned
    <3> QED BY <3>2, <3>3
  <2> QED BY <2>1, <2>2
<1>13. OnlyRecv' = OnlyRecv
  BY <1>2 DEF OnlyRecv
<1> QED BY <1>2, <1>6, <1>7, <1>10, <1>11, <1>12, <1>13 DEF RxOrderInv

\* At first no frame is Filled, and all are on the fill ring or none is.
LEMMA RxOrderInit == Init => RxOrderInv
<1> SUFFICES ASSUME Init PROVE RxOrderInv
  OBVIOUS
<1>1. NRxFrames \in Nat \ {0} /\ FillQueueSize \in Nat /\ Len(AllFrames) = NRxFrames
  BY RxConstants DEF AllFrames
<1>2. Filled = {} /\ NFilled = 0 /\ rx_cursor = 0 /\ rxq = <<>> /\ held = <<>> /\ processed = <<>>
      /\ pc = "idle" /\ umem = [f \in Frames |-> 0] /\ arrived = 0
  BY <1>1 DEF Init, Filled, NFilled
<1>3. fillq = IF NRxFrames <= FillQueueSize THEN AllFrames ELSE <<>>
  BY <1>1 DEF Init, FillRoom
<1>4. Starved
  BY <1>1, <1>2, <1>3 DEF Starved
<1>5. Len(rxq) = 0 /\ Len(held) = 0 /\ Range(RxFrames) = {}
  BY <1>2 DEF Range, RxFrames
<1>6. Numbered
  BY <1>2, <1>5 DEF Numbered
<1>7. ASSUME NRxFrames <= FillQueueSize PROVE Circle
  <2>1. ASSUME NEW i \in 1 .. Len(fillq)
        PROVE  fillq[i] = At(rx_cursor, NFilled + Len(rxq) + Len(held) + i - 1)
    <3>1. i \in 1 .. NRxFrames /\ fillq[i] = i - 1
      BY <1>1, <1>3, <1>7 DEF AllFrames
    <3>2. NFilled + Len(rxq) + Len(held) + i - 1 = i - 1
      BY <1>2, <1>5, <3>1
    <3>3. At(rx_cursor, i - 1) = i - 1
      BY <1>1, <1>2, <3>1 DEF At
    <3> QED BY <3>1, <3>2, <3>3
  <2>2. 0 .. NFilled - 1 = {} /\ 0 .. NFilled + Len(rxq) - 1 = {}
    BY <1>2, <1>5
  <2>3. 1 .. Len(rxq) = {} /\ 1 .. Len(held) = {}
    BY <1>5
  <2> QED BY <1>2, <2>1, <2>2, <2>3 DEF Circle
<1>8. Returned
  BY <1>2 DEF Returned
<1>9. \A f \in Frames : umem[f] <= arrived
  BY <1>2
<1> QED BY <1>2, <1>4, <1>6, <1>7, <1>8, <1>9 DEF RxOrderInv

\* RxOrderInv is kept by every step.
LEMMA RxOrderStep == RxInv /\ RxInv' /\ RxOrderInv /\ [Next]_vars => RxOrderInv'
<1> SUFFICES ASSUME RxInv, RxInv', RxOrderInv, [Next]_vars PROVE RxOrderInv'
  OBVIOUS
<1>1. CASE Recv
  BY <1>1, RecvOrder
<1>2. CASE RecvApply
  BY <1>2, RecvApplyOrder
<1>3. CASE Refill
  BY <1>3, RefillOrder
<1>4. CASE RefillBatch \/ RefillPanic
  BY <1>4, RefillBatchOrder
<1>5. CASE KTakeFrame
  BY <1>5, TakeOrder
<1>6. CASE \E i \in 1 .. NRxFrames : KReceive(i)
  BY <1>6, ArriveOrder
<1>7. CASE KSleep \/ KDrop \/ PollPanic \/ Stopped \/ UNCHANGED vars
  BY <1>7, QuietOrder
<1> QED BY <1>1, <1>2, <1>3, <1>4, <1>5, <1>6, <1>7 DEF Next, Calls, Refills, Kernel

\* RxOrderInv is inductive relative to RxInv.
LEMMA RxOrdered == Spec => []RxOrderInv
<1> QED BY RxInductive, RxOrderInit, RxOrderStep, PTL DEF Spec

\* A caller that uses recv alone, on a kernel that uses the frames in order,
\* gets 0 only if no packet waits in a frame; so does, trivially, one that
\* never calls recv.  For any number of frames and any size of the rings.
THEOREM RxRecvMissesNothing == Spec => []RecvMissesNothing
<1>1. RxOrderInv => RecvMissesNothing
  <2> SUFFICES ASSUME RxOrderInv, Fifo, pc = "idle", result = 0
               PROVE  \A f \in Frames : status[f] # "Filled"
    BY DEF RecvMissesNothing
  <2>1. Filled = {}
    BY DEF RxOrderInv, Fifo, OnlyRecv, Returned, Panics
  <2> QED BY <2>1 DEF Filled
<1> QED BY <1>1, RxOrdered, PTL

-----------------------------------------------------------------------------
(* The packets that wait                                                   *)

\* Packet p waits in a frame or on the rx ring.
Waits(p) ==
  \/ \E f \in Filled \ (Range(processed) \cup WithKernel) : p = umem[f]
  \/ \E i \in 1 .. Len(rxq) : p = rxq[i].len

\* These are the undelivered packets.
LEMMA UndeliveredWait == RxTypeOK => \A p : p \in Undelivered <=> Waits(p)
<1> SUFFICES ASSUME RxTypeOK PROVE \A p : p \in Undelivered <=> Waits(p)
  OBVIOUS
<1>1. fillq \in Seq(Frames) /\ held \in Seq(Frames) /\ RxFrames \in Seq(Frames)
  <2>1. RxFrames \in Seq(Frames)
    BY RxRing
  <2> QED BY <2>1 DEF RxTypeOK
<1>2. fillq \o held \in Seq(Frames) /\ Range(fillq \o held) = Range(fillq) \cup Range(held)
  BY <1>1, ConcatDistinct
<1>3. Range(KernelSide) = WithKernel
  <2> DEFINE a == fillq \o held
  <2>1. a \in Seq(Frames) /\ KernelSide = a \o RxFrames
    BY <1>2 DEF KernelSide
  <2> HIDE DEF a
  <2>2. Range(a \o RxFrames) = Range(a) \cup Range(RxFrames)
    BY <1>1, <2>1, ConcatDistinct
  <2> QED BY <1>2, <2>1, <2>2 DEF a, WithKernel
<1>4. DOMAIN rxq = 1 .. Len(rxq)
  BY DEF RxTypeOK
<1>5. Kept = Filled \ (Range(processed) \cup WithKernel)
  BY <1>3 DEF Kept, Filled
<1> QED BY <1>4, <1>5 DEF Undelivered, Waits

\* In the next state, too.
LEMMA UndeliveredWaitNext == RxTypeOK' => \A p : p \in Undelivered' <=> Waits(p)'
<1>1. (RxTypeOK => \A p : p \in Undelivered <=> Waits(p))'
  BY UndeliveredWait, PTL
<1> QED BY <1>1

-----------------------------------------------------------------------------
(* Deliveries                                                              *)

\* The data of what was delivered.
Data(s) == [i \in DOMAIN s |-> s[i].data]

Deliveries == [data : Nat, len : Nat, via : {"recv", "recv_apply"}]

\* The data of a sequence of deliveries and more deliveries.
LEMMA DataConcat ==
  ASSUME NEW s \in Seq(Deliveries), NEW t \in Seq(Deliveries)
  PROVE  Data(s \o t) = Data(s) \o Data(t)
<1>1. /\ Len(s) \in Nat /\ Len(t) \in Nat /\ s \o t \in Seq(Deliveries)
      /\ Len(s \o t) = Len(s) + Len(t)
      /\ \A i \in 1 .. Len(s) + Len(t) :
           (s \o t)[i] = IF i <= Len(s) THEN s[i] ELSE t[i - Len(s)]
  BY ConcatProperties, LenProperties
<1>2. ASSUME NEW u \in Seq(Deliveries)
      PROVE  /\ Data(u) \in Seq(Nat) /\ Len(Data(u)) = Len(u)
             /\ \A i \in 1 .. Len(u) : Data(u)[i] = u[i].data
  <2>1. DOMAIN u = 1 .. Len(u) /\ Len(u) \in Nat /\ \A i \in 1 .. Len(u) : u[i] \in Deliveries
    BY LenProperties
  <2>2. Data(u) = [i \in 1 .. Len(u) |-> u[i].data] /\ \A i \in 1 .. Len(u) : u[i].data \in Nat
    BY <2>1, Zenon DEF Data, Deliveries
  <2> QED BY <2>1, <2>2
<1>3. /\ Data(s) \in Seq(Nat) /\ Len(Data(s)) = Len(s)
      /\ \A i \in 1 .. Len(s) : Data(s)[i] = s[i].data
      /\ Data(t) \in Seq(Nat) /\ Len(Data(t)) = Len(t)
      /\ \A i \in 1 .. Len(t) : Data(t)[i] = t[i].data
  BY <1>2, ZenonT(30)
<1>4. /\ Data(s \o t) \in Seq(Nat) /\ Len(Data(s \o t)) = Len(s) + Len(t)
      /\ \A i \in 1 .. Len(s) + Len(t) : Data(s \o t)[i] = (s \o t)[i].data
  <2> DEFINE u == s \o t
  <2>1. u \in Seq(Deliveries) /\ Len(u) = Len(s) + Len(t)
    BY <1>1
  <2> HIDE DEF u
  <2>2. /\ Data(u) \in Seq(Nat) /\ Len(Data(u)) = Len(u)
        /\ \A i \in 1 .. Len(u) : Data(u)[i] = u[i].data
    BY <1>2, <2>1
  <2>3. /\ Data(u) \in Seq(Nat) /\ Len(Data(u)) = Len(s) + Len(t)
        /\ \A i \in 1 .. Len(s) + Len(t) : Data(u)[i] = u[i].data
    BY <2>1, <2>2
  <2> QED BY <2>3 DEF u
<1> DEFINE a == Data(s)
           b == Data(t)
           c == Data(s \o t)
<1> HIDE DEF a, b, c
<1>5. /\ a \in Seq(Nat) /\ b \in Seq(Nat) /\ c \in Seq(Nat)
      /\ Len(a) = Len(s) /\ Len(b) = Len(t) /\ Len(c) = Len(s) + Len(t)
  BY <1>3, <1>4 DEF a, b, c
<1>6. /\ a \o b \in Seq(Nat) /\ Len(a \o b) = Len(s) + Len(t)
      /\ \A i \in 1 .. Len(s) + Len(t) :
           (a \o b)[i] = IF i <= Len(s) THEN a[i] ELSE b[i - Len(s)]
  <2>1. /\ a \o b \in Seq(Nat) /\ Len(a \o b) = Len(a) + Len(b)
        /\ \A i \in 1 .. Len(a) + Len(b) :
             (a \o b)[i] = IF i <= Len(a) THEN a[i] ELSE b[i - Len(a)]
    BY <1>5, ConcatProperties
  <2> QED BY <1>5, <2>1, ZenonT(30)
<1>7. ASSUME NEW i \in 1 .. Len(s) + Len(t) PROVE c[i] = (a \o b)[i]
  <2>1. CASE i <= Len(s)
    <3>1. i \in 1 .. Len(s) /\ (s \o t)[i] = s[i]
      BY <1>1, <2>1
    <3>2. c[i] = (s \o t)[i].data /\ a[i] = s[i].data /\ (a \o b)[i] = a[i]
      BY <1>3, <1>4, <1>6, <2>1, <3>1 DEF a, c
    <3> QED BY <3>1, <3>2
  <2>2. CASE ~(i <= Len(s))
    <3>1. i - Len(s) \in 1 .. Len(t) /\ (s \o t)[i] = t[i - Len(s)]
      BY <1>1, <2>2
    <3>2. /\ c[i] = (s \o t)[i].data /\ b[i - Len(s)] = t[i - Len(s)].data
          /\ (a \o b)[i] = b[i - Len(s)]
      BY <1>3, <1>4, <1>6, <2>2, <3>1, Zenon DEF b, c
    <3> QED BY <3>1, <3>2
  <2> QED BY <2>1, <2>2, Zenon
<1>8. c = a \o b
  BY <1>5, <1>6, <1>7, SeqEqual, Zenon
<1> QED BY <1>8 DEF a, b, c

\* A step that delivers nothing, and after which the same packets wait.
LEMMA ChannelQuiet ==
  ASSUME RxTypeOK, RxTypeOK', UNCHANGED <<client, in_order, arrived, delivered>>,
         \A p : Waits(p)' <=> Waits(p)
  PROVE  UNCHANGED Channel!vars
<1>1. \A p : p \in Undelivered' <=> p \in Undelivered
  BY UndeliveredWait, UndeliveredWaitNext
<1>2. Undelivered' = Undelivered /\ Fifo' = Fifo
  BY <1>1 DEF Fifo
<1> QED BY <1>2 DEF Channel!vars

\* Different numbers up to m: there are at most m of them.
Pigeonhole == \A n, m \in Nat : \A t \in Injection(1 .. n, 1 .. m) : n <= m

\* A step that delivers the packets of s, which waited, are in order, and on
\* a FIFO channel come before those that still wait.
LEMMA ChannelDeliver ==
  ASSUME Pigeonhole, RxTypeOK, RxTypeOK', UNCHANGED <<client, in_order, arrived>>,
         NEW n \in Nat \ {0}, NEW s \in [1 .. n -> Nat],
         \A i, j \in 1 .. n : i < j => s[i] < s[j],
         \A i \in 1 .. n : Waits(s[i]),
         \A p : Waits(p) => p \in 1 .. arrived,
         \A p : Waits(p)' <=> Waits(p) /\ p \notin Range(s),
         Fifo => \A p \in Range(s) : \A q : Waits(q)' => p < q,
         Data(delivered') = Data(delivered) \o s
  PROVE  Channel!Deliver
<1>1. \A p : p \in Undelivered <=> Waits(p)
  BY UndeliveredWait
<1>2. \A p : p \in Undelivered' <=> Waits(p)'
  BY UndeliveredWaitNext
<1>3. s \in [1 .. n -> Undelivered]
  BY <1>1
<1>4. n \in 1 .. arrived
  <2>1. arrived \in Nat /\ n \in Nat /\ n >= 1
    BY DEF RxTypeOK
  <2>2. s \in Injection(1 .. n, 1 .. arrived)
    <3>1. ASSUME NEW i \in 1 .. n, NEW j \in 1 .. n, s[i] = s[j] PROVE i = j
      <4>1. s[i] \in Nat /\ ~(i < j) /\ ~(j < i)
        BY <3>1
      <4> QED BY <4>1
    <3>2. DOMAIN s = 1 .. n
      OBVIOUS
    <3>3. IsInjective(s)
      BY <3>1, <3>2 DEF IsInjective
    <3>4. s \in [1 .. n -> 1 .. arrived]
      OBVIOUS
    <3> QED BY <3>3, <3>4 DEF Injection
  <2>3. n <= arrived
    BY <2>1, <2>2, Zenon DEF Pigeonhole
  <2> QED BY <2>1, <2>3
<1>5. s \in Channel!Batches(Undelivered, n)
  BY <1>3 DEF Channel!Batches
<1>6. Undelivered' = Undelivered \ Range(s)
  BY <1>1, <1>2
<1>7. Fifo => \A p \in Range(s), q \in Undelivered' : p < q
  BY <1>2
<1>8. Fifo' = Fifo /\ arrived' = arrived
  BY DEF Fifo
<1> QED BY <1>4, <1>5, <1>6, <1>7, <1>8, Zenon DEF Channel!Deliver, Data, Range, Channel!Packets

\* Outside of a panic the packets that wait are those in the Filled frames that
\* are not processed and in the frames on the rx ring.
LEMMA WaitInFrames ==
  ASSUME RxTypeOK, Apart, LengthsRight
  PROVE  \A p : Waits(p) <=>
           \E f \in (Filled \ Range(processed)) \cup Range(RxFrames) : p = umem[f]
<1>1. /\ Len(rxq) \in Nat /\ Len(RxFrames) = Len(rxq) /\ RxFrames \in Seq(Frames)
      /\ \A i \in 1 .. Len(rxq) : RxFrames[i] = rxq[i].frame
  BY RxRing
<1>2. DOMAIN RxFrames = 1 .. Len(rxq)
  BY <1>1
<1>3. \A f : f \in Range(RxFrames) <=> \E i \in 1 .. Len(rxq) : f = rxq[i].frame
  <2>1. Range(RxFrames) = {RxFrames[i] : i \in 1 .. Len(rxq)}
    BY <1>2 DEF Range
  <2> QED BY <1>1, <2>1
<1>4. \A i \in 1 .. Len(rxq) : umem[rxq[i].frame] = rxq[i].len
  BY DEF LengthsRight
<1>5. Filled \ (Range(processed) \cup WithKernel) = Filled \ Range(processed)
  BY DEF Apart, WithKernel
<1>6. ASSUME NEW p
      PROVE  (\E i \in 1 .. Len(rxq) : p = rxq[i].len)
               <=> (\E f \in Range(RxFrames) : p = umem[f])
  BY <1>3, <1>4
<1> QED BY <1>5, <1>6, Zenon DEF Waits

\* Their numbers are those of packets that arrived.
LEMMA WaitArrived ==
  ASSUME RxInv, RxOrderInv, pc \notin Panics PROVE \A p : Waits(p) => p \in 1 .. arrived
<1>1. RxTypeOK /\ Apart /\ LengthsRight /\ Numbered
  BY DEF RxInv, RxOrderInv
<1>2. \A f \in Frames : umem[f] \in Nat /\ umem[f] <= arrived /\ arrived \in Nat
  BY <1>1 DEF RxTypeOK, RxOrderInv
<1>3. ASSUME NEW f \in Filled PROVE umem[f] \in 1 .. arrived
  BY <1>1, <1>2 DEF Numbered, Filled
<1>4. ASSUME NEW i \in 1 .. Len(rxq) PROVE rxq[i].len \in 1 .. arrived
  <2>1. rxq[i].frame \in Frames
    BY <1>1, RxRing DEF Descs
  <2>2. rxq[i].len = umem[rxq[i].frame] /\ 0 < rxq[i].len
    BY <1>1 DEF LengthsRight, Numbered
  <2> QED BY <1>2, <2>1, <2>2
<1> QED BY <1>3, <1>4 DEF Waits

\* A packet that arrives waits.
LEMMA ArriveChannel ==
  ASSUME RxTypeOK, RxTypeOK', NEW i \in 1 .. NRxFrames, KReceive(i) PROVE Channel!Arrive
<1> DEFINE f == held[i]
           d == [frame |-> f, len |-> arrived + 1]
<1>1. /\ f \in Frames /\ f \in Range(held) /\ d.len = arrived + 1
      /\ Range(held) = {f} \cup Range(held')
      /\ Len(rxq') = Len(rxq) + 1 /\ rxq'[Len(rxq) + 1] = d
      /\ \A j \in 1 .. Len(rxq) : rxq'[j] = rxq[j]
      /\ Range(RxFrames') = Range(RxFrames) \cup {f}
      /\ \A g \in Frames \ {f} : umem'[g] = umem[g]
  BY Arrives
<1> HIDE DEF f, d
<1>2. /\ UNCHANGED <<client, in_order, status, processed, fillq, delivered>>
      /\ arrived' = arrived + 1
  BY DEF KReceive, userVars, setting
<1>3. Filled' = Filled /\ Filled \subseteq Frames /\ Len(rxq) \in Nat
  BY <1>2, Numbers DEF Filled
<1>4. WithKernel' = WithKernel /\ f \in WithKernel
  BY <1>1, <1>2, ZenonT(30) DEF WithKernel
<1>5. ASSUME NEW p PROVE (\E j \in 1 .. Len(rxq') : p = rxq'[j].len)
                           <=> (\E j \in 1 .. Len(rxq) : p = rxq[j].len) \/ p = arrived + 1
  <2>1. \A j : j \in 1 .. Len(rxq') <=> j \in 1 .. Len(rxq) \/ j = Len(rxq) + 1
    BY <1>1, <1>3
  <2> QED BY <1>1, <2>1, ZenonT(30)
<1>6. \A p : Waits(p)' <=> Waits(p) \/ p = arrived + 1
  <2>1. \A g \in Filled \ (Range(processed) \cup WithKernel) : umem'[g] = umem[g]
    BY <1>1, <1>3, <1>4
  <2>2. Filled' \ (Range(processed') \cup WithKernel') = Filled \ (Range(processed) \cup WithKernel)
    BY <1>2, <1>3, <1>4
  <2> QED BY <1>5, <2>1, <2>2, Zenon DEF Waits
<1>7. Undelivered' = Undelivered \cup {arrived + 1}
  <2>1. \A p : p \in Undelivered' <=> p \in Undelivered \/ p = arrived + 1
    BY <1>6, UndeliveredWait, UndeliveredWaitNext
  <2> QED BY <2>1
<1>8. Fifo' = Fifo
  BY <1>2 DEF Fifo
<1> QED BY <1>2, <1>7, <1>8, ZenonT(30) DEF Channel!Arrive

\* The steps that neither deliver a packet nor put one into a frame.
LEMMA QuietChannel ==
  ASSUME RxTypeOK, RxTypeOK', KTakeFrame \/ KSleep \/ PollPanic \/ Stopped \/ UNCHANGED vars
  PROVE  UNCHANGED Channel!vars
<1>1. /\ UNCHANGED <<client, in_order, status, processed, delivered, umem, rxq, arrived>>
      /\ KTakeFrame \/ UNCHANGED <<fillq, held>>
  BY DEF KTakeFrame, KSleep, PollPanic, Stopped, vars, userVars, setting
<1>2. Filled' = Filled /\ RxFrames' = RxFrames
  BY <1>1 DEF Filled, RxFrames
<1>3. WithKernel' = WithKernel
  <2>1. CASE KTakeFrame
    BY <2>1, Takes
  <2>2. CASE UNCHANGED <<fillq, held>>
    BY <1>2, <2>2, ZenonT(30) DEF WithKernel
  <2> QED BY <1>1, <2>1, <2>2
<1>4. \A p : Waits(p)' <=> Waits(p)
  BY <1>1, <1>2, <1>3 DEF Waits
<1> QED BY <1>1, <1>4, ChannelQuiet, ZenonT(30)

\* A packet that is dropped is lost.
LEMMA DropChannel == ASSUME RxTypeOK, RxTypeOK', KDrop PROVE Channel!Lose
<1>1. /\ UNCHANGED <<client, in_order, status, processed, delivered, umem, fillq, rxq, held>>
      /\ arrived' = arrived + 1
  BY ZenonT(30) DEF KDrop, userVars, setting
<1>2. Undelivered' = Undelivered /\ Fifo' = Fifo
  <2>1. RxFrames' = RxFrames /\ Fifo' = Fifo
    BY <1>1 DEF RxFrames, Fifo
  <2>2. KernelSide' = KernelSide
    BY <2>1, <1>1 DEF KernelSide
  <2>3. Kept' = Kept
    BY <2>2, <1>1 DEF Kept
  <2> QED BY <2>1, <2>3, <1>1 DEF Undelivered
<1> QED BY <1>1, <1>2 DEF Channel!Lose

\* Nothing is delivered when frames go back to the fill ring: their packets
\* were delivered before.
LEMMA RefillChannel ==
  ASSUME RxInv, RxTypeOK', Refill \/ RefillBatch \/ RefillPanic
  PROVE  UNCHANGED Channel!vars
<1>1. /\ UNCHANGED <<client, in_order, delivered, umem, rxq, held, arrived>>
      /\ fillq' = fillq \o processed /\ processed' = <<>>
      /\ pc \in {"refill", "refill_batch"}
      /\ Refill \/ UNCHANGED status
  BY DEF Refill, RefillBatch, RefillPanic, FillProduce, setting
<1>2. RxTypeOK /\ Processing
  BY <1>1 DEF RxInv, Panics
<1>3. RxFrames' = RxFrames
  BY <1>1 DEF RxFrames
<1>4. Range(fillq') = Range(fillq) \cup Range(processed) /\ Range(processed') = {}
  BY <1>1, <1>2, Produced
<1>5. Filled' \cup Range(processed) = Filled \cup Range(processed)
  <2>1. CASE Refill
    <3>1. processed = <<rx_cursor>> /\ Range(processed) = {rx_cursor}
      BY <1>2, <2>1 DEF Processing, Refill, Range
    <3>2. Filled' = Filled \ {rx_cursor}
      BY <1>2, <2>1 DEF Refill, Filled, RxTypeOK
    <3> QED BY <3>1, <3>2
  <2>2. CASE UNCHANGED status
    BY <2>2 DEF Filled
  <2> QED BY <1>1, <2>1, <2>2
<1>6. Filled' \ (Range(processed') \cup WithKernel') = Filled \ (Range(processed) \cup WithKernel)
  <2>1. WithKernel' = WithKernel \cup Range(processed)
    BY <1>1, <1>3, <1>4 DEF WithKernel
  <2> QED BY <1>4, <1>5, <2>1
<1>7. \A p : Waits(p)' <=> Waits(p)
  BY <1>1, <1>6, ZenonT(30) DEF Waits
<1> QED BY <1>1, <1>2, <1>7, ChannelQuiet, ZenonT(30)

\* What waits after a call has read from the rx ring.
LEMMA WaitAfterRead ==
  ASSUME RxInv, pc = "idle", NEW n \in 0 .. Len(rxq), PollAndConsume(n),
         UNCHANGED <<umem, fillq, held>>,
         Filled' \subseteq Filled \cup Range(SubSeq(RxFrames, 1, n))
  PROVE  /\ \A p : Waits(p) <=> \E f \in Filled \cup Range(RxFrames) : p = umem[f]
         /\ \A p : Waits(p)' <=>
              \E f \in (Filled' \ Range(processed')) \cup Range(RxFrames') : p = umem[f]
         /\ \A i \in 1 .. n : rxq[i].len = umem[rxq[i].frame]
         /\ \A f \in Range(RxFrames') : \E i \in 1 .. Len(rxq') : f = rxq'[i].frame
         /\ \A i \in 1 .. Len(rxq') : rxq'[i].len = umem[rxq'[i].frame]
<1> DEFINE got == SubSeq(RxFrames, 1, n)
<1>1. RxTypeOK /\ Apart /\ LengthsRight /\ processed = <<>>
  BY ZenonT(30) DEF RxInv, Panics, Processing
<1>2. /\ n \in Nat /\ Len(rxq) \in Nat /\ n <= Len(rxq)
      /\ \A i \in 1 .. Len(rxq') : n + i \in 1 .. Len(rxq) /\ rxq'[i] = rxq[n + i]
      /\ Range(RxFrames) = Range(got) \cup Range(RxFrames')
      /\ Range(got) \cap Range(RxFrames') = {}
  BY Consumes
<1> HIDE DEF got
<1>3. Range(processed) = {}
  BY <1>1 DEF Range
<1>4. \A p : Waits(p) <=> \E f \in Filled \cup Range(RxFrames) : p = umem[f]
  BY <1>1, <1>3, WaitInFrames
<1>5. \A i \in 1 .. Len(rxq) : umem[rxq[i].frame] = rxq[i].len
  BY <1>1 DEF LengthsRight
<1>6. \A i \in 1 .. Len(rxq') : umem[rxq'[i].frame] = rxq'[i].len
  BY <1>2, <1>5, Zenon
<1>7. Filled' \ (Range(processed') \cup WithKernel') = Filled' \ Range(processed')
  <2>1. Filled' \subseteq Filled \cup Range(got)
    BY DEF got
  <2> QED BY <1>1, <1>2, <2>1 DEF Apart, WithKernel
<1>8. \A f : f \in Range(RxFrames') <=> \E i \in 1 .. Len(rxq') : f = rxq'[i].frame
  <2>1. /\ rxq' \in Seq(Descs) /\ Len(rxq') \in Nat
    <3>1. rxq' \in Seq(Descs)
      BY <1>1, Consumed DEF Apart
    <3> QED BY <3>1, LenProperties, ZenonT(30)
  <2>2. RxFrames' = [i \in 1 .. Len(rxq') |-> rxq'[i].frame]
    BY DEF RxFrames
  <2> QED BY <2>1, <2>2 DEF Range
<1>9. ASSUME NEW p
      PROVE  (\E i \in 1 .. Len(rxq') : p = rxq'[i].len)
               <=> (\E f \in Range(RxFrames') : p = umem[f])
  BY <1>6, <1>8
<1>10. \A p : Waits(p)' <=>
         \E f \in (Filled' \ Range(processed')) \cup Range(RxFrames') : p = umem[f]
  BY <1>7, <1>9, Zenon DEF Waits
<1>11. \A i \in 1 .. n : i \in 1 .. Len(rxq)
  BY <1>2
<1> QED BY <1>4, <1>5, <1>6, <1>8, <1>10, <1>11

\* recv_apply delivers the packets it has read, in the order of the ring.
LEMMA RecvApplyChannel ==
  ASSUME Pigeonhole, RxInv, RxTypeOK', RxOrderInv, RecvApply
  PROVE  Channel!Deliver \/ UNCHANGED Channel!vars
<1>1. PICK n \in 0 .. Len(rxq) :
        /\ PollAndConsume(n)
        /\ delivered' = delivered \o
             [i \in 1 .. n |->
                ReadFromUmem(rxq[i].frame, UpdatedLen(n)[rxq[i].frame], "recv_apply")]
        /\ processed' = processed \o [i \in 1 .. n |-> rxq[i].frame]
  BY Zenon DEF RecvApply
<1>2. /\ UNCHANGED <<client, in_order, status, umem, fillq, held, arrived>>
      /\ pc = "idle" /\ pc \notin Panics /\ "recv_apply" \in client
  BY DEF RecvApply, setting, Panics
<1>3. RxTypeOK /\ Apart /\ LengthsRight /\ processed = <<>> /\ Numbered
  BY <1>2 DEF RxInv, RxOrderInv, Processing
<1>4. Filled' = Filled
  BY <1>2, ZenonT(30) DEF Filled
<1> DEFINE got == SubSeq(RxFrames, 1, n)
           s == [i \in 1 .. n |-> rxq[i].len]
           t == [i \in 1 .. n |->
                   ReadFromUmem(rxq[i].frame, UpdatedLen(n)[rxq[i].frame], "recv_apply")]
<1>5. /\ n \in Nat /\ Len(rxq) \in Nat /\ n <= Len(rxq) /\ Len(rxq') = Len(rxq) - n
      /\ \A i \in 1 .. Len(rxq') : n + i \in 1 .. Len(rxq) /\ rxq'[i] = rxq[n + i]
      /\ \A f : f \in Range(got) <=> \E i \in 1 .. n : f = rxq[i].frame
      /\ Range(got) \subseteq Frames
      /\ Range(RxFrames) = Range(got) \cup Range(RxFrames')
      /\ Range(got) \cap Range(RxFrames') = {}
      /\ \A f \in Filled \cup Range(got) : umem[f] = UpdatedLen(n)[f]
  BY <1>1, <1>2, Consumes
<1>6. /\ \A p : Waits(p) <=> \E f \in Filled \cup Range(RxFrames) : p = umem[f]
      /\ \A p : Waits(p)' <=>
           \E f \in (Filled' \ Range(processed')) \cup Range(RxFrames') : p = umem[f]
      /\ \A i \in 1 .. n : rxq[i].len = umem[rxq[i].frame]
      /\ \A f \in Range(RxFrames') : \E i \in 1 .. Len(rxq') : f = rxq'[i].frame
      /\ \A i \in 1 .. Len(rxq') : rxq'[i].len = umem[rxq'[i].frame]
  BY <1>1, <1>2, <1>4, WaitAfterRead, Zenon
<1> HIDE DEF got
<1>7. \A i \in 1 .. n : /\ i \in 1 .. Len(rxq) /\ rxq[i].frame \in Frames /\ rxq[i].len \in Nat
                        /\ rxq[i].frame \in Range(got)
  <2>1. \A i \in 1 .. Len(rxq) : rxq[i] \in Descs
    BY <1>3, RxRing, ZenonT(30)
  <2>2. \A i \in 1 .. n : i \in 1 .. Len(rxq)
    BY <1>5
  <2>3. \A i \in 1 .. n : rxq[i].frame \in Range(got)
    BY <1>5
  <2> QED BY <2>1, <2>2, <2>3 DEF Descs
<1>8. t \in Seq(Deliveries) /\ Data(t) = s
  <2>1. \A i \in 1 .. n : rxq[i].len = UpdatedLen(n)[rxq[i].frame]
    BY <1>5, <1>6, <1>7, ZenonT(30)
  <2>2. \A i \in 1 .. n : ReadFromUmem(rxq[i].frame, UpdatedLen(n)[rxq[i].frame], "recv_apply")
                            = [data |-> rxq[i].len, len |-> rxq[i].len, via |-> "recv_apply"]
    BY <1>6, <2>1, ZenonT(30) DEF ReadFromUmem
  <2>3. t = [i \in 1 .. n |-> [data |-> rxq[i].len, len |-> rxq[i].len, via |-> "recv_apply"]]
    BY <2>2, ZenonT(30)
  <2> HIDE DEF t
  <2>4. t \in Seq(Deliveries)
    <3>1. \A i \in 1 .. n : [data |-> rxq[i].len, len |-> rxq[i].len, via |-> "recv_apply"] \in Deliveries
      BY <1>7 DEF Deliveries
    <3>2. t \in [1 .. n -> Deliveries]
      BY <2>3, <3>1, ZenonT(30)
    <3>3. n \in Nat
      BY <1>5
    <3> QED BY <3>2, <3>3
  <2>5. DOMAIN t = 1 .. n /\ \A i \in 1 .. n : t[i].data = rxq[i].len
    BY <2>3
  <2> QED BY <2>4, <2>5, ZenonT(30) DEF Data
<1>9. delivered' = delivered \o t /\ delivered \in Seq(Deliveries)
  BY <1>1, <1>3 DEF RxTypeOK, Deliveries
<1> HIDE DEF t
<1>10. Data(delivered') = Data(delivered) \o s
  BY <1>8, <1>9, DataConcat, Zenon
<1>11. Range(processed') = Range(got)
  <2> DEFINE g == [i \in 1 .. n |-> rxq[i].frame]
  <2>1. g \in Seq(Frames) /\ DOMAIN g = 1 .. n
    BY <1>5, <1>7
  <2>2. processed' = g
    BY <1>1, <1>3, <2>1
  <2>3. \A f : f \in Range(g) <=> f \in Range(got)
    <3>1. \A f : f \in Range(g) <=> \E i \in 1 .. n : f = rxq[i].frame
      BY <2>1, ZenonT(30) DEF Range
    <3> QED BY <1>5, <3>1
  <2> HIDE DEF g
  <2> QED BY <2>2, <2>3, Zenon
<1>12. Filled' \ Range(processed') = Filled
  BY <1>3, <1>4, <1>5, <1>11 DEF Apart
<1>13. \A p : p \in Range(s) <=> \E f \in Range(got) : p = umem[f]
  <2>1. \A p : p \in Range(s) <=> \E i \in 1 .. n : p = rxq[i].len
    BY DEF Range
  <2>2. \A i \in 1 .. n : rxq[i].len = umem[rxq[i].frame]
    BY <1>6
  <2>3. \A f : f \in Range(got) <=> \E i \in 1 .. n : f = rxq[i].frame
    BY <1>5
  <2> QED BY <2>1, <2>2, <2>3
<1>14. \A p : Waits(p)' <=> Waits(p) /\ p \notin Range(s)
  <2>1. ASSUME NEW f \in Filled \cup Range(RxFrames'), NEW g \in Range(got)
        PROVE  umem[f] # umem[g]
    <3>1. f # g
      BY <1>3, <1>5, ZenonT(30) DEF Apart
    <3> QED BY <1>3, <1>5, <3>1 DEF Numbered
  <2>2. \A p : Waits(p)' <=> \E f \in Filled \cup Range(RxFrames') : p = umem[f]
    BY <1>6, <1>12, ZenonT(30)
  <2>3. \A p : Waits(p) <=> \E f \in Filled \cup Range(RxFrames') \cup Range(got) : p = umem[f]
    BY <1>5, <1>6
  <2> QED BY <1>13, <2>1, <2>2, <2>3, ZenonT(30)
<1>15. \A i, j \in 1 .. n : i < j => s[i] < s[j]
  BY <1>3, <1>7 DEF Numbered
<1>16. ASSUME Fifo, NEW p \in Range(s), NEW q, Waits(q)' PROVE p < q
  <2>1. Filled = {}
    BY <1>2, <1>16 DEF Fifo, RxOrderInv
  <2>2. PICK f \in Range(RxFrames') : q = umem[f]
    BY <1>6, <1>12, <1>16, <2>1, ZenonT(30)
  <2>3. PICK j \in 1 .. Len(rxq') : f = rxq'[j].frame
    BY <1>6, ZenonT(30)
  <2>4. q = rxq[n + j].len /\ n + j \in 1 .. Len(rxq)
    BY <1>5, <1>6, <2>2, <2>3
  <2>5. PICK i \in 1 .. n : p = rxq[i].len
    BY ZenonT(30) DEF Range
  <2>6. i \in 1 .. Len(rxq) /\ i < n + j
    BY <1>5
  <2>7. \A x, y \in 1 .. Len(rxq) : x < y => rxq[x].len < rxq[y].len
    BY <1>3 DEF Numbered
  <2> QED BY <2>4, <2>5, <2>6, <2>7
<1>17. CASE n = 0
  <2>1. Range(s) = {}
    BY <1>17 DEF Range
  <2>2. delivered' = delivered
    <3>1. t = <<>>
      BY <1>17 DEF t
    <3> QED BY <1>9, <3>1
  <2>3. \A p : Waits(p)' <=> Waits(p)
    BY <1>14, <2>1, Zenon
  <2> QED BY <1>2, <1>3, <2>2, <2>3, ChannelQuiet
<1>18. CASE n # 0
  <2>1. n \in Nat \ {0} /\ s \in [1 .. n -> Nat] /\ \A i \in 1 .. n : Waits(s[i])
    <3>1. \A i \in 1 .. n : s[i] \in Range(s)
      BY ZenonT(30) DEF Range
    <3>2. \A i \in 1 .. n : Waits(rxq[i].len)
      BY <1>5, <1>6, <1>7
    <3> QED BY <1>5, <1>7, <1>18, <3>2
  <2>2. \A p : Waits(p) => p \in 1 .. arrived
    BY <1>2, WaitArrived
  <2>3. Fifo => \A p \in Range(s) : \A q : Waits(q)' => p < q
    BY <1>16
  <2> HIDE DEF s
  <2> QED BY <1>2, <1>3, <1>10, <1>14, <1>15, <2>1, <2>2, <2>3, ChannelDeliver, ZenonT(60)
<1> QED BY <1>17, <1>18

\* The packet at the cursor comes before all the others.
CursorLeads ==
  \A f \in Filled \cup Range(RxFrames) : f # rx_cursor => umem[rx_cursor] < umem[f]

\* So it does in a circle, if the frame at the cursor is Filled.
LEMMA CursorFirst ==
  ASSUME RxTypeOK, Circle, rx_cursor \in Filled,
         NEW f \in Filled \cup Range(RxFrames), f # rx_cursor
  PROVE  umem[rx_cursor] < umem[f]
<1>1. /\ NFilled \in Int /\ Len(rxq) \in Nat /\ rx_cursor \in Frames /\ NRxFrames \in Nat \ {0}
  BY CircleNumbers
<1>2. At(rx_cursor, 0) = rx_cursor
  BY <1>1, AtFrame
<1>3. 0 \in 0 .. NFilled - 1
  <2>1. PICK j \in 0 .. NFilled - 1 : rx_cursor = At(rx_cursor, j)
    BY <1>1 DEF Circle
  <2>2. NFilled - 1 \in Int
    BY <1>1
  <2> QED BY <2>1, <2>2, FromZero, ZenonT(60)
<1>4. \E j \in 0 .. NFilled + Len(rxq) - 1 : f = At(rx_cursor, j)
  <2>1. CASE f \in Filled
    <3>1. f \in Frames
      BY <2>1 DEF Filled
    <3>2. PICK j \in 0 .. NFilled - 1 : f = At(rx_cursor, j)
      BY <2>1, <3>1 DEF Circle
    <3>3. j \in 0 .. NFilled + Len(rxq) - 1
      BY <1>1, <3>2
    <3> QED BY <3>2, <3>3
  <2>2. CASE f \in Range(RxFrames)
    <3>1. PICK i \in 1 .. Len(rxq) : f = rxq[i].frame
      <4>1. DOMAIN RxFrames = 1 .. Len(rxq) /\ \A i \in 1 .. Len(rxq) : RxFrames[i] = rxq[i].frame
        BY <1>1, ZenonT(30) DEF RxFrames
      <4> QED BY <2>2, <4>1 DEF Range
    <3>2. f = At(rx_cursor, NFilled + i - 1)
      BY <3>1 DEF Circle
    <3>3. NFilled + i - 1 \in 0 .. NFilled + Len(rxq) - 1
      BY <1>1, <1>3
    <3> QED BY <3>2, <3>3
  <2> QED BY <2>1, <2>2
<1>5. PICK j \in 0 .. NFilled + Len(rxq) - 1 : f = At(rx_cursor, j)
  BY <1>4
<1>6. 0 \in 0 .. NFilled + Len(rxq) - 1 /\ 0 < j
  <2>1. j # 0
    BY <1>2, <1>5
  <2> QED BY <1>1, <1>5, <2>1
<1>7. umem[At(rx_cursor, 0)] < umem[At(rx_cursor, j)]
  BY <1>5, <1>6 DEF Circle
<1> QED BY <1>2, <1>5, <1>7

\* In the next state, too.
LEMMA CursorFirstNext == (RxTypeOK /\ Circle /\ rx_cursor \in Filled => CursorLeads)'
<1>1. RxTypeOK /\ Circle /\ rx_cursor \in Filled => CursorLeads
  BY CursorFirst DEF CursorLeads
<1> QED BY <1>1, PTL

\* recv delivers the packet in the frame at the cursor, or nothing.
LEMMA RecvChannel ==
  ASSUME Pigeonhole, RxInv, RxTypeOK', RxOrderInv, RxOrderInv', Recv
  PROVE  Channel!Deliver \/ UNCHANGED Channel!vars
<1>1. PICK n \in 0 .. Len(rxq) :
        /\ PollAndConsume(n) /\ status' = UpdatedStatus(n)
        /\ TakePacket(UpdatedStatus(n), UpdatedLen(n)) \/ NoPacket(UpdatedStatus(n))
  BY DEF Recv
<1>2. /\ UNCHANGED <<client, in_order, rx_cursor, umem, fillq, held, arrived>>
      /\ pc = "idle" /\ pc \notin Panics /\ "recv" \in client
  BY DEF Recv, setting, Panics
<1>3. /\ RxTypeOK /\ Apart /\ LengthsRight /\ processed = <<>> /\ Numbered /\ rx_cursor \in Frames
      /\ umem \in [Frames -> Nat]
  BY <1>2, ZenonT(30) DEF RxInv, RxOrderInv, Processing, RxTypeOK
<1> DEFINE got == SubSeq(RxFrames, 1, n)
<1>4. /\ Range(got) \subseteq Frames
      /\ Range(RxFrames) = Range(got) \cup Range(RxFrames')
      /\ Range(got) \cap Range(RxFrames') = {}
      /\ \A f \in Frames : UpdatedStatus(n)[f] =
                              IF f \in Range(got) THEN "Filled" ELSE status[f]
      /\ \A f \in Filled \cup Range(got) : umem[f] = UpdatedLen(n)[f]
  BY <1>1, <1>2, Consumes, ZenonT(30)
<1>5. Filled' = Filled \cup Range(got)
  BY <1>1, <1>4, ZenonT(30) DEF Filled
<1>6. /\ \A p : Waits(p) <=> \E f \in Filled \cup Range(RxFrames) : p = umem[f]
      /\ \A p : Waits(p)' <=>
           \E f \in (Filled' \ Range(processed')) \cup Range(RxFrames') : p = umem[f]
  BY <1>1, <1>2, <1>5, WaitAfterRead
<1> HIDE DEF got
<1>7. CASE processed' = processed /\ delivered' = delivered
  <2>1. Range(processed') = {}
    BY <1>3, <1>7 DEF Range
  <2>2. \A p : Waits(p)' <=> Waits(p)
    BY <1>4, <1>5, <1>6, <2>1
  <2> QED BY <1>2, <1>3, <1>7, <2>2, ChannelQuiet
<1>8. CASE /\ UpdatedStatus(n)[rx_cursor] = "Filled"
           /\ delivered' =
                Append(delivered, ReadFromUmem(rx_cursor, UpdatedLen(n)[rx_cursor], "recv"))
           /\ processed' = <<rx_cursor>> /\ pc' = "refill"
  <2> DEFINE p0 == umem[rx_cursor]
             s == [i \in 1 .. 1 |-> p0]
             d == [data |-> p0, len |-> p0, via |-> "recv"]
  <2>1. rx_cursor \in Filled' /\ p0 \in Nat
    BY <1>1, <1>3, <1>8, ZenonT(30) DEF Filled
  <2>2. ReadFromUmem(rx_cursor, UpdatedLen(n)[rx_cursor], "recv") = d
    BY <1>4, <1>5, <2>1, ZenonT(30) DEF ReadFromUmem
  <2>3. /\ delivered' = delivered \o <<d>> /\ delivered \in Seq(Deliveries)
        /\ d \in Deliveries /\ d.data = p0
    <3>1. d \in Deliveries /\ d.data = p0
      BY <2>1 DEF Deliveries
    <3>2. delivered \in Seq(Deliveries)
      BY <1>3 DEF RxTypeOK, Deliveries
    <3> HIDE DEF d
    <3>3. Append(delivered, d) = delivered \o <<d>>
      BY <3>1, <3>2, AppendIsConcat
    <3> QED BY <1>8, <2>2, <3>1, <3>2, <3>3, ZenonT(30)
  <2>4. Data(delivered') = Data(delivered) \o s
    <3> HIDE DEF d, p0
    <3>1. <<d>> \in Seq(Deliveries) /\ DOMAIN <<d>> = 1 .. 1 /\ <<d>>[1] = d
      BY <2>3
    <3>2. Data(<<d>>) = s
      BY <2>3, <3>1 DEF Data
    <3>3. Data(delivered \o <<d>>) = Data(delivered) \o Data(<<d>>)
      BY <2>3, <3>1, DataConcat, ZenonT(60)
    <3> QED BY <2>3, <3>2, <3>3, Zenon
  <2>5. Range(s) = {p0} /\ Range(processed') = {rx_cursor}
    BY <1>8 DEF Range
  <2>6. rx_cursor \in Filled \cup Range(RxFrames) /\ rx_cursor \notin Range(RxFrames')
    BY <1>3, <1>4, <1>5, <2>1 DEF Apart
  <2>7. \A q : Waits(q)' <=> \E f \in Filled \cup Range(RxFrames) : f # rx_cursor /\ q = umem[f]
    <3>1. (Filled' \ Range(processed')) \cup Range(RxFrames')
            = (Filled \cup Range(RxFrames)) \ {rx_cursor}
      BY <1>4, <1>5, <2>5, <2>6
    <3>2. \A q : Waits(q)' <=> \E f \in (Filled \cup Range(RxFrames)) \ {rx_cursor} : q = umem[f]
      BY <1>6, <3>1, ZenonT(30)
    <3> QED BY <3>2, ZenonT(30)
  <2>8. \A q : Waits(q)' <=> Waits(q) /\ q \notin Range(s)
    <3>1. \A f \in Filled \cup Range(RxFrames) : f # rx_cursor => umem[f] # p0
      BY <1>3, <2>6, ZenonT(30) DEF Numbered
    <3> QED BY <1>6, <2>5, <2>6, <2>7, <3>1, ZenonT(30)
  <2>9. ASSUME Fifo, NEW q, Waits(q)' PROVE p0 < q
    <3>1. OnlyRecv' /\ pc' \notin Panics
      BY <1>2, <1>8, <2>9 DEF Fifo, OnlyRecv, Panics
    <3>2. NRxFrames <= FillQueueSize
      BY <2>1, RxConstants DEF RxOrderInv, Starved
    <3>3. Circle'
      BY <3>1, <3>2 DEF RxOrderInv
    <3>4. \A f \in Filled' \cup Range(RxFrames') :
            f # rx_cursor' => umem'[rx_cursor'] < umem'[f]
      BY <1>2, <2>1, <3>3, CursorFirstNext DEF CursorLeads
    <3>5. PICK f \in Filled \cup Range(RxFrames) : f # rx_cursor /\ q = umem[f]
      BY <2>7, <2>9
    <3>6. f \in Filled' \cup Range(RxFrames')
      BY <1>4, <1>5, <3>5
    <3> QED BY <1>2, <3>4, <3>5, <3>6
  <2>10. 1 \in Nat \ {0} /\ s \in [1 .. 1 -> Nat] /\ \A i, j \in 1 .. 1 : i < j => s[i] < s[j]
    BY <2>1
  <2>11. \A i \in 1 .. 1 : Waits(s[i])
    BY <1>6, <2>6
  <2>12. \A p : Waits(p) => p \in 1 .. arrived
    BY <1>2, WaitArrived
  <2>13. Fifo => \A p \in Range(s) : \A q : Waits(q)' => p < q
    BY <2>5, <2>9
  <2> HIDE DEF s
  <2>14. UNCHANGED <<client, in_order, arrived>>
    BY <1>2
  <2> QED BY <1>3, <2>4, <2>8, <2>10, <2>11, <2>12, <2>13, <2>14, ChannelDeliver, Zenon
<1> QED BY <1>1, <1>7, <1>8, Zenon DEF TakePacket, NoPacket

\* At the start nothing waits.
LEMMA ChannelStart == Init => Channel!Init
<1> SUFFICES ASSUME Init PROVE Channel!Init
  OBVIOUS
<1>1. RxTypeOK
  BY RxInit DEF RxInv
<1>2. Filled = {} /\ rxq = <<>> /\ delivered = <<>> /\ arrived = 0
  BY DEF Init, Filled
<1>3. \A p : ~Waits(p)
  BY <1>2 DEF Waits
<1>4. Undelivered = {}
  BY <1>1, <1>3, UndeliveredWait
<1>5. [i \in DOMAIN delivered |-> delivered[i].data] = <<>>
  BY <1>2
<1>6. Fifo \in BOOLEAN
  BY DEF Fifo
<1> QED BY <1>2, <1>4, <1>5, <1>6 DEF Channel!Init

\* Every step is one of the channel or leaves it alone.
LEMMA ChannelStep ==
  ASSUME Pigeonhole, RxInv, RxInv', RxOrderInv, RxOrderInv', [Next]_vars
  PROVE  [Channel!Next]_(Channel!vars)
<1>t. RxTypeOK /\ RxTypeOK'
  BY DEF RxInv
<1>1. CASE Recv
  BY <1>t, <1>1, RecvChannel DEF Channel!Next
<1>2. CASE RecvApply
  BY <1>t, <1>2, RecvApplyChannel DEF Channel!Next
<1>3. CASE Refill \/ RefillBatch \/ RefillPanic
  BY <1>t, <1>3, RefillChannel
<1>4. CASE KTakeFrame \/ KSleep \/ PollPanic \/ Stopped \/ UNCHANGED vars
  BY <1>t, <1>4, QuietChannel
<1>5. CASE \E i \in 1 .. NRxFrames : KReceive(i)
  BY <1>t, <1>5, ArriveChannel DEF Channel!Next
<1>6. CASE KDrop
  BY <1>t, <1>6, DropChannel DEF Channel!Next
<1> QED BY <1>1, <1>2, <1>3, <1>4, <1>5, <1>6 DEF Next, Calls, Refills, Kernel

-----------------------------------------------------------------------------
(* Counting: the facts about finite sets come in only here.                *)

INSTANCE FiniteSetTheorems

\* There are x numbers up to x.
LEMMA UpTo ==
  ASSUME NEW x \in Nat PROVE IsFiniteSet(1 .. x) /\ Cardinality(1 .. x) = x
<1>1. 1 \in Int /\ x \in Int
  OBVIOUS
<1>2. IsFiniteSet(1 .. x) /\ Cardinality(1 .. x) = IF 1 > x THEN 0 ELSE x - 1 + 1
  BY <1>1, FS_Interval, Zenon
<1>3. (IF 1 > x THEN 0 ELSE x - 1 + 1) = x
  OBVIOUS
<1> QED BY <1>2, <1>3

\* Different numbers up to m are at most m.
LEMMA AtMost == Pigeonhole
<1> SUFFICES ASSUME NEW n \in Nat, NEW m \in Nat, NEW t \in Injection(1 .. n, 1 .. m)
             PROVE  n <= m
  BY DEF Pigeonhole
<1>1. /\ IsFiniteSet(1 .. m) /\ Cardinality(1 .. m) = m
      /\ Cardinality(1 .. n) = n
  BY UpTo
<1>2. Cardinality(1 .. n) <= Cardinality(1 .. m)
  BY <1>1, FS_Injection
<1> QED BY <1>1, <1>2

\* The loops around produce_and_wakeup find room at their first try.
THEOREM RxRefillsAtOnce ==
  ASSUME NRxFrames <= FillQueueSize PROVE Spec => []RefillNeverSpins
<1>1. ASSUME RxInv PROVE RefillNeverSpins
  <2> SUFFICES ASSUME pc \in {"refill", "refill_batch"}
               PROVE  Len(fillq) + Len(processed) <= FillQueueSize
    BY DEF RefillNeverSpins
  <2> DEFINE s == fillq \o processed
  <2>1. RxTypeOK /\ fillq \in Seq(Frames) /\ processed \in Seq(Frames) /\ Apart
    BY <1>1 DEF RxInv, RxTypeOK, Panics
  <2>2. s \in Seq(Frames) /\ Len(s) = Len(fillq) + Len(processed) /\ IsInjective(s)
    BY <2>1, ConcatDistinct DEF Apart
  <2> HIDE DEF s
  <2>3. Len(s) \in Nat /\ s \in [1 .. Len(s) -> Frames]
    BY <2>2, LenProperties
  <2>4. s \in Injection(1 .. Len(s), Frames)
    BY <2>2, <2>3 DEF Injection
  <2>5. IsFiniteSet(Frames) /\ Cardinality(Frames) = NRxFrames
    BY RxConstants, FS_Interval DEF Frames
  <2>6. Cardinality(1 .. Len(s)) = Len(s)
    BY <2>3, UpTo
  <2>7. Cardinality(1 .. Len(s)) <= Cardinality(Frames)
    BY <2>4, <2>5, FS_Injection
  <2> QED BY <2>2, <2>3, <2>5, <2>6, <2>7, RxConstants
<1> QED BY <1>1, RxInductive, PTL

\* XskRx implements the channel of RxChannel, for any number of frames, any
\* size of the rings, any caller and any kernel: a packet is lost when it
\* arrives or delivered at most once, with its own data; every call delivers
\* in the order of arrival; and a caller of recv alone (on a kernel that uses
\* the frames in order) or of recv_apply alone gets every packet that waits
\* before any later one.
THEOREM RxIsChannel == Spec => RxChannelSpec
<1>1. RxInv /\ RxInv' /\ RxOrderInv /\ RxOrderInv' /\ [Next]_vars => [Channel!Next]_(Channel!vars)
  BY AtMost, ChannelStep
<1> QED BY <1>1, ChannelStart, RxInductive, RxOrdered, PTL DEF Spec, RxChannelSpec, Channel!Spec
=============================================================================
