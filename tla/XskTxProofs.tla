---------------------------- MODULE XskTxProofs ----------------------------
(***************************************************************************)
(* Theorems about XskTx, for every number of frames, ring size, batch size *)
(* and kernel.                                                             *)
(***************************************************************************)
EXTENDS XskTx, SequenceTheorems, TLAPS

\* A leaf that names no prover is tried with SMT, with Zenon, and with SMT
\* again, given more time.
USE SMT, Zenon, SMTT(30), SMTT(40)

\* The cursor stays in range and advances by one, back to 0 after the last
\* frame.
LEMMA NextCursorValue ==
  ASSUME NEW c \in Frames
  PROVE  /\ NextCursor(c) \in Frames
         /\ NextCursor(c) = IF c = NTxFrames - 1 THEN 0 ELSE c + 1
  BY TxConstants DEF Frames, NextCursor

-----------------------------------------------------------------------------
(* Type correctness                                                        *)

\* put_batch_on_tx_queue is between marking its frames and its return.
Putting == pc \in {"produce", "wakeup", "wakeup_panic"}

\* Inside the loop the range of the batch lies within tx_frames.
PutRange ==
  /\ Putting => cur_batch_size > 0 /\ BatchStart(tx_cursor, cur_batch_size) >= 0
  /\ submitted => pc \in {"wakeup", "wakeup_panic"}

TypeInv == TxTypeOK /\ PutRange

\* What complete_frames does to the completion ring, the counters and the
\* status of the frames keeps their types.
LEMMA CompleteFramesType ==
  ASSUME TxTypeOK, NEW k \in Consumable, CompleteFrames(k)
  PROVE  /\ compq' \in Seq(Frames)
         /\ outstanding_tx_frames' \in Nat
         /\ pkts_tx_completed' \in Nat
         /\ UpdateTxFrames(k) \in [Frames -> Statuses]
<1>1. k \in 0 .. Len(compq) /\ k <= outstanding_tx_frames
  BY DEF Consumable
<1>2. compq \in Seq(Frames) /\ Len(compq) \in Nat
  BY DEF TxTypeOK
<1>3. compq' \in Seq(Frames)
  BY <1>1, <1>2, SubSeqProperties DEF CompleteFrames
<1>4. outstanding_tx_frames' \in Nat /\ pkts_tx_completed' \in Nat
  BY <1>1 DEF CompleteFrames, TxTypeOK
<1>5. UpdateTxFrames(k) \in [Frames -> Statuses]
  BY DEF UpdateTxFrames, TxTypeOK, Statuses
<1> QED BY <1>3, <1>4, <1>5

\* The range that put_batch_on_tx_queue computes ends within tx_frames.
LEMMA BatchRange ==
  ASSUME NEW c \in Frames, NEW cur \in Nat
  PROVE  /\ BatchEnd(c) \in 1 .. NTxFrames
         /\ BatchStart(c, cur) \in Int
         /\ BatchStart(c, cur) + cur = BatchEnd(c)
         /\ BatchStart(c, cur) >= 0 => /\ BatchFrames(c, cur) \subseteq Frames
                                       /\ Batch(c, cur) \in Seq(Frames)
         /\ Len(Batch(c, cur)) = cur
         /\ \A i \in 1 .. cur : Batch(c, cur)[i] = BatchStart(c, cur) + i - 1
<1>1. /\ BatchEnd(c) \in 1 .. NTxFrames
      /\ BatchStart(c, cur) \in Int
      /\ BatchStart(c, cur) + cur = BatchEnd(c)
      /\ BatchStart(c, cur) >= 0 => BatchFrames(c, cur) \subseteq Frames
  BY TxConstants DEF Frames, BatchEnd, BatchStart, BatchFrames
<1>2. ASSUME BatchStart(c, cur) >= 0 PROVE Batch(c, cur) \in Seq(Frames)
  <2>1. \A i \in 1 .. cur : BatchStart(c, cur) + i - 1 \in Frames
    BY <1>1, <1>2, TxConstants DEF Frames
  <2>2. Batch(c, cur) \in [1 .. cur -> Frames]
    BY <2>1 DEF Batch
  <2> QED BY <2>2
<1>3. /\ Len(Batch(c, cur)) = cur
      /\ \A i \in 1 .. cur : Batch(c, cur)[i] = BatchStart(c, cur) + i - 1
  BY DEF Batch
<1> QED BY <1>1, <1>2, <1>3

\* put_batch_on_tx_queue keeps the type of the statuses, and enters its loop
\* only with a range that lies within tx_frames.
LEMMA PutBatchType ==
  ASSUME NEW st \in [Frames -> Statuses], NEW c \in Frames, NEW cur \in Nat,
         PutBatch(st, c, cur)
  PROVE  /\ status' \in [Frames -> Statuses]
         /\ pc' \in {"drain_check", "range_panic", "produce"}
         /\ pc' = "produce" => cur > 0 /\ BatchStart(c, cur) >= 0
  BY DEF PutBatch, Statuses

\* XskTx::new establishes the type invariant.
LEMMA TypeInit == Init => TypeInv
  BY TxConstants DEF Init, TypeInv, TxTypeOK, PutRange, Putting, Frames, Statuses, Pcs, Panics

\* Every call, loop iteration and kernel step keeps the type invariant.
LEMMA TypeStep == TypeInv /\ [Next]_vars => TypeInv'
<1> SUFFICES ASSUME TypeInv, [Next]_vars PROVE TypeInv'
  OBVIOUS
<1>t. TxTypeOK /\ PutRange
  BY DEF TypeInv
<1>a. ASSUME NEW k \in Consumable, CompleteFrames(k), pc = "idle",
             Reject(UpdateTxFrames(k)) \/ Accept(UpdateTxFrames(k))
               \/ RefuseLongData(UpdateTxFrames(k)),
             UNCHANGED <<pkts_tx, draining, submitted, txq, kernelVars>>
      PROVE  TypeInv'
  <2> DEFINE st == UpdateTxFrames(k)
  <2>1. /\ compq' \in Seq(Frames) /\ outstanding_tx_frames' \in Nat
        /\ pkts_tx_completed' \in Nat /\ st \in [Frames -> Statuses]
    BY <1>t, <1>a, CompleteFramesType
  <2>2. ~submitted
    BY <1>t, <1>a DEF PutRange
  <2> HIDE DEF st
  <2>3. CASE Reject(st)
    BY <1>t, <1>a, <2>1, <2>2, <2>3
       DEF Reject, TypeInv, TxTypeOK, PutRange, Putting, kernelVars, dataVars
  <2>4. CASE RefuseLongData(st)
    BY <1>t, <1>a, <2>1, <2>2, <2>4
       DEF RefuseLongData, TypeInv, TxTypeOK, PutRange, Putting, kernelVars, dataVars,
           Pcs, Panics
  <2>5. CASE Accept(st)
    <3>1. tx_cursor' \in Frames /\ tx_cursor' = NextCursor(tx_cursor)
      BY <1>t, <2>5, NextCursorValue DEF Accept, TxTypeOK
    <3>2. /\ cur_batch_size' \in Nat /\ cur_batch_size' = cur_batch_size + 1
          /\ next_pkt' \in Nat /\ umem' \in [Frames -> Nat] /\ result' = "ok"
      BY <1>t, <2>5 DEF Accept, WriteToUmem, TxTypeOK
    <3>3. /\ status' \in [Frames -> Statuses]
          /\ pc' \in {"idle", "drain_check", "range_panic", "produce"}
          /\ pc' = "produce" => cur_batch_size' > 0 /\ BatchStart(tx_cursor', cur_batch_size') >= 0
      <4>1. CASE PutBatch(st, tx_cursor', cur_batch_size')
        BY <2>1, <3>1, <3>2, <4>1, PutBatchType
      <4>2. CASE status' = st /\ pc' = pc
        BY <1>a, <2>1, <4>2
      <4> QED BY <2>5, <3>1, <3>2, <4>1, <4>2 DEF Accept
    <3> QED BY <1>t, <1>a, <2>1, <2>2, <3>1, <3>2, <3>3
            DEF TypeInv, TxTypeOK, PutRange, Putting, kernelVars, Pcs, Panics, BatchStart, BatchEnd
  <2> QED BY <1>a, <2>3, <2>4, <2>5 DEF st
<1>1. CASE Send
  BY <1>1, <1>a DEF Send
<1>2. CASE SendApply
  BY <1>2, <1>a DEF SendApply
<1>3. CASE Prefill
  BY <1>t, <1>3 DEF Prefill, TypeInv, TxTypeOK, PutRange, Putting, statVars, ringVars, kernelVars,
                  Pcs, Panics, BatchStart, BatchEnd
<1>4. CASE DrainCall
  BY <1>t, <1>4 DEF DrainCall, TypeInv, TxTypeOK, PutRange, Putting, statVars, dataVars,
                  ringVars, kernelVars, Pcs
<1>5. CASE Produce
  <2>1. /\ cur_batch_size \in Nat /\ tx_cursor \in Frames /\ ~submitted
        /\ BatchStart(tx_cursor, cur_batch_size) >= 0
    BY <1>t, <1>5 DEF Produce, TxTypeOK, PutRange, Putting
  <2>2. Batch(tx_cursor, cur_batch_size) \in Seq(Frames)
    BY <2>1, BatchRange
  <2>3. \/ txq' = txq \o Batch(tx_cursor, cur_batch_size) /\ submitted' = TRUE
        \/ txq' = txq /\ submitted' = submitted
    BY <1>5 DEF Produce
  <2>4. txq' \in Seq(Frames)
    <3>1. txq \in Seq(Frames)
      BY <1>t DEF TxTypeOK
    <3>2. txq \o Batch(tx_cursor, cur_batch_size) \in Seq(Frames)
      BY <2>2, <3>1, ConcatProperties
    <3> QED BY <2>3, <3>1, <3>2, ZenonT(30)
  <2>5. submitted' \in BOOLEAN
    BY <1>t, <2>3, ZenonT(30) DEF TxTypeOK
  <2> QED BY <1>t, <1>5, <2>1, <2>4, <2>5
          DEF Produce, TypeInv, TxTypeOK, PutRange, Putting, statVars, dataVars, kernelVars, Pcs,
              BatchStart, BatchEnd
<1>r. ASSUME ProduceReturn, budget' \in Nat PROVE TypeInv'
  <2>1. CASE submitted
    <3>1. /\ pkts_tx' \in Nat /\ outstanding_tx_frames' \in Nat /\ cur_batch_size' = 0
          /\ submitted' = FALSE /\ pc' \in {"idle", "drain_check"}
      BY <1>t, <1>r, <2>1 DEF ProduceReturn, TxTypeOK
    <3> QED BY <1>t, <1>r, <3>1, ZenonT(30)
            DEF ProduceReturn, TypeInv, TxTypeOK, PutRange, Putting, dataVars, ringVars, Pcs
  <2>2. CASE ~submitted
    <3>1. /\ pc' = "produce"
          /\ UNCHANGED <<pkts_tx, outstanding_tx_frames, cur_batch_size, submitted, tx_cursor>>
      BY <1>r, <2>2 DEF ProduceReturn
    <3> QED BY <1>t, <1>r, <2>2, <3>1
            DEF ProduceReturn, TypeInv, TxTypeOK, PutRange, Putting, dataVars, ringVars, Pcs,
                BatchStart, BatchEnd
  <2> QED BY <2>1, <2>2
<1>6. CASE NoWakeup
  BY <1>t, <1>6, <1>r DEF NoWakeup, TxTypeOK
<1>7. CASE WakeupOk
  BY <1>t, <1>7, <1>r, TxConstants DEF WakeupOk, WokenBudget, TxTypeOK
<1>8. CASE WakeupSwallowed
  BY <1>t, <1>8, <1>r DEF WakeupSwallowed, TxTypeOK
<1>9. CASE WakeupFatal
  BY <1>t, <1>9 DEF WakeupFatal, TypeInv, TxTypeOK, PutRange, Putting, statVars, dataVars,
                  ringVars, kernelVars, Pcs, Panics, BatchStart, BatchEnd
<1>10. CASE DrainIter
  <2> PICK k \in Consumable :
        CompleteFrames(k) /\ PutBatch(UpdateTxFrames(k), tx_cursor, cur_batch_size)
    BY <1>10 DEF DrainIter
  <2>1. /\ compq' \in Seq(Frames) /\ outstanding_tx_frames' \in Nat
        /\ pkts_tx_completed' \in Nat /\ UpdateTxFrames(k) \in [Frames -> Statuses]
    BY <1>t, CompleteFramesType
  <2>2. /\ status' \in [Frames -> Statuses]
        /\ pc' \in {"drain_check", "range_panic", "produce"}
        /\ pc' = "produce" => cur_batch_size > 0 /\ BatchStart(tx_cursor, cur_batch_size) >= 0
    BY <1>t, <2>1, PutBatchType, ZenonT(30) DEF TxTypeOK
  <2>3. ~submitted
    BY <1>t, <1>10 DEF DrainIter, PutRange
  <2> QED BY <1>t, <1>10, <2>1, <2>2, <2>3
          DEF DrainIter, TypeInv, TxTypeOK, PutRange, Putting, dataVars, kernelVars, Pcs, Panics,
              BatchStart, BatchEnd
<1>11. CASE DrainCheck
  BY <1>t, <1>11, ZenonT(30) DEF DrainCheck, TypeInv, TxTypeOK, PutRange, Putting, statVars, dataVars,
                   ringVars, kernelVars, Pcs
<1>12. CASE KTransmit
  <2>1. Head(txq) \in Frames /\ Tail(txq) \in Seq(Frames)
    BY <1>t, <1>12, HeadTailProperties DEF KTransmit, TxTypeOK
  <2>2. wire' \in Seq(Nat) /\ inflight' \in SUBSET Frames /\ budget' \in Nat
    BY <1>t, <1>12, <2>1, AppendProperties DEF KTransmit, TxTypeOK
  <2> QED BY <1>t, <1>12, <2>1, <2>2
          DEF KTransmit, TypeInv, TxTypeOK, PutRange, Putting, userVars, statVars, dataVars,
              BatchStart, BatchEnd
<1>13. CASE \E f \in Frames : KComplete(f)
  <2> PICK f \in Frames : KComplete(f)
    BY <1>13
  <2>1. compq' \in Seq(Frames)
    BY <1>t, AppendProperties DEF KComplete, TxTypeOK
  <2> QED BY <1>t, <2>1
          DEF KComplete, TypeInv, TxTypeOK, PutRange, Putting, userVars, statVars, dataVars,
              BatchStart, BatchEnd
<1>14. CASE KSleep
  BY <1>t, <1>14 DEF KSleep, TypeInv, TxTypeOK, PutRange, Putting, userVars, statVars, dataVars,
                   ringVars, BatchStart, BatchEnd
<1>15. CASE UNCHANGED vars
  BY <1>t, <1>15 DEF vars, TypeInv, TxTypeOK, PutRange, Putting, statVars, dataVars, ringVars,
                   kernelVars, BatchStart, BatchEnd
<1> QED
  BY <1>1, <1>2, <1>3, <1>4, <1>5, <1>6, <1>7, <1>8, <1>9, <1>10, <1>11, <1>12, <1>13, <1>14,
     <1>15 DEF Next, Calls, Loops, Kernel, Stopped

\* Every variable of XskTx keeps its type in every behaviour: the counters
\* never wrap below zero, the cursor stays inside tx_frames, and only frames
\* of tx_frames are ever on a ring.
THEOREM TxTypeCorrect == Spec => []TxTypeOK
<1>1. TypeInv => TxTypeOK
  BY DEF TypeInv
<1> QED BY <1>1, TypeInit, TypeStep, PTL DEF Spec
-----------------------------------------------------------------------------
(* Ownership of the frames                                                 *)

\* The frame k positions before c, cyclically.
Back(c, k) == IF k <= c THEN c - k ELSE c - k + NTxFrames

\* The packets written since the last put_batch_on_tx_queue are in frames
\* that are still Free.  (A caller that fills more than all frames without
\* submitting wraps onto the same frames.)
PendingFree ==
  ~Putting => \A k \in 1 .. cur_batch_size :
                k <= NTxFrames => status[Back(tx_cursor, k)] = "Free"

\* Before the first send nothing has been submitted.
Fresh ==
  /\ next_pkt > 0
  /\ next_pkt = 1 => /\ cur_batch_size = 0
                     /\ txq = <<>> /\ inflight = {} /\ compq = <<>>

\* FrameOwnership alone is not inductive: put_batch_on_tx_queue marks its
\* range without looking at the status of its frames.
OwnInv == TypeInv /\ FrameOwnership /\ PendingFree /\ Fresh

\* Going back from the advanced cursor.
LEMMA BackNext ==
  ASSUME NEW c \in Frames, NEW k \in 1 .. NTxFrames
  PROVE  /\ Back(c, k) \in Frames
         /\ Back(NextCursor(c), k) = IF k = 1 THEN c ELSE Back(c, k - 1)
<1>1. /\ NextCursor(c) \in Frames
      /\ NextCursor(c) = IF c = NTxFrames - 1 THEN 0 ELSE c + 1
  BY NextCursorValue
<1> QED BY <1>1, TxConstants DEF Back, Frames

\* The range of put_batch_on_tx_queue is the last cur frames before the
\* cursor, if it does not start below zero.
LEMMA BatchIsPending ==
  ASSUME NEW c \in Frames, NEW cur \in Nat, BatchStart(c, cur) >= 0,
         NEW f \in BatchFrames(c, cur)
  PROVE  \E k \in 1 .. cur : k <= NTxFrames /\ f = Back(c, k)
<1>1. BatchEnd(c) - f \in 1 .. cur /\ BatchEnd(c) - f <= NTxFrames
  BY TxConstants DEF BatchStart, BatchEnd, BatchFrames, Frames
<1>2. f = Back(c, BatchEnd(c) - f)
  BY TxConstants DEF BatchStart, BatchEnd, BatchFrames, Frames, Back
<1> QED BY <1>1, <1>2

\* complete_frames takes frames off the completion ring and makes exactly
\* those Free.
LEMMA CompleteFramesOwn ==
  ASSUME OwnInv, NEW k \in Consumable, CompleteFrames(k), UNCHANGED <<txq, inflight>>
  PROVE  /\ \A i, j \in 1 .. Len(compq') : compq'[i] = compq'[j] => i = j
         /\ \A f \in Frames : OnCompRing(f)' => OnCompRing(f)
         /\ \A f \in Frames : UpdateTxFrames(k)[f] = "OnTxQueue"
                               <=> (KernelOwned(f)' \/ f \in Submitting)
         /\ \A f \in Frames : status[f] = "Free" => UpdateTxFrames(k)[f] = "Free"
         /\ compq = <<>> => compq' = <<>>
<1>1. /\ k \in 0 .. Len(compq) /\ compq \in Seq(Frames) /\ Len(compq) \in Nat
      /\ status \in [Frames -> Statuses] /\ FrameOwnership
  BY DEF OwnInv, TypeInv, TxTypeOK, Consumable
<1>2. /\ compq' \in Seq(Frames) /\ Len(compq') = Len(compq) - k
      /\ \A i \in 1 .. Len(compq') : compq'[i] = compq[k + i]
  BY <1>1, SubSeqProperties DEF CompleteFrames
<1>3. \A i, j \in 1 .. Len(compq') : compq'[i] = compq'[j] => i = j
  <2> SUFFICES ASSUME NEW i \in 1 .. Len(compq'), NEW j \in 1 .. Len(compq'),
                      compq'[i] = compq'[j]
               PROVE  i = j
    OBVIOUS
  <2>1. k + i \in 1 .. Len(compq) /\ k + j \in 1 .. Len(compq)
    BY <1>1, <1>2
  <2>2. compq[k + i] = compq[k + j]
    BY <1>2
  <2>3. k + i = k + j
    BY <1>1, <2>1, <2>2 DEF FrameOwnership
  <2> QED BY <1>1, <1>2, <2>3
<1>4. \A f \in Frames : OnCompRing(f)' => OnCompRing(f)
  BY <1>1, <1>2 DEF OnCompRing
<1>5. \A f \in Frames : OnCompRing(f) => OnCompRing(f)' \/ \E i \in 1 .. k : compq[i] = f
  <2> SUFFICES ASSUME NEW f \in Frames, NEW i \in 1 .. Len(compq), compq[i] = f, ~(i \in 1 .. k)
               PROVE  OnCompRing(f)'
    BY <1>1 DEF OnCompRing
  <2>1. i - k \in 1 .. Len(compq') /\ compq'[i - k] = f
    BY <1>1, <1>2
  <2> QED BY <2>1 DEF OnCompRing
<1>6. \A f \in Frames : ~(OnCompRing(f)' /\ \E i \in 1 .. k : compq[i] = f)
  <2> SUFFICES ASSUME NEW i \in 1 .. k, NEW j \in 1 .. Len(compq'), compq'[j] = compq[i]
               PROVE  FALSE
    BY DEF OnCompRing
  <2>1. /\ i \in 1 .. Len(compq) /\ k + j \in 1 .. Len(compq) /\ i # k + j
        /\ compq[i] = compq[k + j]
    BY <1>1, <1>2
  <2> QED BY <1>1, <2>1 DEF FrameOwnership
<1>7. \A f \in Frames : (\E i \in 1 .. k : compq[i] = f) => OnCompRing(f)
  BY <1>1 DEF OnCompRing
<1>8. \A f \in Frames : UpdateTxFrames(k)[f] =
        IF \E i \in 1 .. k : compq[i] = f THEN "Free" ELSE status[f]
  BY DEF UpdateTxFrames
<1>9. ASSUME NEW f \in Frames
      PROVE  UpdateTxFrames(k)[f] = "OnTxQueue" <=> (KernelOwned(f)' \/ f \in Submitting)
  <2>1. /\ ~(OnTxRing(f) /\ OnCompRing(f)) /\ ~(f \in inflight /\ OnCompRing(f))
        /\ ~(KernelOwned(f) /\ f \in Submitting)
        /\ status[f] = "OnTxQueue" <=> (KernelOwned(f) \/ f \in Submitting)
    BY <1>1 DEF FrameOwnership
  <2>2. OnTxRing(f)' <=> OnTxRing(f)
    BY DEF OnTxRing
  <2>3. CASE \E i \in 1 .. k : compq[i] = f
    BY <1>6, <1>7, <1>8, <2>1, <2>2, <2>3 DEF KernelOwned
  <2>4. CASE ~ \E i \in 1 .. k : compq[i] = f
    BY <1>4, <1>5, <1>8, <2>1, <2>2, <2>4 DEF KernelOwned
  <2> QED BY <2>3, <2>4
<1>10. compq = <<>> => compq' = <<>>
  BY <1>1, <1>2
<1> QED BY <1>3, <1>4, <1>8, <1>9, <1>10

\* put_batch_on_tx_queue marks only frames that are Free, hence none that the
\* kernel owns: its range is that of the pending packets.
LEMMA PutBatchOwn ==
  ASSUME NEW st \in [Frames -> Statuses], TypeInv', ~submitted',
         PutBatch(st, tx_cursor', cur_batch_size'),
         \A f \in Frames : st[f] = "OnTxQueue" <=> KernelOwned(f)',
         \A k \in 1 .. cur_batch_size' :
           k <= NTxFrames => st[Back(tx_cursor', k)] = "Free"
  PROVE  /\ \A f \in Frames :
              /\ ~(KernelOwned(f)' /\ f \in Submitting')
              /\ status'[f] = "OnTxQueue" <=> (KernelOwned(f)' \/ f \in Submitting')
         /\ PendingFree'
<1>1. tx_cursor' \in Frames /\ cur_batch_size' \in Nat
  BY DEF TypeInv, TxTypeOK
<1>2. CASE status' = st /\ pc' \in {"drain_check", "range_panic"}
  <2>1. Submitting' = {}
    BY <1>2 DEF Submitting
  <2>2. PendingFree'
    BY <1>2 DEF PendingFree, Back
  <2> QED BY <1>2, <2>1, <2>2
<1>3. CASE /\ BatchStart(tx_cursor', cur_batch_size') >= 0
           /\ status' = [f \in Frames |->
                 IF f \in BatchFrames(tx_cursor', cur_batch_size') THEN "OnTxQueue" ELSE st[f]]
           /\ pc' = "produce"
  <2>1. Submitting' = BatchFrames(tx_cursor', cur_batch_size')
    BY <1>3 DEF Submitting, BatchFrames, BatchStart, BatchEnd
  <2>2. \A f \in BatchFrames(tx_cursor', cur_batch_size') : st[f] = "Free"
    BY <1>1, <1>3, BatchIsPending
  <2>3. PendingFree'
    BY <1>3 DEF PendingFree, Putting
  <2> QED BY <1>3, <2>1, <2>2, <2>3
<1> QED BY <1>2, <1>3 DEF PutBatch

\* The part of FrameOwnership that is about the rings alone.
OwnParts ==
  /\ \A i, j \in 1 .. Len(txq) : txq[i] = txq[j] => i = j
  /\ \A i, j \in 1 .. Len(compq) : compq[i] = compq[j] => i = j
  /\ \A f \in Frames :
       /\ ~(OnTxRing(f) /\ f \in inflight)
       /\ ~(OnTxRing(f) /\ OnCompRing(f))
       /\ ~(f \in inflight /\ OnCompRing(f))

\* A send, whatever its outcome.
LEMMA SendOwn ==
  ASSUME OwnInv, TypeInv', pc = "idle", NEW k \in Consumable, CompleteFrames(k),
         Reject(UpdateTxFrames(k)) \/ Accept(UpdateTxFrames(k))
           \/ RefuseLongData(UpdateTxFrames(k)),
         UNCHANGED <<pkts_tx, draining, submitted, txq, kernelVars>>
  PROVE  OwnInv'
<1> DEFINE st == UpdateTxFrames(k)
<1>1. /\ TypeInv /\ FrameOwnership /\ PendingFree /\ Fresh /\ ~submitted
      /\ tx_cursor \in Frames /\ cur_batch_size \in Nat /\ st \in [Frames -> Statuses]
      /\ UNCHANGED <<txq, inflight>>
  BY CompleteFramesType, ZenonT(30) DEF OwnInv, TypeInv, TxTypeOK, PutRange, kernelVars
<1>2. /\ \A i, j \in 1 .. Len(compq') : compq'[i] = compq'[j] => i = j
      /\ \A f \in Frames : OnCompRing(f)' => OnCompRing(f)
      /\ \A f \in Frames : st[f] = "OnTxQueue" <=> (KernelOwned(f)' \/ f \in Submitting)
      /\ \A f \in Frames : status[f] = "Free" => st[f] = "Free"
      /\ compq = <<>> => compq' = <<>>
  BY <1>1, CompleteFramesOwn
<1>3. Submitting = {}
  BY DEF Submitting
<1>4. \A j \in 1 .. cur_batch_size : j <= NTxFrames => st[Back(tx_cursor, j)] = "Free"
  <2> SUFFICES ASSUME NEW j \in 1 .. cur_batch_size, j <= NTxFrames
               PROVE  st[Back(tx_cursor, j)] = "Free"
    OBVIOUS
  <2>1. Back(tx_cursor, j) \in Frames
    BY <1>1, BackNext
  <2>2. status[Back(tx_cursor, j)] = "Free"
    BY <1>1 DEF PendingFree, Putting
  <2> QED BY <1>2, <2>1, <2>2
<1>5. OwnParts'
  <2>1. \A f \in Frames : OnTxRing(f)' <=> OnTxRing(f)
    BY <1>1 DEF OnTxRing
  <2>2. \A i, j \in 1 .. Len(txq') : txq'[i] = txq'[j] => i = j
    BY <1>1 DEF FrameOwnership
  <2>3. \A f \in Frames :
          /\ ~(OnTxRing(f)' /\ f \in inflight')
          /\ ~(OnTxRing(f)' /\ OnCompRing(f)')
          /\ ~(f \in inflight' /\ OnCompRing(f)')
    BY <1>1, <1>2, <2>1 DEF FrameOwnership
  <2> QED BY <1>2, <2>2, <2>3 DEF OwnParts
<1>6. \A f \in Frames : st[f] = "OnTxQueue" <=> KernelOwned(f)'
  BY <1>2, <1>3
<1> HIDE DEF st
<1>7. ASSUME status' = st, pc' \in {"idle", "write_panic"},
             UNCHANGED <<tx_cursor, cur_batch_size, next_pkt>>
      PROVE  OwnInv'
  <2>1. Submitting' = {}
    BY <1>7 DEF Submitting
  <2>2. PendingFree'
    BY <1>4, <1>7 DEF PendingFree, Back
  <2>3. Fresh'
    BY <1>1, <1>2, <1>7 DEF Fresh
  <2>4. FrameOwnership'
    BY <1>5, <1>6, <1>7, <2>1 DEF FrameOwnership, OwnParts
  <2> QED BY <2>2, <2>3, <2>4 DEF OwnInv
<1>8. CASE Reject(st)
  BY <1>7, <1>8 DEF Reject, dataVars
<1>9. CASE RefuseLongData(st)
  BY <1>7, <1>9 DEF RefuseLongData, dataVars
<1>10. CASE Accept(st)
  <2>1. /\ tx_cursor' = NextCursor(tx_cursor) /\ cur_batch_size' = cur_batch_size + 1
        /\ next_pkt' = next_pkt + 1 /\ st[tx_cursor] = "Free"
    BY <1>10 DEF Accept, IsFree
  <2>2. \A j \in 1 .. cur_batch_size' : j <= NTxFrames => st[Back(tx_cursor', j)] = "Free"
    <3> SUFFICES ASSUME NEW j \in 1 .. cur_batch_size', j <= NTxFrames
                 PROVE  st[Back(tx_cursor', j)] = "Free"
      OBVIOUS
    <3>1. Back(tx_cursor', j) = IF j = 1 THEN tx_cursor ELSE Back(tx_cursor, j - 1)
      BY <1>1, <2>1, BackNext
    <3>2. j # 1 => j - 1 \in 1 .. cur_batch_size /\ j - 1 <= NTxFrames
      BY <1>1, <2>1, TxConstants
    <3> QED BY <1>4, <2>1, <3>1, <3>2
  <2>3. Fresh'
    BY <1>1, <2>1 DEF Fresh, TypeInv, TxTypeOK
  <2>4. CASE PutBatch(st, tx_cursor', cur_batch_size')
    <3>1. /\ \A f \in Frames :
               /\ ~(KernelOwned(f)' /\ f \in Submitting')
               /\ status'[f] = "OnTxQueue" <=> (KernelOwned(f)' \/ f \in Submitting')
          /\ PendingFree'
      BY <1>1, <1>6, <2>2, <2>4, PutBatchOwn
    <3>2. FrameOwnership'
      BY <1>5, <3>1 DEF FrameOwnership, OwnParts
    <3> QED BY <2>3, <3>1, <3>2 DEF OwnInv
  <2>5. CASE status' = st /\ pc' = pc
    <3>1. Submitting' = {}
      BY <2>5 DEF Submitting
    <3>2. PendingFree'
      BY <2>2, <2>5 DEF PendingFree, Back
    <3>3. FrameOwnership'
      BY <1>5, <1>6, <2>5, <3>1 DEF FrameOwnership, OwnParts
    <3> QED BY <2>3, <3>2, <3>3 DEF OwnInv
  <2> QED BY <1>10, <2>1, <2>4, <2>5 DEF Accept
<1> QED BY <1>8, <1>9, <1>10 DEF st

\* XskTx::new establishes the ownership invariant: every frame is Free.
LEMMA OwnInit == Init => OwnInv
<1> SUFFICES ASSUME Init PROVE OwnInv
  OBVIOUS
<1>1. TypeInv
  BY TypeInit
<1>2. FrameOwnership
  BY DEF Init, FrameOwnership, KernelOwned, OnTxRing, OnCompRing, Submitting
<1>3. PendingFree /\ Fresh
  BY DEF Init, PendingFree, Fresh
<1> QED BY <1>1, <1>2, <1>3 DEF OwnInv

\* Every call, loop iteration and kernel step keeps the ownership invariant.
LEMMA OwnStep == OwnInv /\ [Next]_vars => OwnInv'
<1> SUFFICES ASSUME OwnInv, [Next]_vars PROVE OwnInv'
  OBVIOUS
<1>t. TypeInv /\ TypeInv'
  BY TypeStep DEF OwnInv
<1>o. FrameOwnership /\ PendingFree /\ Fresh
  BY DEF OwnInv
<1>1. CASE Send
  BY <1>t, <1>1, SendOwn DEF Send
<1>2. CASE SendApply
  BY <1>t, <1>2, SendOwn DEF SendApply
<1>s. ASSUME UNCHANGED <<status, tx_cursor, cur_batch_size, txq, compq, inflight, next_pkt>>,
             Submitting' = Submitting, Putting' <=> Putting
      PROVE  OwnInv'
  <2>1. \A f \in Frames : KernelOwned(f)' <=> KernelOwned(f)
    BY <1>s DEF KernelOwned, OnTxRing, OnCompRing
  <2>2. FrameOwnership'
    BY <1>o, <1>s, <2>1 DEF FrameOwnership, OnTxRing, OnCompRing
  <2>3. PendingFree' /\ Fresh'
    BY <1>o, <1>s DEF PendingFree, Fresh, Back
  <2> QED BY <1>t, <2>2, <2>3 DEF OwnInv
<1>3. CASE Prefill
  BY <1>3, <1>s DEF Prefill, ringVars, kernelVars, Submitting, Putting, BatchFrames, BatchStart,
                    BatchEnd
<1>4. CASE DrainCall
  BY <1>4, <1>s DEF DrainCall, dataVars, ringVars, kernelVars, Submitting, Putting
<1>5. CASE Produce
  <2> DEFINE b == Batch(tx_cursor, cur_batch_size)
  <2>1. /\ tx_cursor \in Frames /\ cur_batch_size \in Nat /\ txq \in Seq(Frames)
        /\ BatchStart(tx_cursor, cur_batch_size) >= 0 /\ ~submitted
    BY <1>t, <1>5 DEF Produce, TypeInv, TxTypeOK, PutRange, Putting
  <2>2. /\ BatchStart(tx_cursor, cur_batch_size) \in Int
        /\ BatchStart(tx_cursor, cur_batch_size) + cur_batch_size = BatchEnd(tx_cursor)
        /\ b \in Seq(Frames) /\ Len(b) = cur_batch_size
        /\ \A i \in 1 .. cur_batch_size :
             b[i] = BatchStart(tx_cursor, cur_batch_size) + i - 1
    BY <2>1, BatchRange
  <2>3. Submitting = BatchFrames(tx_cursor, cur_batch_size)
    BY <1>5, <2>1 DEF Produce, Submitting
  <2>4. UNCHANGED <<status, tx_cursor, cur_batch_size, compq, inflight, next_pkt>> /\ pc' = "wakeup"
    BY <1>5 DEF Produce, dataVars, kernelVars
  <2>5. CASE txq' = txq \o b /\ submitted' = TRUE
    <3> DEFINE start == BatchStart(tx_cursor, cur_batch_size)
    <3>a. start \in Int /\ Len(txq) \in Nat /\ Submitting = start .. start + cur_batch_size - 1
      BY <2>1, <2>2, <2>3 DEF BatchFrames
    <3> HIDE DEF b, start
    <3>b. Len(txq') = Len(txq) + cur_batch_size
      <4>1. Len(txq \o b) = Len(txq) + Len(b)
        BY <2>1, <2>2, ConcatProperties, ZenonT(30)
      <4> QED BY <2>2, <2>5, <4>1
    <3>c. \A i \in 1 .. Len(txq) : txq'[i] = txq[i]
      BY <2>1, <2>2, <2>5
    <3>d. \A i \in 1 .. cur_batch_size : txq'[Len(txq) + i] = start + i - 1
      <4>1. \A i \in 1 .. cur_batch_size : txq'[Len(txq) + i] = b[i]
        BY <2>1, <2>2, <2>5
      <4> QED BY <2>2, <4>1 DEF start
    <3>1. \A i \in 1 .. Len(txq') : i > Len(txq) => txq'[i] = start + (i - Len(txq)) - 1
      <4> SUFFICES ASSUME NEW i \in 1 .. Len(txq'), i > Len(txq)
                   PROVE  txq'[i] = start + (i - Len(txq)) - 1
        OBVIOUS
      <4>1. i - Len(txq) \in 1 .. cur_batch_size /\ Len(txq) + (i - Len(txq)) = i
        BY <2>1, <3>a, <3>b
      <4> QED BY <3>d, <4>1
    <3>2. \A i \in 1 .. Len(txq') : i > Len(txq) => txq'[i] \in Submitting
      BY <2>1, <3>a, <3>b, <3>1
    <3>3. \A f \in Submitting : \E i \in 1 .. Len(txq') : txq'[i] = f
      <4> SUFFICES ASSUME NEW f \in Submitting PROVE \E i \in 1 .. Len(txq') : txq'[i] = f
        OBVIOUS
      <4>1. f - start + 1 \in 1 .. cur_batch_size /\ start + (f - start + 1) - 1 = f
        BY <2>1, <3>a
      <4>2. txq'[Len(txq) + (f - start + 1)] = f
        BY <3>d, <4>1
      <4>3. Len(txq) + (f - start + 1) \in 1 .. Len(txq')
        BY <2>1, <3>a, <3>b, <4>1
      <4> QED BY <4>2, <4>3
    <3>4. \A f \in Frames : OnTxRing(f)' <=> OnTxRing(f) \/ f \in Submitting
      <4>1. \A f \in Frames : OnTxRing(f) => OnTxRing(f)'
        BY <2>1, <3>a, <3>b, <3>c DEF OnTxRing
      <4>2. \A f \in Frames : OnTxRing(f)' => OnTxRing(f) \/ f \in Submitting
        BY <3>a, <3>c, <3>2 DEF OnTxRing
      <4> QED BY <3>3, <4>1, <4>2 DEF OnTxRing
    <3>5. \A i, j \in 1 .. Len(txq') : txq'[i] = txq'[j] => i = j
      <4> SUFFICES ASSUME NEW i \in 1 .. Len(txq'), NEW j \in 1 .. Len(txq'), txq'[i] = txq'[j]
                   PROVE  i = j
        OBVIOUS
      <4>1. CASE i <= Len(txq) /\ j <= Len(txq)
        BY <1>o, <3>a, <3>c, <4>1 DEF FrameOwnership
      <4>2. CASE i > Len(txq) /\ j > Len(txq)
        BY <3>a, <3>b, <3>1, <4>2
      <4>3. ASSUME NEW m \in 1 .. Len(txq), NEW n \in 1 .. Len(txq'), n > Len(txq),
                   txq'[m] = txq'[n]
            PROVE  FALSE
        <5>1. txq[m] = txq'[m] /\ txq[m] \in Frames
          BY <2>1, <3>c, <4>3
        <5>2. KernelOwned(txq[m]) /\ txq[m] \in Submitting
          BY <3>2, <4>3, <5>1 DEF KernelOwned, OnTxRing
        <5> QED BY <1>o, <5>1, <5>2 DEF FrameOwnership
      <4> QED BY <3>a, <3>b, <4>1, <4>2, <4>3
    <3>6. \A f \in Frames : OnCompRing(f)' <=> OnCompRing(f)
      BY <2>4 DEF OnCompRing
    <3>7. Submitting' = {}
      BY <2>5 DEF Submitting
    <3>8. \A f \in Frames : KernelOwned(f)' <=> KernelOwned(f) \/ f \in Submitting
      BY <2>4, <3>4, <3>6 DEF KernelOwned
    <3>9. FrameOwnership'
      <4>1. \A f \in Frames :
              /\ ~(OnTxRing(f)' /\ f \in inflight')
              /\ ~(OnTxRing(f)' /\ OnCompRing(f)')
              /\ ~(f \in inflight' /\ OnCompRing(f)')
        BY <1>o, <2>4, <3>4, <3>6 DEF FrameOwnership, KernelOwned
      <4>2. \A i, j \in 1 .. Len(compq') : compq'[i] = compq'[j] => i = j
        BY <1>o, <2>4 DEF FrameOwnership
      <4>3. \A f \in Frames : status'[f] = "OnTxQueue" <=> KernelOwned(f)'
        BY <1>o, <2>4, <3>8 DEF FrameOwnership
      <4> QED BY <3>5, <3>7, <4>1, <4>2, <4>3 DEF FrameOwnership
    <3>10. PendingFree'
      BY <2>4 DEF PendingFree, Putting
    <3>11. Fresh'
      <4>1. next_pkt = 1 => txq' = <<>>
        BY <1>o, <2>1, <3>b DEF Fresh
      <4> QED BY <1>o, <2>4, <4>1 DEF Fresh
    <3> QED BY <1>t, <3>9, <3>10, <3>11 DEF OwnInv
  <2>6. CASE txq' = txq /\ submitted' = submitted
    <3>1. Submitting' = Submitting /\ (Putting' <=> Putting)
      BY <1>5, <2>1, <2>4, <2>6
         DEF Produce, Submitting, Putting, BatchFrames, BatchStart, BatchEnd
    <3> QED BY <1>s, <2>4, <2>6, <3>1
  <2> QED BY <1>5, <2>5, <2>6, ZenonT(30) DEF Produce
<1>r. ASSUME ProduceReturn PROVE OwnInv'
  <2>1. UNCHANGED <<status, tx_cursor, txq, compq, inflight, next_pkt>> /\ pc = "wakeup"
    BY <1>r DEF ProduceReturn, dataVars, ringVars
  <2>2. CASE submitted
    <3>1. cur_batch_size' = 0 /\ pc' \in {"idle", "drain_check"}
      BY <1>r, <2>2 DEF ProduceReturn
    <3>2. Submitting = {} /\ Submitting' = {}
      BY <2>2, <3>1 DEF Submitting
    <3>3. \A f \in Frames : KernelOwned(f)' <=> KernelOwned(f)
      BY <2>1 DEF KernelOwned, OnTxRing, OnCompRing
    <3>4. FrameOwnership'
      BY <1>o, <2>1, <3>2, <3>3 DEF FrameOwnership, OnTxRing, OnCompRing
    <3>5. PendingFree' /\ Fresh'
      BY <1>o, <2>1, <3>1 DEF PendingFree, Fresh
    <3> QED BY <1>t, <3>4, <3>5 DEF OwnInv
  <2>3. CASE ~submitted
    <3>1. UNCHANGED <<cur_batch_size, submitted>> /\ pc' = "produce"
      BY <1>r, <2>3 DEF ProduceReturn
    <3>2. Submitting' = Submitting /\ (Putting' <=> Putting)
      BY <2>1, <3>1 DEF Submitting, Putting, BatchFrames, BatchStart, BatchEnd
    <3> QED BY <1>s, <2>1, <3>1, <3>2
  <2> QED BY <2>2, <2>3
<1>6. CASE NoWakeup \/ WakeupOk \/ WakeupSwallowed
  BY <1>6, <1>r DEF NoWakeup, WakeupOk, WakeupSwallowed
<1>7. CASE WakeupFatal
  BY <1>7, <1>s DEF WakeupFatal, dataVars, ringVars, kernelVars, Submitting, Putting, BatchFrames,
                    BatchStart, BatchEnd
<1>8. CASE DrainIter
  <2> PICK k \in Consumable :
        CompleteFrames(k) /\ PutBatch(UpdateTxFrames(k), tx_cursor, cur_batch_size)
    BY <1>8 DEF DrainIter
  <2> DEFINE st == UpdateTxFrames(k)
  <2>1. /\ UNCHANGED <<tx_cursor, cur_batch_size, next_pkt, txq, inflight, submitted>>
        /\ pc = "drain" /\ ~submitted
    BY <1>t, <1>8 DEF DrainIter, dataVars, kernelVars, TypeInv, PutRange
  <2>2. /\ tx_cursor \in Frames /\ cur_batch_size \in Nat /\ st \in [Frames -> Statuses]
    BY <1>t, CompleteFramesType, ZenonT(30) DEF TypeInv, TxTypeOK
  <2>3. /\ \A i, j \in 1 .. Len(compq') : compq'[i] = compq'[j] => i = j
        /\ \A f \in Frames : OnCompRing(f)' => OnCompRing(f)
        /\ \A f \in Frames : st[f] = "OnTxQueue" <=> (KernelOwned(f)' \/ f \in Submitting)
        /\ \A f \in Frames : status[f] = "Free" => st[f] = "Free"
        /\ compq = <<>> => compq' = <<>>
    BY <2>1, CompleteFramesOwn, ZenonT(30)
  <2>4. Submitting = {}
    BY <2>1, ZenonT(30) DEF Submitting
  <2> HIDE DEF st
  <2>5. \A j \in 1 .. cur_batch_size : j <= NTxFrames => st[Back(tx_cursor, j)] = "Free"
    <3> SUFFICES ASSUME NEW j \in 1 .. cur_batch_size, j <= NTxFrames
                 PROVE  st[Back(tx_cursor, j)] = "Free"
      OBVIOUS
    <3>1. Back(tx_cursor, j) \in Frames
      BY <2>2, BackNext
    <3>2. status[Back(tx_cursor, j)] = "Free"
      BY <1>o, <2>1 DEF PendingFree, Putting
    <3> QED BY <2>3, <3>1, <3>2, ZenonT(30)
  <2>6. \A f \in Frames : st[f] = "OnTxQueue" <=> KernelOwned(f)'
    BY <2>3, <2>4
  <2>7. PutBatch(st, tx_cursor', cur_batch_size')
    BY <2>1 DEF st
  <2>8. \A j \in 1 .. cur_batch_size' : j <= NTxFrames => st[Back(tx_cursor', j)] = "Free"
    BY <2>1, <2>5
  <2>9. /\ \A f \in Frames :
             /\ ~(KernelOwned(f)' /\ f \in Submitting')
             /\ status'[f] = "OnTxQueue" <=> (KernelOwned(f)' \/ f \in Submitting')
        /\ PendingFree'
    BY <1>t, <2>1, <2>2, <2>6, <2>7, <2>8, PutBatchOwn
  <2>10. \A f \in Frames : OnTxRing(f)' <=> OnTxRing(f)
    BY <2>1 DEF OnTxRing
  <2>11. OwnParts'
    <3>1. \A i, j \in 1 .. Len(txq') : txq'[i] = txq'[j] => i = j
      BY <1>o, <2>1, ZenonT(30) DEF FrameOwnership
    <3>2. \A f \in Frames :
            /\ ~(OnTxRing(f)' /\ f \in inflight')
            /\ ~(OnTxRing(f)' /\ OnCompRing(f)')
            /\ ~(f \in inflight' /\ OnCompRing(f)')
      BY <1>o, <2>1, <2>3, <2>10 DEF FrameOwnership
    <3> QED BY <2>3, <3>1, <3>2 DEF OwnParts
  <2>12. FrameOwnership'
    BY <2>9, <2>11, ZenonT(30) DEF FrameOwnership, OwnParts
  <2>13. Fresh'
    BY <1>o, <2>1, <2>3 DEF Fresh
  <2> QED BY <1>t, <2>9, <2>12, <2>13 DEF OwnInv
<1>9. CASE DrainCheck
  BY <1>9, <1>s DEF DrainCheck, dataVars, ringVars, kernelVars, Submitting, Putting
<1>k. ASSUME UNCHANGED userVars,
             \A i, j \in 1 .. Len(txq') : txq'[i] = txq'[j] => i = j,
             \A i, j \in 1 .. Len(compq') : compq'[i] = compq'[j] => i = j,
             \A f \in Frames :
               /\ ~(OnTxRing(f)' /\ f \in inflight')
               /\ ~(OnTxRing(f)' /\ OnCompRing(f)')
               /\ ~(f \in inflight' /\ OnCompRing(f)'),
             \A f \in Frames : KernelOwned(f)' <=> KernelOwned(f),
             next_pkt # 1
      PROVE  OwnInv'
  <2>1. /\ UNCHANGED <<status, tx_cursor, cur_batch_size, pc, submitted, next_pkt>>
    BY <1>k DEF userVars, dataVars
  <2>2. Submitting' = Submitting
    BY <2>1 DEF Submitting, BatchFrames, BatchStart, BatchEnd
  <2>3. FrameOwnership'
    BY <1>o, <1>k, <2>1, <2>2 DEF FrameOwnership
  <2>4. PendingFree' /\ Fresh'
    BY <1>o, <1>k, <2>1 DEF PendingFree, Putting, Back, Fresh
  <2> QED BY <1>t, <2>3, <2>4 DEF OwnInv
<1>10. CASE KTransmit
  <2>h. Head(txq) \in Frames
    BY <1>t, <1>10, HeadTailProperties DEF KTransmit, TypeInv, TxTypeOK
  <2> PICK h \in Frames : h = Head(txq)
    BY <2>h
  <2>1. /\ UNCHANGED userVars /\ compq' = compq /\ txq \in Seq(Frames) /\ txq # <<>>
        /\ inflight' = inflight \cup {h} /\ txq' = Tail(txq) /\ next_pkt # 1
    BY <1>t, <1>o, <1>10 DEF KTransmit, TypeInv, TxTypeOK, Fresh
  <2>2. /\ Len(txq) \in Nat \ {0} /\ h \in Frames /\ h = txq[1]
        /\ Len(txq') = Len(txq) - 1
        /\ \A i \in 1 .. Len(txq') : txq'[i] = txq[i + 1]
    BY <2>1, HeadTailProperties
  <2>3. \A i, j \in 1 .. Len(txq') : txq'[i] = txq'[j] => i = j
    <3> SUFFICES ASSUME NEW i \in 1 .. Len(txq'), NEW j \in 1 .. Len(txq'), txq'[i] = txq'[j]
                 PROVE  i = j
      OBVIOUS
    <3>1. i + 1 \in 1 .. Len(txq) /\ j + 1 \in 1 .. Len(txq) /\ txq[i + 1] = txq[j + 1]
      BY <2>2
    <3>2. i + 1 = j + 1
      BY <1>o, <3>1 DEF FrameOwnership
    <3> QED BY <3>2
  <2>4. OnTxRing(h) /\ ~OnTxRing(h)'
    <3>1. \A i \in 1 .. Len(txq') : i + 1 \in 1 .. Len(txq) /\ txq[i + 1] # txq[1]
      BY <1>o, <2>2 DEF FrameOwnership
    <3> QED BY <2>2, <3>1 DEF OnTxRing
  <2>5. \A f \in Frames : OnTxRing(f)' => OnTxRing(f)
    BY <2>2 DEF OnTxRing
  <2>6. \A f \in Frames : OnTxRing(f) => f = h \/ OnTxRing(f)'
    <3> SUFFICES ASSUME NEW f \in Frames, NEW i \in 1 .. Len(txq), txq[i] = f, i # 1
                 PROVE  OnTxRing(f)'
      BY <2>2 DEF OnTxRing
    <3>1. i - 1 \in 1 .. Len(txq') /\ txq'[i - 1] = f
      BY <2>2
    <3> QED BY <3>1 DEF OnTxRing
  <2>7. \A f \in Frames : OnCompRing(f)' <=> OnCompRing(f)
    BY <2>1 DEF OnCompRing
  <2>8. \A f \in Frames :
          /\ ~(OnTxRing(f)' /\ f \in inflight')
          /\ ~(OnTxRing(f)' /\ OnCompRing(f)')
          /\ ~(f \in inflight' /\ OnCompRing(f)')
    BY <1>o, <2>1, <2>2, <2>4, <2>5, <2>7 DEF FrameOwnership
  <2>9. \A f \in Frames : KernelOwned(f)' <=> KernelOwned(f)
    BY <2>1, <2>4, <2>5, <2>6, <2>7 DEF KernelOwned
  <2>10. \A i, j \in 1 .. Len(compq') : compq'[i] = compq'[j] => i = j
    BY <1>o, <2>1 DEF FrameOwnership
  <2> QED BY <1>k, <2>1, <2>3, <2>8, <2>9, <2>10
<1>11. CASE \E f \in Frames : KComplete(f)
  <2> PICK h \in Frames : KComplete(h)
    BY <1>11
  <2>1. /\ UNCHANGED userVars /\ txq' = txq /\ compq \in Seq(Frames) /\ h \in inflight
        /\ inflight' = inflight \ {h} /\ compq' = Append(compq, h) /\ next_pkt # 1
    BY <1>t, <1>o DEF KComplete, TypeInv, TxTypeOK, Fresh
  <2>2. /\ Len(compq) \in Nat /\ Len(compq') = Len(compq) + 1
        /\ \A i \in 1 .. Len(compq) : compq'[i] = compq[i]
        /\ compq'[Len(compq) + 1] = h
    BY <2>1, AppendProperties
  <2>3. ~OnCompRing(h) /\ ~OnTxRing(h)
    BY <1>o, <2>1 DEF FrameOwnership
  <2>4. \A f \in Frames : OnCompRing(f)' <=> OnCompRing(f) \/ f = h
    BY <2>2 DEF OnCompRing
  <2>5. \A f \in Frames : OnTxRing(f)' <=> OnTxRing(f)
    BY <2>1 DEF OnTxRing
  <2>6. \A i, j \in 1 .. Len(compq') : compq'[i] = compq'[j] => i = j
    <3>1. \A i \in 1 .. Len(compq) : compq'[i] # h
      BY <2>2, <2>3 DEF OnCompRing
    <3> QED BY <1>o, <2>2, <3>1 DEF FrameOwnership
  <2>7. \A i, j \in 1 .. Len(txq') : txq'[i] = txq'[j] => i = j
    BY <1>o, <2>1 DEF FrameOwnership
  <2>8. \A f \in Frames :
          /\ ~(OnTxRing(f)' /\ f \in inflight')
          /\ ~(OnTxRing(f)' /\ OnCompRing(f)')
          /\ ~(f \in inflight' /\ OnCompRing(f)')
    BY <1>o, <2>1, <2>3, <2>4, <2>5 DEF FrameOwnership
  <2>9. \A f \in Frames : KernelOwned(f)' <=> KernelOwned(f)
    BY <2>1, <2>4, <2>5 DEF KernelOwned
  <2> QED BY <1>k, <2>1, <2>6, <2>7, <2>8, <2>9
<1>12. CASE KSleep
  BY <1>12, <1>s DEF KSleep, userVars, dataVars, ringVars, Submitting, Putting, BatchFrames,
                     BatchStart, BatchEnd
<1>13. CASE UNCHANGED vars
  BY <1>13, <1>s DEF vars, dataVars, ringVars, kernelVars, Submitting, Putting, BatchFrames,
                     BatchStart, BatchEnd
<1> QED
  BY <1>1, <1>2, <1>3, <1>4, <1>5, <1>6, <1>7, <1>8, <1>9, <1>10, <1>11, <1>12, <1>13
     DEF Next, Calls, Loops, Kernel, Stopped

\* In every behaviour no frame is in two places at once, and a frame has the
\* status OnTxQueue exactly while it is being submitted or the kernel owns
\* it, for every number of frames, ring size, batch size and kernel, also
\* for callers that drain or prefill midway.
THEOREM TxFrameOwnership == Spec => []FrameOwnership
<1>1. OwnInv => FrameOwnership
  BY DEF OwnInv
<1> QED BY <1>1, OwnInit, OwnStep, PTL DEF Spec

\* A frame that send writes is not the kernel's after complete_frames.
LEMMA SendWrites ==
  ASSUME OwnInv, pc = "idle", NEW k \in Consumable, CompleteFrames(k),
         Reject(UpdateTxFrames(k)) \/ Accept(UpdateTxFrames(k))
           \/ RefuseLongData(UpdateTxFrames(k)),
         UNCHANGED <<txq, inflight>>,
         NEW f \in Frames, KernelOwned(f)'
  PROVE  umem'[f] = umem[f]
<1>1. CASE umem' = umem
  BY <1>1
<1>2. CASE Accept(UpdateTxFrames(k))
  <2>1. UpdateTxFrames(k)[tx_cursor] = "Free" /\ umem' = [umem EXCEPT ![tx_cursor] = next_pkt]
    BY <1>2, ZenonT(30) DEF Accept, IsFree, WriteToUmem
  <2>2. UpdateTxFrames(k)[f] = "OnTxQueue"
    BY CompleteFramesOwn, ZenonT(30)
  <2>3. umem \in [Frames -> Nat] /\ f # tx_cursor
    BY <2>1, <2>2 DEF OwnInv, TypeInv, TxTypeOK
  <2> QED BY <2>1, <2>3
<1> QED BY <1>1, <1>2 DEF Reject, RefuseLongData, dataVars

\* Unless the caller prefills after its first send, the user thread never
\* changes the content of a frame that it has submitted and not got back.
THEOREM TxNoOverwrite ==
  ASSUME "prefill_midway" \notin Client
  PROVE  Spec => NoOverwrite
<1>1. ASSUME OwnInv, Next, NEW f \in Frames, KernelOwned(f), KernelOwned(f)'
      PROVE  umem'[f] = umem[f]
  <2>1. CASE Send
    BY <1>1, <2>1, SendWrites, ZenonT(30) DEF Send, kernelVars
  <2>2. CASE SendApply
    BY <1>1, <2>2, SendWrites DEF SendApply, kernelVars
  <2>3. CASE Prefill
    <3>1. next_pkt = 1
      BY <2>3 DEF Prefill
    <3>2. txq = <<>> /\ inflight = {} /\ compq = <<>>
      BY <1>1, <3>1, ZenonT(30) DEF OwnInv, Fresh
    <3> QED BY <1>1, <3>2 DEF KernelOwned, OnTxRing, OnCompRing
  <2>4. CASE DrainCall \/ Loops
    BY <2>4 DEF DrainCall, Loops, Produce, NoWakeup, WakeupOk, WakeupSwallowed, WakeupFatal,
                ProduceReturn, DrainIter, DrainCheck, dataVars
  <2>5. CASE Kernel \/ Stopped
    BY <2>5 DEF Kernel, KTransmit, KComplete, KSleep, Stopped, userVars, dataVars, vars
  <2> QED BY <1>1, <2>1, <2>2, <2>3, <2>4, <2>5, ZenonT(30) DEF Next, Calls
<1>2. OwnInv /\ [Next]_vars =>
        [\A f \in Frames : KernelOwned(f) /\ KernelOwned(f)' => umem'[f] = umem[f]]_vars
  BY <1>1
<1> QED BY <1>2, OwnInit, OwnStep, PTL DEF Spec, NoOverwrite
=============================================================================
