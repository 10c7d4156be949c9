------------------------------- MODULE XskTx -------------------------------
(***************************************************************************)
(* The transmitting half of an AF_XDP socket: struct XskTx (xsk/tx.rs)     *)
(* and the kernel it shares the tx ring and the completion ring with.      *)
(*                                                                         *)
(* The user thread calls prefill, send, send_apply and drain; a call that  *)
(* loops keeps control through `pc` until it returns.  The kernel runs     *)
(* concurrently: it takes frames from the tx ring, transmits them and      *)
(* hands them back on the completion ring.  Both rings are bounded FIFO    *)
(* queues here; module XskRing shows that the libbpf rings are.            *)
(*                                                                         *)
(* A frame is its index in tx_frames.  A packet is its number in the order *)
(* the user thread writes packets to the UMEM; 0 is any other content.     *)
(***************************************************************************)
EXTENDS Integers, Sequences, FiniteSets

CONSTANTS
  NTxFrames,      \* tx_frames.len()
  TxQueueSize,    \* size of the tx ring
  CompQueueSize,  \* size of the completion ring
  BatchSize,      \* batch_size
  MaxPkts,        \* bound: the packets the user thread sends
  MaxInFlight,    \* frames the device works on at a time; 1: completes in order
  KernelMode,     \* "copy": NEED_WAKEUP is always set and a sendto transmits at
                  \* most KernelBudget frames; "driver": once woken the driver
                  \* transmits until it has nothing to do, then sets NEED_WAKEUP
  KernelBudget,
  WakeupErrors,   \* failures of sendto: "transient" (swallowed), "fatal"
  Client          \* what the caller does: "drain_midway", "prefill_midway",
                  \* "long_data" (data that exceeds the frame's mtu)

ASSUME TxConstants ==
  /\ NTxFrames \in Nat \ {0}
  /\ TxQueueSize \in Nat \ {0}
  /\ CompQueueSize \in Nat \ {0}
  /\ BatchSize \in Nat
  /\ MaxPkts \in Nat
  /\ MaxInFlight \in Nat \ {0}
  /\ KernelMode \in {"copy", "driver"}
  /\ KernelBudget \in Nat \ {0}
  /\ WakeupErrors \subseteq {"transient", "fatal"}
  /\ Client \subseteq {"drain_midway", "prefill_midway", "long_data"}

VARIABLES
  status,                 \* tx_frames[i].status
  tx_cursor,
  cur_batch_size,
  outstanding_tx_frames,
  pkts_tx, pkts_tx_completed,   \* stats
  pc,                     \* where the user thread is
  draining,               \* put_batch_on_tx_queue was called by drain
  submitted,              \* the last produce of the put loop got its slots
  result,                 \* what the last send returned
  umem,                   \* the packet in each frame
  next_pkt,               \* the number of the next packet
  txq, compq,             \* the tx ring and the completion ring
  inflight,               \* frames the device is transmitting
  budget,                 \* frames the kernel goes on to transmit; 0: it sleeps
  wire                    \* the packets transmitted so far

ringVars   == <<txq, compq>>
kernelVars == <<inflight, budget, wire>>
statVars   == <<pkts_tx, pkts_tx_completed>>
dataVars   == <<umem, next_pkt>>
vars == <<status, tx_cursor, cur_batch_size, outstanding_tx_frames, statVars,
          pc, draining, submitted, result, dataVars, ringVars, kernelVars>>

Frames   == 0 .. NTxFrames - 1
Statuses == {"Free", "OnTxQueue"}
Panics   == {"write_panic", "range_panic", "wakeup_panic"}
Pcs      == {"idle", "produce", "wakeup", "drain", "drain_check"} \cup Panics

Init ==
  /\ status = [f \in Frames |-> "Free"]
  /\ tx_cursor = 0
  /\ cur_batch_size = 0
  /\ outstanding_tx_frames = 0
  /\ pkts_tx = 0 /\ pkts_tx_completed = 0
  /\ pc = "idle" /\ draining = FALSE /\ submitted = FALSE /\ result = "none"
  /\ umem = [f \in Frames |-> 0] /\ next_pkt = 1
  /\ txq = <<>> /\ compq = <<>>
  /\ inflight = {} /\ budget = 0 /\ wire = <<>>

-----------------------------------------------------------------------------
(* complete_frames: comp_q.consume, the counters and update_tx_frames.     *)

\* How many entries consume returns: a stale cached producer index can hide
\* some of those on the ring, but never all of them.
Consumable ==
  {k \in 0 .. Len(compq) :
     /\ k <= outstanding_tx_frames
     /\ k = 0 => (outstanding_tx_frames = 0 \/ compq = <<>>)}

\* update_tx_frames: the frames of the first k entries become Free.
UpdateTxFrames_All(k) == [f \in Frames |-> "Free"]           \* mutant
UpdateTxFrames_SkipFirst(k) ==                               \* mutant
  [f \in Frames |-> IF \E i \in 2 .. k : compq[i] = f THEN "Free" ELSE status[f]]
UpdateTxFrames(k) ==
  [f \in Frames |-> IF \E i \in 1 .. k : compq[i] = f THEN "Free" ELSE status[f]]

CompleteFrames_NotCounted(k) ==                  \* mutant: no -= n_free_frames
  /\ k \in Consumable
  /\ compq' = SubSeq(compq, k + 1, Len(compq))
  /\ pkts_tx_completed' = pkts_tx_completed + k
  /\ UNCHANGED outstanding_tx_frames
CompleteFrames(k) ==
  /\ k \in Consumable
  /\ compq' = SubSeq(compq, k + 1, Len(compq))
  /\ outstanding_tx_frames' = outstanding_tx_frames - k
  /\ pkts_tx_completed' = pkts_tx_completed + k

-----------------------------------------------------------------------------
(* put_batch_on_tx_queue                                                   *)

BatchEnd_NoWrap(cursor) == cursor                \* mutant
BatchEnd(cursor) == IF cursor = 0 THEN NTxFrames ELSE cursor

BatchStart(cursor, cur) == BatchEnd(cursor) - cur

BatchFrames(cursor, cur) == BatchStart(cursor, cur) .. BatchEnd(cursor) - 1

\* tx_frames[start..end], in order.
Batch(cursor, cur) == [i \in 1 .. cur |-> BatchStart(cursor, cur) + i - 1]

\* Up to the loop: the early return, the range (usize arithmetic: a negative
\* start panics) and the new status of its frames.  st: status so far.
PutBatch(st, cursor, cur) ==
  \/ /\ cur = 0
     /\ status' = st
     /\ pc' = "drain_check"
  \/ /\ cur > 0
     /\ BatchStart(cursor, cur) < 0
     /\ status' = st
     /\ pc' = "range_panic"
  \/ /\ cur > 0
     /\ BatchStart(cursor, cur) >= 0
     /\ status' = [f \in Frames |->
                     IF f \in BatchFrames(cursor, cur) THEN "OnTxQueue" ELSE st[f]]
     /\ pc' = "produce"

\* TxQueue::produce: all of the batch or nothing.
Produce ==
  /\ pc = "produce"
  /\ \/ /\ Len(txq) + cur_batch_size <= TxQueueSize
        /\ txq' = txq \o Batch(tx_cursor, cur_batch_size)
        /\ submitted' = TRUE
     \/ /\ Len(txq) + cur_batch_size > TxQueueSize
        /\ UNCHANGED <<txq, submitted>>
  /\ pc' = "wakeup"
  /\ UNCHANGED <<status, tx_cursor, cur_batch_size, outstanding_tx_frames, statVars,
                 draining, result, dataVars, compq, kernelVars>>

NeedsWakeup_Inverted == ~(KernelMode = "copy" \/ budget = 0)   \* mutant
NeedsWakeup == KernelMode = "copy" \/ budget = 0

\* What a sendto adds to the work of the kernel, at most the whole ring.
WokenBudget ==
  IF budget + KernelBudget < TxQueueSize THEN budget + KernelBudget ELSE TxQueueSize

\* produce_and_wakeup returned Ok(cnt): leave the loop if cnt is the batch.
ProduceReturn ==
  /\ pc = "wakeup"
  /\ \/ /\ submitted
        /\ pkts_tx' = pkts_tx + cur_batch_size
        /\ outstanding_tx_frames' = outstanding_tx_frames + cur_batch_size
        /\ cur_batch_size' = 0
        /\ submitted' = FALSE
        /\ pc' = IF draining THEN "drain_check" ELSE "idle"
     \/ /\ ~submitted
        /\ pc' = "produce"
        /\ UNCHANGED <<pkts_tx, outstanding_tx_frames, cur_batch_size, submitted>>
  /\ UNCHANGED <<status, tx_cursor, pkts_tx_completed, draining, result,
                 dataVars, ringVars, inflight, wire>>

NoWakeup == ~NeedsWakeup /\ ProduceReturn /\ UNCHANGED budget

WakeupOk == NeedsWakeup /\ ProduceReturn /\ budget' = WokenBudget

\* ENOBUFS, EAGAIN, EBUSY and ENETDOWN count as success.
WakeupSwallowed ==
  /\ NeedsWakeup /\ "transient" \in WakeupErrors
  /\ ProduceReturn /\ UNCHANGED budget

\* Any other errno reaches expect("failed to add frames to tx queue").
WakeupFatal ==
  /\ pc = "wakeup" /\ NeedsWakeup /\ "fatal" \in WakeupErrors
  /\ pc' = "wakeup_panic"
  /\ UNCHANGED <<status, tx_cursor, cur_batch_size, outstanding_tx_frames, statVars,
                 draining, submitted, result, dataVars, ringVars, kernelVars>>

-----------------------------------------------------------------------------
(* send and send_apply                                                     *)

NextCursor_NoWrap(cursor) == cursor + 1          \* mutant
NextCursor(cursor) == (cursor + 1) % NTxFrames

IsFree_Unchecked(st) == TRUE                     \* mutant
IsFree(st) == st[tx_cursor] = "Free"

\* Frame::write_to_umem_checked: the data and its length.
WriteToUmem(f, pkt) == [umem EXCEPT ![f] = pkt]

\* is_data_valid: the data may exceed the mtu of the frame.
DataTooLong == "long_data" \in Client

Reject(st) ==
  /\ ~IsFree(st)
  /\ result' = "NoFreeTxFrames"
  /\ status' = st
  /\ UNCHANGED <<pc, tx_cursor, cur_batch_size, dataVars>>

Accept(st) ==
  /\ IsFree(st)
  /\ umem' = WriteToUmem(tx_cursor, next_pkt)
  /\ next_pkt' = next_pkt + 1
  /\ tx_cursor' = NextCursor(tx_cursor)
  /\ cur_batch_size' = cur_batch_size + 1
  /\ result' = "ok"
  /\ \/ /\ cur_batch_size + 1 = BatchSize
        /\ PutBatch(st, NextCursor(tx_cursor), cur_batch_size + 1)
     \/ /\ cur_batch_size + 1 # BatchSize
        /\ status' = st
        /\ UNCHANGED pc

\* write_to_umem_checked fails and expect panics.
RefuseLongData(st) ==
  /\ IsFree(st) /\ DataTooLong
  /\ pc' = "write_panic" /\ result' = "none"
  /\ status' = st
  /\ UNCHANGED <<tx_cursor, cur_batch_size, dataVars>>

Send ==
  /\ pc = "idle" /\ next_pkt <= MaxPkts
  /\ \E k \in Consumable :
       /\ CompleteFrames(k)
       /\ \/ Reject(UpdateTxFrames(k))
          \/ Accept(UpdateTxFrames(k))
          \/ RefuseLongData(UpdateTxFrames(k))
  /\ UNCHANGED <<pkts_tx, draining, submitted, txq, kernelVars>>

\* The closure writes the frame and its result is the length, unchecked.
SendApply ==
  /\ pc = "idle" /\ next_pkt <= MaxPkts
  /\ \E k \in Consumable :
       /\ CompleteFrames(k)
       /\ \/ Reject(UpdateTxFrames(k))
          \/ Accept(UpdateTxFrames(k))
  /\ UNCHANGED <<pkts_tx, draining, submitted, txq, kernelVars>>

\* prefill writes the same data to every frame, whatever its status, or
\* panics at the first.  The caller of examples/dev_to_dev.rs does it before
\* the first send.
Prefill ==
  /\ pc = "idle"
  /\ next_pkt = 1 \/ "prefill_midway" \in Client
  /\ \/ umem' = [f \in Frames |-> 0] /\ UNCHANGED pc
     \/ DataTooLong /\ pc' = "write_panic" /\ UNCHANGED umem
  /\ UNCHANGED <<status, tx_cursor, cur_batch_size, outstanding_tx_frames, statVars,
                 draining, submitted, result, next_pkt, ringVars, kernelVars>>

-----------------------------------------------------------------------------
(* drain.  Callers of the examples and the tests drain after the last      *)
(* packet; "drain_midway" callers go on sending afterwards.                *)

DrainCall ==
  /\ pc = "idle"
  /\ next_pkt > MaxPkts \/ "drain_midway" \in Client
  /\ pc' = "drain" /\ draining' = TRUE /\ result' = "none"
  /\ UNCHANGED <<status, tx_cursor, cur_batch_size, outstanding_tx_frames, statVars,
                 submitted, dataVars, ringVars, kernelVars>>

DrainIter ==
  /\ pc = "drain"
  /\ \E k \in Consumable :
       /\ CompleteFrames(k)
       /\ PutBatch(UpdateTxFrames(k), tx_cursor, cur_batch_size)
  /\ UNCHANGED <<tx_cursor, cur_batch_size, pkts_tx, draining, submitted, result,
                 dataVars, txq, kernelVars>>

DrainDone_Submitted == cur_batch_size = 0        \* mutant
DrainDone == outstanding_tx_frames = 0

DrainCheck ==
  /\ pc = "drain_check"
  /\ \/ DrainDone /\ pc' = "idle" /\ draining' = FALSE
     \/ ~DrainDone /\ pc' = "drain" /\ UNCHANGED draining
  /\ UNCHANGED <<status, tx_cursor, cur_batch_size, outstanding_tx_frames, statVars,
                 submitted, result, dataVars, ringVars, kernelVars>>

-----------------------------------------------------------------------------
(* The kernel and the device.                                              *)

userVars == <<status, tx_cursor, cur_batch_size, outstanding_tx_frames, statVars,
              pc, draining, submitted, result, dataVars>>

\* A frame is transmitted only with room for its completion.
CompRoom == Len(compq) + Cardinality(inflight) < CompQueueSize

\* The descriptors here lie in their frames; those a closure makes too long, which
\* the kernel discards, are in UmemFrames.
KTransmit ==
  /\ budget > 0 /\ txq # <<>> /\ CompRoom
  /\ Cardinality(inflight) < MaxInFlight
  /\ txq' = Tail(txq)
  /\ inflight' = inflight \cup {Head(txq)}
  /\ wire' = Append(wire, umem[Head(txq)])
  /\ budget' = IF KernelMode = "copy" THEN budget - 1 ELSE budget
  /\ UNCHANGED <<compq, userVars>>

KComplete(f) ==
  /\ f \in inflight
  /\ inflight' = inflight \ {f}
  /\ compq' = Append(compq, f)
  /\ UNCHANGED <<txq, budget, wire, userVars>>

\* With nothing it can transmit the kernel goes to sleep.
KSleep ==
  /\ budget > 0 /\ (txq = <<>> \/ ~CompRoom)
  /\ budget' = 0
  /\ UNCHANGED <<ringVars, inflight, wire, userVars>>

\* A panicked user thread makes no further call.
Stopped == pc \in Panics /\ UNCHANGED vars

-----------------------------------------------------------------------------
Loops  == Produce \/ NoWakeup \/ WakeupOk \/ WakeupSwallowed \/ WakeupFatal
            \/ DrainIter \/ DrainCheck
Calls  == Send \/ SendApply \/ Prefill \/ DrainCall
Kernel == KTransmit \/ (\E f \in Frames : KComplete(f)) \/ KSleep

Next == Calls \/ Loops \/ Kernel \/ Stopped

Spec == Init /\ [][Next]_vars

\* The thread inside a call is scheduled again and again, a kernel that is
\* awake processes the ring, the device completes what it was given, and a
\* sendto that is retried for ever does not fail for ever.
Fairness ==
  /\ WF_vars(Loops)
  /\ SF_vars(WakeupOk)
  /\ WF_vars(KTransmit)
  /\ WF_vars(\E f \in Frames : KComplete(f))

FairSpec == Spec /\ Fairness

\* A caller that retries a send until it is accepted, as the tests do with
\* `while let Err(_) = dev2.tx.send(..) {}`.
RetrySpec == FairSpec /\ WF_vars(Send)
-----------------------------------------------------------------------------
(* Properties                                                              *)

TxTypeOK ==
  /\ status \in [Frames -> Statuses]
  /\ tx_cursor \in Frames
  /\ cur_batch_size \in Nat
  /\ outstanding_tx_frames \in Nat
  /\ pkts_tx \in Nat /\ pkts_tx_completed \in Nat
  /\ pc \in Pcs /\ draining \in BOOLEAN /\ submitted \in BOOLEAN
  /\ result \in {"none", "ok", "NoFreeTxFrames"}
  /\ umem \in [Frames -> Nat] /\ next_pkt \in Nat
  /\ txq \in Seq(Frames) /\ compq \in Seq(Frames)
  /\ inflight \in SUBSET Frames
  /\ budget \in Nat /\ wire \in Seq(Nat)

OnTxRing(f)   == \E i \in 1 .. Len(txq) : txq[i] = f
OnCompRing(f) == \E i \in 1 .. Len(compq) : compq[i] = f

\* Submitted on the tx ring and not yet consumed from the completion ring.
KernelOwned(f) == OnTxRing(f) \/ f \in inflight \/ OnCompRing(f)

\* The frames put_batch_on_tx_queue has marked but not got on the ring yet.
Submitting ==
  IF pc \in {"produce", "wakeup", "wakeup_panic"} /\ ~submitted
  THEN BatchFrames(tx_cursor, cur_batch_size) ELSE {}

\* No frame is in two places at once, and the status of a frame is OnTxQueue
\* exactly while the kernel owns it or its batch is being submitted: the
\* bookkeeping of put_batch_on_tx_queue and update_tx_frames never leaks a
\* frame and never offers one the kernel still uses to send.
FrameOwnership ==
  /\ \A i, j \in 1 .. Len(txq) : txq[i] = txq[j] => i = j
  /\ \A i, j \in 1 .. Len(compq) : compq[i] = compq[j] => i = j
  /\ \A f \in Frames :
       /\ ~(OnTxRing(f) /\ f \in inflight)
       /\ ~(OnTxRing(f) /\ OnCompRing(f))
       /\ ~(f \in inflight /\ OnCompRing(f))
       /\ ~(KernelOwned(f) /\ f \in Submitting)
       /\ status[f] = "OnTxQueue" <=> (KernelOwned(f) \/ f \in Submitting)

\* outstanding_tx_frames counts the frames the kernel owns, except between a
\* produce that succeeded and the += after the loop; it is what the stats
\* say too.  So the -= of complete_frames cannot wrap, and consume never
\* returns more entries than free_frames has room for.
OutstandingExact ==
  /\ outstanding_tx_frames + (IF submitted THEN cur_batch_size ELSE 0)
       = Len(txq) + Cardinality(inflight) + Len(compq)
  /\ pkts_tx = pkts_tx_completed + outstanding_tx_frames
  /\ outstanding_tx_frames <= NTxFrames

\* A step never changes the content of a frame that the kernel owns before
\* and after it: "Once any frames have been submitted they should not be used
\* again until consumed via the CompQueue" (TxQueue::produce).
NoOverwrite ==
  [][\A f \in Frames : KernelOwned(f) /\ KernelOwned(f)' => umem'[f] = umem[f]]_vars

\* The range of put_batch_on_tx_queue never starts below zero.
NoRangePanic == pc # "range_panic"

\* send returns NoFreeTxFrames ("there are no free tx frames") only when
\* every frame is the kernel's or holds a packet of the pending batch.
Pending ==
  {(tx_cursor - j + NTxFrames) % NTxFrames : j \in 1 .. cur_batch_size}

NoFreeFramesIsTrue ==
  result = "NoFreeTxFrames" => \A f \in Frames \ Pending : status[f] # "Free"

\* XskTx implements the channel: what is transmitted is what was accepted,
\* once, in order, and drain returns only when all of it is transmitted.
Channel == INSTANCE TxChannel WITH accepted <- next_pkt - 1
ChannelSpec == Channel!Spec

\* drain returns: "Wait until all outstanding tx packets have come back on
\* the comp queue" ends.
DrainReturns == draining ~> (~draining \/ pc \in Panics)

\* A caller told NoFreeTxFrames, "try again later", gets its packet accepted
\* if it does.
RetrySucceeds ==
  \A n \in 1 .. MaxPkts : next_pkt = n ~> (next_pkt > n \/ pc \in Panics)

\* The loop of put_batch_on_tx_queue ends, so a call of send returns.
SendReturns == pc \in {"produce", "wakeup"} ~> pc \notin {"produce", "wakeup"}
=============================================================================
