------------------------------- MODULE XskRx -------------------------------
(***************************************************************************)
(* The receiving half of an AF_XDP socket: struct XskRx (xsk/rx.rs) and    *)
(* the kernel it shares the fill ring and the rx ring with.                *)
(*                                                                         *)
(* The user thread calls recv and recv_apply; a call that has consumed     *)
(* packets keeps control through `pc` until their frames are back on the   *)
(* fill ring.  The kernel takes frames from the fill ring, writes arriving *)
(* packets to them and publishes them on the rx ring.                      *)
(*                                                                         *)
(* A frame is its index in rx_frames, a packet its number in the order of  *)
(* arrival.  The length of packet p is written p: a descriptor carries it, *)
(* so a length that belongs to another packet shows.                       *)
(***************************************************************************)
EXTENDS Integers, Sequences, FiniteSetsExt

CONSTANTS
  NRxFrames,      \* rx_frames.len()
  FillQueueSize,  \* size of the fill ring
  RxQueueSize,    \* size of the rx ring
  MaxPkts,        \* bound: the packets that arrive
  Orders,         \* whether the kernel uses the frames in the order of the fill
                  \* ring: TRUE, FALSE or both
  PollErrors,     \* failures of poll: "eintr" (reported as false), "fatal"
  Clients         \* kinds of callers, each the set of what it does: "recv",
                  \* "recv_apply", "short_buffer" (recv into less room than the
                  \* packet needs)

ASSUME RxConstants ==
  /\ NRxFrames \in Nat \ {0}
  /\ FillQueueSize \in Nat \ {0} /\ RxQueueSize \in Nat \ {0}
  /\ MaxPkts \in Nat
  /\ Orders \subseteq BOOLEAN
  /\ PollErrors \subseteq {"eintr", "fatal"}
  /\ Clients \subseteq SUBSET {"recv", "recv_apply", "short_buffer"}

VARIABLES
  client, in_order,        \* the caller and the kernel of this behaviour
  status,                  \* rx_frames[i].status
  len,                     \* rx_frames[i].len
  n_frames_to_be_filled,
  rx_cursor,
  pkts_rx, pkts_rx_delivered,   \* stats
  pc,                      \* where the user thread is
  processed,               \* the frames to put back on the fill ring
  result,                  \* what the last recv returned: a packet or 0
  delivered,               \* what the caller got: data, length and from which call
  umem,                    \* the packet in each frame
  fillq, rxq,              \* the fill ring and the rx ring
  held,                    \* frames the kernel has taken from the fill ring
  awake,                   \* the kernel takes frames; FALSE: NEED_WAKEUP
  arrived                  \* packets that arrived so far

userVars == <<status, len, n_frames_to_be_filled, rx_cursor, pkts_rx,
              pkts_rx_delivered, pc, processed, result, delivered>>
setting  == <<client, in_order>>
vars == <<setting, userVars, umem, fillq, rxq, held, awake, arrived>>

Frames == 0 .. NRxFrames - 1
Panics == {"poll_panic", "copy_panic"}
AllFrames == [i \in 1 .. NRxFrames |-> i - 1]

\* FillQueue::produce on a ring of which n entries are taken: all or nothing.
FillRoom_Strict(n, frames) == n + Len(frames) < FillQueueSize   \* mutant
FillRoom(n, frames) == n + Len(frames) <= FillQueueSize

\* XskRx::new gives every frame to the kernel, and goes on if that fails.
Init ==
  /\ client \in Clients /\ in_order \in Orders
  /\ status = [f \in Frames |-> "Free"]
  /\ len = [f \in Frames |-> 0]
  /\ n_frames_to_be_filled = NRxFrames
  /\ rx_cursor = 0
  /\ pkts_rx = 0 /\ pkts_rx_delivered = 0
  /\ pc = "idle" /\ processed = <<>> /\ result = 0 /\ delivered = <<>>
  /\ umem = [f \in Frames |-> 0]
  /\ fillq = IF FillRoom(0, AllFrames) THEN AllFrames ELSE <<>>
  /\ rxq = <<>> /\ held = <<>> /\ awake = FALSE /\ arrived = 0

-----------------------------------------------------------------------------
(* Polling.  poll lets the kernel continue and reports whether the rx ring *)
(* has an entry; EINTR is reported as "nothing to read".                   *)

\* RxQueue::consume after a poll: n_recv = 0 and an empty ring give none; a
\* stale cached producer index can hide some entries but not all.
Consumable ==
  {n \in 0 .. Len(rxq) :
     /\ n <= n_frames_to_be_filled
     /\ n = 0 => (n_frames_to_be_filled = 0 \/ rxq = <<>>)}

\* poll_and_consume, the counters, and the wakeup of the fill queue (another
\* poll) if nothing was consumed and it asks for one.
PollAndConsume_NotCounted(n) ==                \* mutant: no -= n_frames_recv
  /\ n \in Consumable /\ awake' = TRUE
  /\ rxq' = SubSeq(rxq, n + 1, Len(rxq))
  /\ pkts_rx' = pkts_rx + n
  /\ UNCHANGED n_frames_to_be_filled
PollAndConsume_NotReleased(n) ==               \* mutant: entries stay on the ring
  /\ n \in Consumable /\ awake' = TRUE
  /\ pkts_rx' = pkts_rx + n
  /\ n_frames_to_be_filled' = n_frames_to_be_filled - n
  /\ UNCHANGED rxq
PollAndConsume(n) ==
  /\ \/ n \in Consumable /\ awake' = TRUE
     \/ n = 0 /\ "eintr" \in PollErrors /\ UNCHANGED awake
     \/ n = 0 /\ "eintr" \in PollErrors /\ ~awake /\ awake' = TRUE
  /\ rxq' = SubSeq(rxq, n + 1, Len(rxq))
  /\ pkts_rx' = pkts_rx + n
  /\ n_frames_to_be_filled' = n_frames_to_be_filled - n

\* The poll fails, or the one that wakes up the fill queue after it.
PollPanic ==
  /\ pc = "idle" /\ "fatal" \in PollErrors
  /\ pc' = "poll_panic"
  /\ UNCHANGED awake \/ (0 \in Consumable /\ awake' = TRUE)
  /\ UNCHANGED <<setting, status, len, n_frames_to_be_filled, rx_cursor, pkts_rx,
                 pkts_rx_delivered, processed, result, delivered,
                 umem, fillq, rxq, held, arrived>>

-----------------------------------------------------------------------------
(* recv                                                                    *)

Received(n, f) == {i \in 1 .. n : rxq[i].frame = f}

\* update_rx_frames
UpdatedLen_Stale(n) == len                      \* mutant: no set_len
UpdatedLen(n) ==
  [f \in Frames |-> IF Received(n, f) = {} THEN len[f]
                    ELSE rxq[Max(Received(n, f))].len]
UpdatedStatus_Unmarked(n) == status             \* mutant: no status = Filled
UpdatedStatus(n) ==
  [f \in Frames |-> IF Received(n, f) = {} THEN status[f] ELSE "Filled"]

\* Frame::read_from_umem: what the frame holds, cut to the length.
ReadFromUmem(f, n, call) == [data |-> umem[f], len |-> n, via |-> call]

\* The frame at the cursor is Filled: its packet is copied to the receiver,
\* a slice that may be too short; the frame goes back to the fill ring next.
TakePacket(st, ln) ==
  /\ st[rx_cursor] = "Filled"
  /\ \/ /\ delivered' = Append(delivered, ReadFromUmem(rx_cursor, ln[rx_cursor], "recv"))
        /\ processed' = <<rx_cursor>>
        /\ result' = ln[rx_cursor]
        /\ pc' = "refill"
     \/ /\ "short_buffer" \in client
        /\ pc' = "copy_panic"
        /\ UNCHANGED <<delivered, processed, result>>

NoPacket(st) ==
  /\ st[rx_cursor] # "Filled"
  /\ result' = 0
  /\ UNCHANGED <<pc, delivered, processed>>

Recv ==
  /\ pc = "idle" /\ "recv" \in client
  /\ \E n \in 0 .. Len(rxq) :
       /\ PollAndConsume(n)
       /\ len' = UpdatedLen(n)
       /\ status' = UpdatedStatus(n)
       /\ TakePacket(UpdatedStatus(n), UpdatedLen(n)) \/ NoPacket(UpdatedStatus(n))
  /\ UNCHANGED <<setting, rx_cursor, pkts_rx_delivered, umem, fillq, held, arrived>>

\* FillQueue::produce_and_wakeup: with the frames on the ring and NEED_WAKEUP
\* set it polls.  poll_panic: that poll fails.
FillProduce_Twice ==                            \* mutant: submitted again
  /\ FillRoom(Len(fillq), processed)
  /\ fillq' = fillq \o processed \o processed
  /\ processed' = <<>>
  /\ awake' = TRUE
FillProduce ==
  /\ FillRoom(Len(fillq), processed)
  /\ fillq' = fillq \o processed
  /\ processed' = <<>>
  /\ awake' = TRUE \/ ("eintr" \in PollErrors /\ UNCHANGED awake)

NextCursor_NoWrap(cursor) == cursor + 1         \* mutant
NextCursor_Skips(cursor) == (cursor + 2) % NRxFrames   \* mutant
NextCursor_Stays(cursor) == cursor              \* mutant
NextCursor(cursor) == (cursor + 1) % NRxFrames

Refill ==
  /\ pc = "refill"
  /\ FillProduce
  /\ pkts_rx_delivered' = pkts_rx_delivered + 1
  /\ status' = [status EXCEPT ![rx_cursor] = "Free"]
  /\ n_frames_to_be_filled' = n_frames_to_be_filled + 1
  /\ rx_cursor' = NextCursor(rx_cursor)
  /\ pc' = "idle"
  /\ UNCHANGED <<setting, len, pkts_rx, result, delivered, umem, rxq, held, arrived>>

-----------------------------------------------------------------------------
(* recv_apply and apply_batch.  The closure sees the packets in ring order;*)
(* neither the status of the frames nor rx_cursor changes.                 *)

RecvApply ==
  /\ pc = "idle" /\ "recv_apply" \in client
  /\ \E n \in 0 .. Len(rxq) :
       /\ PollAndConsume(n)
       /\ len' = UpdatedLen(n)
       /\ delivered' = delivered \o
            [i \in 1 .. n |->
               ReadFromUmem(rxq[i].frame, UpdatedLen(n)[rxq[i].frame], "recv_apply")]
       /\ processed' = processed \o [i \in 1 .. n |-> rxq[i].frame]
       /\ pc' = IF n > 0 THEN "refill_batch" ELSE "idle"
  /\ UNCHANGED <<setting, status, rx_cursor, pkts_rx_delivered, result, umem, fillq, held, arrived>>

RefillBatch ==
  /\ pc = "refill_batch"
  /\ FillProduce
  /\ pkts_rx_delivered' = pkts_rx_delivered + Len(processed)
  /\ n_frames_to_be_filled' = n_frames_to_be_filled + Len(processed)
  /\ pc' = "idle"
  /\ UNCHANGED <<setting, status, len, rx_cursor, pkts_rx, result, delivered, umem, rxq, held, arrived>>

RefillPanic ==
  /\ pc \in {"refill", "refill_batch"} /\ "fatal" \in PollErrors /\ ~awake
  /\ FillRoom(Len(fillq), processed)
  /\ fillq' = fillq \o processed
  /\ processed' = <<>>
  /\ pc' = "poll_panic"
  /\ UNCHANGED <<setting, status, len, n_frames_to_be_filled, rx_cursor, pkts_rx,
                 pkts_rx_delivered, result, delivered, umem, rxq, held, awake, arrived>>

-----------------------------------------------------------------------------
(* The kernel.                                                             *)

KTakeFrame ==
  /\ awake /\ fillq # <<>>
  /\ held' = Append(held, Head(fillq))
  /\ fillq' = Tail(fillq)
  /\ UNCHANGED <<setting, userVars, umem, rxq, awake, arrived>>

\* With no frame on the fill ring the kernel asks for a wakeup.
KSleep ==
  /\ awake /\ fillq = <<>>
  /\ awake' = FALSE
  /\ UNCHANGED <<setting, userVars, umem, fillq, rxq, held, arrived>>

\* A packet arrives and is written to a frame the kernel holds.
KReceive(i) ==
  /\ arrived < MaxPkts /\ Len(rxq) < RxQueueSize
  /\ i \in 1 .. Len(held) /\ (in_order => i = 1)
  /\ arrived' = arrived + 1
  /\ umem' = [umem EXCEPT ![held[i]] = arrived + 1]
  /\ rxq' = Append(rxq, [frame |-> held[i], len |-> arrived + 1])
  /\ held' = SubSeq(held, 1, i - 1) \o SubSeq(held, i + 1, Len(held))
  /\ UNCHANGED <<setting, userVars, fillq, awake>>

\* No frame, or no room on the rx ring: the packet is dropped.
KDrop ==
  /\ arrived < MaxPkts /\ (held = <<>> \/ Len(rxq) = RxQueueSize)
  /\ arrived' = arrived + 1
  /\ UNCHANGED <<setting, userVars, umem, fillq, rxq, held, awake>>

\* A panicked user thread makes no further call.
Stopped == pc \in Panics /\ UNCHANGED vars

-----------------------------------------------------------------------------
Refills == Refill \/ RefillBatch \/ RefillPanic
Calls   == Recv \/ RecvApply \/ PollPanic
Kernel  == KTakeFrame \/ KSleep \/ (\E i \in 1 .. NRxFrames : KReceive(i)) \/ KDrop

Next == Calls \/ Refills \/ Kernel \/ Stopped

Spec == Init /\ [][Next]_vars

\* The poll of this call was not interrupted.
Polled == awake' = TRUE /\ (0 \notin Consumable => rxq' # rxq)

\* The caller polls again and again, as the examples do, and not every poll is
\* interrupted by a signal; the thread inside a call is scheduled, and a
\* kernel that is awake takes the frames it is given.  Nothing makes packets
\* arrive.
Fairness ==
  /\ WF_vars(Recv /\ Polled) /\ WF_vars(RecvApply /\ Polled) /\ WF_vars(Refills)
  /\ WF_vars(KTakeFrame)

FairSpec == Spec /\ Fairness
-----------------------------------------------------------------------------
(* Properties                                                              *)

RxTypeOK ==
  /\ client \in Clients /\ in_order \in Orders
  /\ status \in [Frames -> {"Free", "Filled"}]
  /\ len \in [Frames -> Nat]
  /\ n_frames_to_be_filled \in Nat
  /\ rx_cursor \in Frames
  /\ pkts_rx \in Nat /\ pkts_rx_delivered \in Nat
  /\ pc \in {"idle", "refill", "refill_batch"} \cup Panics
  /\ processed \in Seq(Frames)
  /\ result \in Nat
  /\ delivered \in Seq([data : Nat, len : Nat, via : {"recv", "recv_apply"}])
  /\ umem \in [Frames -> Nat]
  /\ fillq \in Seq(Frames) /\ held \in Seq(Frames)
  /\ rxq \in Seq([frame : Frames, len : Nat])
  /\ awake \in BOOLEAN /\ arrived \in Nat

\* Everything the kernel may write to or has yet to hand back.
RxFrames   == [i \in 1 .. Len(rxq) |-> rxq[i].frame]
KernelSide == fillq \o held \o RxFrames

\* Every frame is in exactly one place: on the fill ring, with the kernel, on
\* the rx ring, Filled and waiting for recv, or processed and on its way back
\* to the fill ring.  No frame leaks and none is given to the kernel twice.
RxOwnership ==
  LET waiting == {f \in Frames : status[f] = "Filled"}
      user    == waiting \cup Range(processed)
  IN  pc \notin Panics =>
        /\ \A f \in Frames : (f \in user) # (f \in Range(KernelSide))
        /\ IsInjective(KernelSide) /\ IsInjective(processed)

\* n_frames_to_be_filled is the number of frames the kernel has.  So the -=
\* after a consume cannot wrap and filled_frames is never too short for what
\* consume returns; and the stats agree with it.
ToBeFilledExact ==
  pc \notin Panics =>
    /\ n_frames_to_be_filled = Len(KernelSide)
    /\ pkts_rx = pkts_rx_delivered + (NRxFrames - n_frames_to_be_filled)

\* What the caller gets is a packet whole, with its own length and not that of
\* another packet in the frame, whatever mix of recv and recv_apply it uses.
DeliveredIntact ==
  \A i \in DOMAIN delivered : delivered[i].data = delivered[i].len

\* A caller that uses one of recv and recv_apply only; recv relies on a kernel
\* that uses the frames in order.
Fifo == "recv" \notin client \/ (in_order /\ "recv_apply" \notin client)

\* recv returns 0 only if no packet waits in a frame: the frame at rx_cursor
\* is always the next one the kernel fills.
RecvMissesNothing ==
  Fifo /\ pc = "idle" /\ result = 0 => \A f \in Frames : status[f] # "Filled"

\* The loops that put frames back on the fill ring succeed at the first try.
RefillNeverSpins ==
  pc \in {"refill", "refill_batch"} =>
    Len(fillq) + Len(processed) <= FillQueueSize

\* A packet on the rx ring is delivered, if the caller goes on receiving.
Waiting(p) == \E i \in 1 .. Len(rxq) : rxq[i].len = p
ReceivedDelivered ==
  \A p \in 1 .. MaxPkts :
    Fifo /\ Waiting(p) ~> (pc \in Panics \/ \E i \in DOMAIN delivered : delivered[i].data = p)

\* A starved kernel gets frames again: with the caller polling, frames reach a
\* kernel that has none, so packets are not dropped for ever.
KernelGetsFrames == (held = <<>>) ~> (pc \in Panics \/ held # <<>> \/ rxq # <<>>)
=============================================================================
