----------------------------- MODULE UmemFrames -----------------------------
(***************************************************************************)
(* The memory under the two halves of a socket: one UMEM, byte by byte,    *)
(* the Frame descriptors both halves keep for it (umem/umem.rs), and the   *)
(* addresses and lengths that travel over the four rings.                  *)
(*                                                                         *)
(* The first NTxFrames frames belong to XskTx, the others to XskRx.  The   *)
(* kernel returns addresses, not frames; each half computes the index of   *)
(* the frame from the address, in 32 bits.  Which free frame is used next  *)
(* (the cursors), batches and wakeups are in XskTx and XskRx: here a half  *)
(* uses any frame it may, one packet per call.                             *)
(*                                                                         *)
(* A packet is a number; a byte of the UMEM is the packet it belongs to,   *)
(* or 0.                                                                   *)
(***************************************************************************)
EXTENDS Integers, FiniteSets, Sequences

CONSTANTS
  FrameSize,    \* bytes of a frame
  Headroom,     \* XDP_PACKET_HEADROOM + frame_headroom
  NTxFrames, NRxFrames,
  Word,         \* 2^32: what a u32 can hold
  DataLens,     \* lengths of the data given to send, and of arriving packets
  ClosureLens,  \* what closures given to send_apply return
  MaxPkts       \* bound: packets written by either half or the kernel

NFrames == NTxFrames + NRxFrames
UmemLen == NFrames * FrameSize

\* A UMEM above 4 GiB is not distinguished by the 32-bit indices.
ASSUME UmemConstants ==
  /\ FrameSize \in Nat \ {0} /\ NTxFrames \in Nat \ {0} /\ NRxFrames \in Nat \ {0}
  /\ Headroom \in 0 .. FrameSize - 1
  /\ Word \in Nat /\ UmemLen <= Word
  /\ DataLens \subseteq Nat /\ ClosureLens \subseteq Nat
  /\ MaxPkts \in Nat

VARIABLES
  addr, len, status,   \* the fields of each Frame
  mem,                 \* the UMEM
  txq, rxq,            \* descriptors: address, length
  compq, fillq,        \* addresses
  pkts,                \* packets so far
  holds,               \* the packet each Filled frame should hold (auxiliary)
  panicked             \* panics so far: data too long, index out of range

halves == <<addr, len, status, holds, panicked>>
rings  == <<txq, rxq, compq, fillq>>
vars   == <<halves, mem, rings, pkts>>

Frames   == 0 .. NFrames - 1
TxFrames == 0 .. NTxFrames - 1
RxFrames == NTxFrames .. NFrames - 1
Bytes    == 0 .. UmemLen - 1

\* create_umem: frame i starts at i * frame_size.
FrameAddr(f) == f * FrameSize
Chunk(f)     == FrameAddr(f) .. FrameAddr(f) + FrameSize - 1

\* The largest packet: Frame::mtu.
Mtu == FrameSize - Headroom

\* MmapArea::mem_range: n bytes from address a, without a bounds check.
MemRange(a, n) == a .. a + n - 1

Init ==
  /\ addr = [f \in Frames |-> FrameAddr(f)]
  /\ len = [f \in Frames |-> 0]
  /\ status = [f \in Frames |-> "Free"]
  /\ mem = [b \in Bytes |-> 0]
  /\ txq = <<>> /\ rxq = <<>> /\ compq = <<>>
  /\ fillq = [i \in 1 .. NRxFrames |-> FrameAddr(NTxFrames + i - 1)]
  /\ pkts = 0 /\ holds = [f \in Frames |-> 0] /\ panicked = {}

Written(region, pkt) == [b \in Bytes |-> IF b \in region THEN pkt ELSE mem[b]]

-----------------------------------------------------------------------------
(* XskTx                                                                   *)

\* update_tx_frames: the index of the frame an address belongs to, counted
\* from the start of the UMEM.
TxFrameIndex_Narrow(a) == (a % (Word \div 4)) \div FrameSize  \* mutant: fewer bits
TxFrameIndex(a) == (a % Word) \div FrameSize

\* complete_frames with the first k completions.
Completed(k) ==
  [f \in Frames |->
     IF \E i \in 1 .. k : TxFrameIndex(compq[i]) = f THEN "Free" ELSE status[f]]

\* An index outside tx_frames is a panic.
TxPanics(k) ==
  IF \E i \in 1 .. k : TxFrameIndex(compq[i]) \notin TxFrames THEN {"tx_index"} ELSE {}

\* TxQueue::produce writes address and length, the length cut to a u32.
Submit(f, n) ==
  /\ len' = [len EXCEPT ![f] = n]
  /\ txq' = Append(txq, [addr |-> addr[f], len |-> n % Word, pkt |-> pkts + 1])
  /\ pkts' = pkts + 1

\* Frame::is_data_valid
IsDataValid_Always(n) == TRUE                         \* mutant
IsDataValid(n) == n <= Mtu

\* send: write_to_umem_checked copies the data and sets the length, or its
\* error is a panic.
Send ==
  /\ {"tx", "tx_index"} \cap panicked = {} /\ pkts < MaxPkts
  /\ \E k \in 0 .. Len(compq), f \in TxFrames, n \in DataLens :
       /\ compq' = SubSeq(compq, k + 1, Len(compq))
       /\ Completed(k)[f] = "Free"
       /\ \/ /\ IsDataValid(n)
             /\ mem' = Written(MemRange(addr[f], n), pkts + 1)
             /\ status' = [Completed(k) EXCEPT ![f] = "OnTxQueue"]
             /\ Submit(f, n)
             /\ panicked' = panicked \cup TxPanics(k)
          \/ /\ ~IsDataValid(n)
             /\ panicked' = panicked \cup {"tx"} \cup TxPanics(k)
             /\ status' = Completed(k)
             /\ UNCHANGED <<mem, len, txq, pkts>>
  /\ UNCHANGED <<addr, rxq, fillq, holds>>

\* send_apply: the closure gets frame_size bytes from the address on, writes
\* some of them and returns a length, which nobody checks.
SendApply ==
  /\ {"tx", "tx_index"} \cap panicked = {} /\ pkts < MaxPkts
  /\ \E k \in 0 .. Len(compq), f \in TxFrames, n \in ClosureLens :
       /\ compq' = SubSeq(compq, k + 1, Len(compq))
       /\ Completed(k)[f] = "Free"
       /\ status' = [Completed(k) EXCEPT ![f] = "OnTxQueue"]
       /\ mem' = Written(MemRange(addr[f], IF n < FrameSize THEN n ELSE FrameSize),
                         pkts + 1)
       /\ Submit(f, n)
       /\ panicked' = panicked \cup TxPanics(k)
  /\ UNCHANGED <<addr, rxq, fillq, holds>>

-----------------------------------------------------------------------------
(* XskRx                                                                   *)

rx_frame_offset == FrameAddr(NTxFrames)

\* The frame a received address belongs to; u32 arithmetic.
RxFrame(a) ==
  NTxFrames + (((a % Word) - (rx_frame_offset % Word)) % Word) \div FrameSize

Received(k, f) == {i \in 1 .. k : RxFrame(rxq[i].addr) = f}

\* The fields of the descriptors on a ring.
Addrs(q) == [i \in DOMAIN q |-> q[i].addr]
Lens(q)  == [i \in DOMAIN q |-> q[i].len]
Pkts(q)  == [i \in DOMAIN q |-> q[i].pkt]

\* The last of the first k descriptors for frame f.
LastFor(k, f) == CHOOSE i \in Received(k, f) : \A j \in Received(k, f) : j <= i

\* update_rx_frames with the first k descriptors: old with the field of the
\* last descriptor for each frame.
Updated(old, field, k) ==
  [f \in Frames |-> IF Received(k, f) = {} THEN old[f] ELSE field[LastFor(k, f)]]

UpdateRxFrames_KeepAddr(k) ==                         \* mutant: no set_addr
  /\ rxq' = SubSeq(rxq, k + 1, Len(rxq))
  /\ UNCHANGED addr
  /\ len' = Updated(len, Lens(rxq), k)
  /\ holds' = Updated(holds, Pkts(rxq), k)
UpdateRxFrames_Relative(k) ==                         \* mutant: address in rx_frames
  /\ rxq' = SubSeq(rxq, k + 1, Len(rxq))
  /\ addr' = Updated(addr, [i \in DOMAIN rxq |-> rxq[i].addr - rx_frame_offset], k)
  /\ len' = Updated(len, Lens(rxq), k)
  /\ holds' = Updated(holds, Pkts(rxq), k)
UpdateRxFrames(k) ==
  /\ rxq' = SubSeq(rxq, k + 1, Len(rxq))
  /\ addr' = Updated(addr, Addrs(rxq), k)
  /\ len' = Updated(len, Lens(rxq), k)
  /\ holds' = Updated(holds, Pkts(rxq), k)

\* The received frames become Filled.
FilledBy(k) == Updated(status, [i \in DOMAIN rxq |-> "Filled"], k)

\* An index outside rx_frames is a panic, too.
RxPanics(k) ==
  IF \E i \in 1 .. k : RxFrame(rxq[i].addr) \notin RxFrames THEN {"rx_index"} ELSE {}

\* recv: the received frames become Filled; one Filled frame, if there is one,
\* is read and its address, headroom included, put back on the fill ring.
Recv ==
  /\ "rx_index" \notin panicked
  /\ \E k \in 0 .. Len(rxq) :
       /\ UpdateRxFrames(k)
       /\ panicked' = panicked \cup RxPanics(k)
       /\ \/ \E f \in RxFrames :
               /\ FilledBy(k)[f] = "Filled"
               /\ status' = [FilledBy(k) EXCEPT ![f] = "Free"]
               /\ fillq' = Append(fillq, addr'[f])
          \/ /\ \A f \in RxFrames : FilledBy(k)[f] # "Filled"
             /\ status' = FilledBy(k)
             /\ UNCHANGED fillq
  /\ UNCHANGED <<mem, txq, compq, pkts>>

\* apply_batch: the closure sees every frame, then all addresses go back.
RecvApply ==
  /\ "rx_index" \notin panicked
  /\ \E k \in 1 .. Len(rxq) :
       /\ UpdateRxFrames(k)
       /\ panicked' = panicked \cup RxPanics(k)
       /\ fillq' = fillq \o [i \in 1 .. k |-> rxq[i].addr]
  /\ UNCHANGED <<status, mem, txq, compq, pkts>>

-----------------------------------------------------------------------------
(* The kernel, aligned mode.                                               *)

\* A tx descriptor must lie within one frame.
ValidDesc(d) == (d.addr % FrameSize) + d.len <= FrameSize

KTransmit ==
  /\ txq # <<>>
  /\ txq' = Tail(txq)
  /\ compq' = IF ValidDesc(Head(txq)) THEN Append(compq, Head(txq).addr) ELSE compq
  /\ UNCHANGED <<halves, mem, rxq, fillq, pkts>>

\* The start of the frame a fill address points into, past the headroom.
KBuffer(a) == a - (a % FrameSize) + Headroom

KReceive ==
  /\ fillq # <<>> /\ pkts < MaxPkts
  /\ \E n \in DataLens \cap 1 .. FrameSize - Headroom :
       /\ mem' = Written(MemRange(KBuffer(Head(fillq)), n), pkts + 1)
       /\ rxq' = Append(rxq, [addr |-> KBuffer(Head(fillq)), len |-> n, pkt |-> pkts + 1])
  /\ fillq' = Tail(fillq)
  /\ pkts' = pkts + 1
  /\ UNCHANGED <<halves, txq, compq>>

\* A half that panicked makes no further call.
Stopped == panicked # {} /\ UNCHANGED vars

Next == Send \/ SendApply \/ Recv \/ RecvApply \/ KTransmit \/ KReceive
          \/ Stopped

Spec == Init /\ [][Next]_vars
-----------------------------------------------------------------------------
(* Properties                                                              *)

FrameOf(a) == a \div FrameSize
Places(q, f) == Cardinality({i \in DOMAIN q : FrameOf(q[i]) = f})

Descs == [addr : Bytes, len : Nat, pkt : 1 .. MaxPkts]

\* Addresses and lengths are in range, and the address of a Frame stays inside
\* that frame although set_addr moves it.
UmemTypeOK ==
  /\ \A f \in Frames : addr[f] \in Chunk(f)
  /\ len \in [Frames -> Nat]
  /\ status \in [TxFrames \cup RxFrames -> {"Free", "OnTxQueue", "Filled"}]
  /\ mem \in [Bytes -> 0 .. MaxPkts]
  /\ txq \in Seq(Descs) /\ rxq \in Seq(Descs)
  /\ compq \in Seq(Bytes) /\ fillq \in Seq(Bytes)
  /\ panicked \subseteq {"tx", "tx_index", "rx_index"}

\* The frames update_tx_frames and update_rx_frames compute from addresses are
\* the ones the kernel returned, headroom or not: no index is out of range, no
\* frame is marked for another, none is in two places, and a tx frame is lost
\* only to a closure of send_apply that returned more than the slice it was
\* given (the kernel discards the descriptor and never completes it).
FramesAccounted ==
  /\ panicked \subseteq {"tx"}
  /\ \A f \in TxFrames :
       LET n == Places(Addrs(txq), f) + Places(compq, f)
       IN  IF status[f] = "Free" THEN n = 0
           ELSE n = 1 \/ (n = 0 /\ len[f] > FrameSize)
  /\ \A f \in RxFrames :
       Places(fillq, f) + Places(Addrs(rxq), f)
         + (IF status[f] = "Filled" THEN 1 ELSE 0) = 1

\* What a descriptor points to is its own packet and nothing else, from the
\* moment it is put on a ring until it is transmitted or, for a received one,
\* read by recv: neither half and no kernel write ever reaches into it.
DescriptorsHoldData ==
  /\ \A i \in DOMAIN txq : ValidDesc(txq[i]) =>
       \A b \in MemRange(txq[i].addr, txq[i].len) : mem[b] = txq[i].pkt
  /\ \A i \in DOMAIN rxq :
       \A b \in MemRange(rxq[i].addr, rxq[i].len) : mem[b] = rxq[i].pkt
  /\ \A f \in RxFrames : status[f] = "Filled" =>
       \A b \in MemRange(addr[f], len[f]) : mem[b] = holds[f]

\* A step changes bytes of one frame only, the one it hands on with them, and
\* never while that frame is on a ring of its half: "a successful write is
\* completely contained within a single frame" (write_to_umem_checked), and so
\* is the region send_apply gives to its closure.
OnlyOwnFrame ==
  [][\A b \in Bytes : mem'[b] # mem[b] =>
       LET f == FrameOf(b)
       IN  \/ /\ Places(Addrs(txq), f) + Places(compq', f) = 0
              /\ Places(Addrs(txq'), f) = 1
           \/ /\ Places(Addrs(rxq), f) = 0 /\ status[f] # "Filled"
              /\ Places(Addrs(rxq'), f) = 1]_vars
=============================================================================
