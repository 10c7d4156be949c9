# TLA+ models of xdpsock

xdpsock drives an AF_XDP socket: user space and the kernel share a memory area
(the UMEM, divided into frames) and four single-producer single-consumer rings
through which they hand frames to each other. This directory models that
exchange, the memory under it and the two example programs on top of it. It
states what must hold of them, checks it with TLC on small instances, and
proves its safety part with TLAPS for every instance.

## The system and its parts

| Part | Source | What it does | Module |
|---|---|---|---|
| `XskTx` | `src/xsk/tx.rs` | Owns the tx frames. `send`/`send_apply` write the frame at `tx_cursor` and submit a batch when it is full; `complete_frames` takes frames back from the completion ring; `drain` submits the rest and waits | `XskTx` |
| `XskRx` | `src/xsk/rx.rs` | Owns the rx frames. `recv` copies out the packet of the frame at `rx_cursor`; `recv_apply` runs a closure on all that arrived; both refill the fill ring | `XskRx` |
| `TxQueue`, `RxQueue` | `src/socket/socket.rs` | tx and rx ring: produce, consume, wakeup (`sendto`), poll | `XskRing`, and the users above |
| `FillQueue`, `CompQueue` | `src/umem/umem.rs` | fill and completion ring | `XskRing`, and the users above |
| `Frame` | `src/umem/umem.rs` | address, length, status of a frame; access to its memory | `UmemFrames`; status and content in `XskTx`, `XskRx` |
| poll, fd | `src/socket/poll.rs`, `fd.rs` | `poll` with `EINTR` reported as "not ready" | outcomes in `XskRx` |
| `Umem`, `MmapArea` | `src/umem/umem.rs`, `mmap.rs` | creates and destroys the memory | `XskLifecycle` |
| `Socket::new` | `src/socket/socket.rs` | creates and binds the socket | `XskLifecycle` |
| `Xsk`, `Xsk2` | `src/xsk/xsk.rs` | creates everything, splits the frames in tx and rx | `XskLifecycle` |
| `UmemConfig`, `SocketConfig` | `src/umem/config.rs`, `src/socket/config.rs`, `util.rs` | validation | `XskLifecycle` |
| example dev_to_dev | `examples/dev_to_dev.rs` | one program sends numbered packets, another counts them, a thread and a socket per queue | `DevToDev` |
| example synacker | `examples/synacker.rs` | answers the packets a filter selects with a SYN-ACK | `Synacker` |
| interface statistics | `src/iface.rs` | reads `/sys` twice and subtracts | two readings and their difference in `DevToDev` |
| kernel, driver, libbpf | external | the other end of the rings | from how the crate uses them |

The user thread and the kernel run concurrently. Everything `XskTx` and `XskRx`
do is sequential within one thread (`&mut self`); the two halves own disjoint
frames and disjoint rings, so each is modelled with its own kernel. That they
do not disturb each other in the memory they share is what `UmemFrames` is
about. The example programs use the halves; they are modelled over what the
halves promise (`TxChannel`, `RxChannel`), not over their steps.

## Modules

**`XskTx`** – `status`, `tx_cursor`, `cur_batch_size`, `outstanding_tx_frames`
and the counters are the fields of the struct. `pc` says where inside a call
the thread is: `produce`/`wakeup` are the loop of `put_batch_on_tx_queue`,
`drain`/`drain_check` the loop of `drain`, the `*_panic` values the panics of
`expect` and of a negative range. Between two iterations, and between `produce`
and the wakeup, the kernel may run. Steps that touch shared memory only once
are one action: `Send` reads the completion ring, updates the frames, and
accepts, refuses or panics. `UpdateTxFrames`, `CompleteFrames`, `PutBatch`,
`Produce`, `ProduceReturn` are the helpers of the code. Ghost state: `umem`
(the number of the packet in each frame), `wire` (what was transmitted),
`result`, `draining`.
The kernel takes frames from the tx ring (`KTransmit`) while it has budget and
room on the completion ring, completes them in any order (`KComplete`), and
goes to sleep (`KSleep`). `KernelMode` tells copy mode (`NEED_WAKEUP` always
set, one `sendto` transmits up to `KernelBudget` frames) from a driver (works
until it has nothing to do, then sets `NEED_WAKEUP`).

**`TxChannel`** – the promise of `XskTx`: packets accepted are transmitted
once, in order, unchanged, and `drain` returns only when all are. `XskTx`
implements it with `accepted <- next_pkt - 1` (`ChannelSpec`).

**`XskRing`** – one ring at the granularity of single accesses to shared
memory: reserve, write each slot, submit; peek, read each slot, release. The
indices wrap at `IndexMod` and each side has cached copies, refreshed when
libbpf refreshes them. Both flavours of `consume` are modelled: `RxQueue` stops
at the end of the slice, `CompQueue` panics beyond it. Memory is sequentially
consistent here: the acquire/release barriers are libbpf's.

**`BoundedQueue`** – the promise of a ring: a bounded FIFO queue, all of a
batch or nothing on the producing side. `offered` is the batch a caller of
`produce` has slots for; `Put` adds this batch and no other. `XskRing` implements
it with the entries between the shared indices as the queue and the caller's
slice as the offer (`QueueSpec`). This is what
lets `XskTx` and `XskRx` use sequences for rings; a consume there may return
fewer entries than are on the ring (a stale cached index), but none only if
the ring is empty, which is `RefusalsAreHonest` of `XskRing`.

**`XskRx`** – the fields of the struct, `pc` for the loops that refill the
ring, and the kernel that takes frames from the fill ring, writes packets to
them and publishes them. The length of packet p is written p, so that a length
left over from another packet is visible. What the caller does (`client`) and
whether the kernel uses frames in order (`in_order`) are chosen in the initial
state and stay, so one run covers all of them.

**`RxChannel`** – the promise of `XskRx`: a packet is lost on arrival or waits
until it is delivered, once and unchanged, a batch in the order of arrival;
with `fifo` no waiting packet is passed over. The waiting packets are a set:
they are numbered as they arrive, so their order is known. `XskRxChannel` has
the refinement mapping (`RxChannelSpec`), with the packets on the rx ring and
in `Filled` frames as the waiting ones.
`fifo` is `Fifo`: a caller of `recv_apply` only, or of `recv` only with a kernel
that uses frames in order.

**`UmemFrames`** – both halves on one UMEM, byte by byte. A frame has the
fields of `Frame` (address, length, status); what travels over the rings are
addresses and lengths, cut to 32 bits (`Word`) where the code casts. Each half
computes the index of a frame from an address (`TxFrameIndex`, `RxFrame`), and
`set_addr` leaves the address with the headroom in the frame, from where it
returns to the fill ring. `IsDataValid` is the check of
`write_to_umem_checked`; a closure of `send_apply` may return any length, and the
kernel discards a descriptor that leaves its frame (`XskTx` has none of those).
An index outside the vector of frames panics (`TxPanics`, `RxPanics`). Which
frame is next, batches and wakeups are left to `XskTx` and `XskRx`.

**`DevToDev`** – the sending and the receiving program of the example: the main
thread of each (`Spawn`, `Join`, `JoinPanic`), its threads, the sockets as
channels, the network that loses packets and chooses a queue, other traffic,
and the statistics of the interfaces. Accepted packets wait until their batch
is full (`batched`) and then for a kernel that is awake (`awake`): `PutBatch` is
`put_batch_on_tx_queue`, whose `sendto` may wake it, be ignored or panic, and
whose range may start below zero (`RangePanics`). `RxPanics` is an iteration in
which `poll` fails or the closure meets a number or a payload it cannot index. `SplitPkts` is `split_pkts`, whose numbers
are sent in ascending order, so what a queue accepted and transmitted are sets;
`RxIteration`, `AllMatched`, `LeaveOnTimeout`, `CountMissing` are `rx_pkts`. There
is no clock: the timeout may have passed whenever the loop looks.

**`Synacker`** – filter, reply and loop of the example, the Ctrl-C handler, the
clock, and a build with or without overflow checks. A reply is on the ring when
`send` accepts it and leaves while the kernel is awake (`syn_awake`).
`answer_panic` is a panic after a packet was taken to be answered (the sum
overflows, the `sendto` fails), `panic` any other (`RecvPanics`: `poll` fails, or
the packet is longer than the buffer).

**`XskLifecycle`** – validation of the configurations, `Xsk::new` and
`Xsk2::new` (each step may fail), and destruction. `owns` lists what each owner
(the locals of `new`, an `Xsk`, the two halves of an `Xsk2`) has, in the order
Rust drops it: fields as declared, locals in reverse. A panic in `new` is the
drop of its locals. The halves are dropped by threads of their own; the
decrement of an `Arc` and the destruction by the last holder are two steps.
External: `xsk_umem__delete` refuses while a socket uses the UMEM, and the
kernel refuses a headroom larger than the frame. The machine word is `U32`, so
that the cut of `tx_batch_size as u32` is visible in small numbers.

The proofs are in modules of their own:

| Module | Theorems about |
|---|---|
| `XskTxProofs` | `XskTx`: types, ownership of frames, no overwriting |
| `XskTxOrder` | `XskTx`: counters, order of frames and packets, refinement of `TxChannel` |
| `XskRxProofs` | `XskRx`: types, ownership, counters, intact delivery; the order of frames and packets as far as the kernel keeps it |
| `XskRxOrder` | `XskRx`: room for refills, order of frames and packets, refinement of `RxChannel` |
| `XskRingProofs` | `XskRing`: arithmetic of wrapping indices, free slots, refinement of `BoundedQueue`; in a last section `Synacker`: the replies |
| `XskLifecycleProofs` | `XskLifecycle`: ownership and reference counts, accepted sizes |
| `UmemProofs` | `UmemFrames`: arithmetic of addresses, accounting of frames, contents of the memory |
| `DevToDevProofs` | `DevToDev`: accounting of packets and statistics |

`MCXskTx`, `MCXskRing`, `MCXskRx`, `MCXskLifecycle`, `MCUmemFrames`,
`MCExamples` are the modules TLC runs. `MCExamples` has both examples, one of
which runs in a behaviour. Operators marked `mutant` are variants of the
definition below them as a bug would change it; no specification uses them.

## Runs

| Run | Configuration | Shows |
|---|---|---|
| `tx_batch1` | 4 frames, rings of 2, batch 1, 9 packets, copy mode, one frame per `sendto`, failing `sendto`, drain at any time, out-of-order completion | `TxTypeOK`; `FrameOwnership` (a frame is in one place, its status tells which); `OutstandingExact` (counters agree with the rings); `NoOverwrite` (nothing the kernel owns is written); `ChannelSpec`; `SendReturns` (the loop of `put_batch_on_tx_queue` ends) |
| `tx_batch2` | 6 frames, batch 2, tx ring 4, completion ring 8, 9 packets (so `drain` submits a partial batch), driver mode | `ChannelSpec` for batches; `NoRangePanic`; `NoFreeFramesIsTrue` (a send is refused only if no frame is free); `DrainReturns`; `RetrySucceeds` |
| `ring_fifo` | ring of 2, indices modulo 8, batches up to 3, requests 0 to 3 | the ring is a FIFO queue (`QueueSpec`), never writes a slot in use, never refuses because of a stale index, returns what it updated |
| `rx_all` | 3 frames, fill ring 3, rx ring 2, 4 packets; callers of `recv` (perhaps with a short buffer), of `recv_apply`, of both; kernels that use frames in order and in any order; interrupted and failing polls | `RxTypeOK`; `RxOwnership` (a frame is in exactly one place); `ToBeFilledExact`; `DeliveredIntact`; `RecvMissesNothing`; `RefillNeverSpins`; `RxChannelSpec`; `ReceivedDelivered`; `KernelGetsFrames` |
| `umem_bytes` | 2 frames of 4 bytes for each half, headroom 1, 32-bit word as large as the UMEM, 4 packets; data that fills the mtu and data beyond it, closures that return more than their slice | `UmemTypeOK`; `FramesAccounted` (indices computed from addresses are those of the frames returned); `DescriptorsHoldData` (what a descriptor points to is its own packet); `OnlyOwnFrame` (a write stays in one frame) |
| `examples_all` | dev_to_dev with 2 queues on each side, 3 packets, 1 of other traffic, 2 frames and batches of 2 per sender, 1 frame per receiver; synacker with 2 arrivals out of 8 kinds, 5 filters, 1 sending frame, both builds | `PacketsAccounted` (every packet is in one place, what is reported missing did not arrive); `StatsCoverRun`; `AnswersExact` (the wanted packets are answered, each once and in order, but for the one being answered at a panic); `ProgramsEnd` and `SynackerEnds` (the programs end, unless a kernel sleeps for good on what was accepted) |
| `lifecycle_all` | valid, invalid and boundary values of every field, up to 3 frames, every failure, both APIs | `HandlesValid` (what can still be used is still there), `ReleasedOnce` (also after a failure), `MemoryOutlivesSocket`, `AcceptedSizesWork`, `FramesTile` |
| `tx_wrap` | 3 frames, batch 2 | **violation** of `NoRangePanic` |
| `tx_stuck` | copy mode, batch 2, one frame per `sendto` | **violation** of `DrainReturns` |
| `tx_prefill` | `prefill` after a send | **violation** of `NoOverwrite` |
| `ring_short` | slice of 1, request of 2 | **violation** of `ReturnsNumberUpdated` |
| `ring_debug` | overflow checks on, indices modulo 4 | **violation** of `ProduceReturns` |

The violations are disagreements between the code and what its documentation
says; PROJECT.json quotes both sides under `findings`.

**Bounds.** In `XskTx` the number of packets (`MaxPkts`) is at least twice the
number of frames plus one in `tx_batch1` and one and a half times in
`tx_batch2`, so the cursor wraps, frames are reused and `drain` meets a partial
batch. The rings are smaller than the number of frames where full rings
matter. `IndexMod` is four times the ring, so the indices wrap while entries
are on the ring; a batch of 3 on a ring of 2 is refused for ever. In `XskRx`
there are more packets than frames, so that frames are reused with another
packet and another length. In `UmemFrames` the first packet after a reuse meets
the bytes of an earlier one, and four packets let one frame of each half go
round while the other is in use. In `DevToDev` two queues and three packets
give the senders shares of different size, one a full batch and one that `drain`
must submit, one receiving frame makes sockets drop packets, and the network
may put any packet on any queue. The senders have a frame for each of their
packets, so a send refused for want of a frame is met in `Synacker` and
`XskTx` only, and `RangePanics` is never true here (`tx_wrap` is about it); the
run was also made with one queue, and with one frame and batches of one, without
arrivals at synacker: dev_to_dev meets refusals there, and the properties hold. In `Synacker` each packet differs
from the wanted one in one field; sequence numbers are modulo 2, so every other
one is the last. In `XskLifecycle` three frames are enough for both halves to
have some, one of them more than one; 17 is the batch size that is 1 when cut
to the four-bit word.

**Fairness.** `XskTx`: a thread inside a call is scheduled again and again
(weak fairness of `Loops`); a kernel with budget processes the ring and the
device completes what it was given (weak fairness of `KTransmit` and
`KComplete`); a `sendto` repeated for ever succeeds now and then (strong
fairness of `WakeupOk`; the ignored errnos of `TxQueue::wakeup` are transient
shortages). Nothing obliges the caller to call, except in `RetrySpec`, the
`while let Err(_) = tx.send(..) {}` of the tests. `XskRx`: the caller calls
`recv` again and again, not every `poll` is interrupted, the thread in a call
is scheduled, an awake kernel takes frames. No fairness on arrivals. The
examples: a program that was started and its threads are scheduled, time passes,
the loop of `rx_pkts` looks at the clock every 65,536 iterations, and a kernel
that is awake transmits what is on the ring. Nothing obliges it to stay awake, a
`sendto` to wake it, the user to press Ctrl-C or the network to deliver.

**Conditions under which the liveness properties hold.** They are part of the
result, not of convenience:

- `DrainReturns` needs a kernel that transmits all of the last batch after one
  wakeup. It fails if a `sendto` transmits only part of it (`tx_stuck`), if
  the wakeup failed with an ignored errno, or if the completion ring is
  smaller than the number of tx frames so that a driver goes to sleep for want
  of room: `drain` never wakes the kernel again.
- `RetrySucceeds` needs the same: a refused `send` does not wake the kernel.
- `SendReturns` needs a batch no larger than the tx ring, and a tx ring and a
  completion ring that together hold all tx frames: the loop does not read the
  completion ring while it waits.
- `ProgramsEnd` says without condition that the receiver of dev_to_dev ends. Its
  sender ends if no queue stays `Asleep` for ever: its thread repeating
  `send_apply` or `drain` while the kernel sleeps on accepted packets, which
  neither of the two calls wakes. `SynackerEnds` has the same condition for a
  reply that is repeated because all frames are taken (`SendStuck`). Whether it
  is met is the question of `DrainReturns` and `RetrySucceeds`.
- `NoFreeFramesIsTrue` needs completions in order, since `send` looks at the
  frame at the cursor only.
- `NoRangePanic` needs a batch size that divides the number of frames and
  drains at multiples of it, or batches of one.
- `RecvMissesNothing` and the order of `recv` need a kernel that uses frames in
  the order of the fill ring and a caller that does not mix in `recv_apply`,
  which leaves `rx_cursor` where it is.
- `KernelGetsFrames` needs a fill ring that holds all rx frames: `XskRx::new`
  ignores a `produce` that returned 0.

The safety properties of `XskLifecycle` have conditions of the same kind:
`MemoryOutlivesSocket` needs a tx half with at least one frame, `ReleasedOnce`
excepts the UMEM that `Xsk2::new` forgets (also when `XskRx::new` panics
afterwards for want of a frame), and `AcceptedSizesWork` needs a batch size
below 2^32.

`UmemFrames` assumes a UMEM of at most 4 GiB (`UmemConstants`): `RxFrame` and
`TxFrameIndex` cut addresses to 32 bits and would confuse frames above.
`AnswersExact` excepts options that give both ports, of which the filter
compares the destination port only. `RxOwnership` and `ToBeFilledExact` say
nothing of the state a panic of `recv` or `recv_apply` leaves behind.

**Deadlock** is checked in every run but `examples_all`, where programs end; a
panicked thread stutters (`Stopped`) in the others.

## Proofs

`XskTxProofs` proves, for all values of the constants allowed by `TxConstants`
(any number of frames, ring sizes, batch size, kernel mode, errors, caller):

- `TxTypeCorrect`: `Spec => []TxTypeOK`. The type invariant is strengthened by
  `PutRange`: inside the loop of `put_batch_on_tx_queue` the range lies within
  `tx_frames`, without which `Produce` could put a non-frame on the ring.
- `TxFrameOwnership`: `Spec => []FrameOwnership`. Not inductive as it stands,
  because `put_batch_on_tx_queue` marks its range without looking at the
  status. The inductive invariant `OwnInv` adds `PendingFree` (the
  `cur_batch_size` frames before the cursor are `Free` as long as they are not
  being submitted) and `Fresh` (nothing is submitted before the first send).
  `BatchIsPending` shows that the range is exactly these frames unless it
  starts below zero, when the code panics; `CompleteFramesOwn` and
  `PutBatchOwn` are what the two helpers do to ownership. No assumption on the
  batch size is needed: a bad one leads to a panic, never to a shared frame.
- `TxNoOverwrite`: `Spec => NoOverwrite` if the caller does not `prefill` after
  its first send (`tx_prefill` shows that the assumption is needed).

`XskRxProofs` proves, for all values allowed by `RxConstants` (any number of
frames, ring sizes, kernels in order or not, callers, poll errors):

- `RxTypeCorrect`: `Spec => []RxTypeOK`, so `n_frames_to_be_filled` never wraps
  and `rx_cursor` stays inside `rx_frames`.
- `RxDeliversIntact`: `Spec => []DeliveredIntact`.

and, assuming that the fill ring holds all rx frames
(`NRxFrames <= FillQueueSize`, without which `XskRx::new` gives the kernel none
and goes on):

- `RxFramesOwned`: `Spec => []RxOwnership`;
- `RxCountersExact`: `Spec => []ToBeFilledExact`;
- `RxRefillsAtOnce` (in `XskRxOrder`): `Spec => []RefillNeverSpins`.

All five follow from one inductive invariant, `RxInv`. None of them is
inductive alone: that a packet is delivered with its own length needs the length
to be right while the packet is on the ring and while its frame is `Filled`
(`LengthsRight`); this survives the kernel's write to a frame only because the
frame is neither on the rx ring nor `Filled`, and `update_rx_frames` only
because no frame is on the rx ring twice (`Apart`); and `Apart` survives a
refill because of what the loops work on (`Processing`: `recv` puts back the
`Filled` frame at the cursor, `recv_apply` frames that are not `Filled`).
`Accounted` adds, under the assumption on the fill ring, that no frame is lost
and that the counters agree with the rings. `Consumed` is what
`poll_and_consume` and `update_rx_frames` do to the ring and the frames,
`Produced` what a refill does; there is one lemma per action. `RxRefillsAtOnce`
is a counting argument: the fill ring and the frames to put back on it together
are distinct frames, of which there are `NRxFrames`.

`XskTxOrder` goes on from `OwnInv` to the counters and the order, again for all
values of the constants:

- `TxOutstandingExact`: `Spec => []OutstandingExact`. `Counts` says what the
  counters count inside a call too, where the frames of the batch are on the tx
  ring and `outstanding_tx_frames` does not have them yet.
- `TxIsChannel`: `Spec => ChannelSpec` if the caller does not `prefill` after its
  first send. The refinement mapping needs to know what is in the frames on the
  tx ring: `InOrder` says that what is on the wire, in the frames on the ring
  and in the last `cur_batch_size` frames before the cursor are together the
  packets 1, 2, ... in this order. A batch larger than the number of frames
  overwrites its own first packets, so `InOrder` speaks of the last `NTxFrames`
  only; such a batch ends in a panic and is never transmitted.
- `TxNoFreeFramesIsTrue`: `Spec => []NoFreeFramesIsTrue` if the device completes
  in order (`MaxInFlight = 1`). `Circle` is the reason: going back from the
  cursor come the frames of the batch, of the tx ring, of the device and of the
  completion ring, so the frame at the cursor is the next to come back.
- `TxNoRangePanic`: `Spec => []NoRangePanic` for `EvenBatches`: the batch size
  divides the number of frames, and a caller with batches of more than one does
  not send after a drain (`tx_wrap` shows that the first is needed). By
  `AlignInv` every batch starts at a multiple of the batch size.

`XskRxOrder` does the same for `XskRx`, without any assumption in these two:

- `RxRecvMissesNothing`: `Spec => []RecvMissesNothing`. `Circle` says that, if
  the caller uses `recv` alone and the kernel uses frames in order, the frames
  from `rx_cursor` on are the `Filled` ones, those on the rx ring, those the
  kernel holds and those on the fill ring, each in order, and that the packets
  in them ascend. So the frame at the cursor is `Filled` if any is. If the fill
  ring is too small for all frames it is always empty and nothing arrives
  (`Starved`).
- `RxIsChannel`: `Spec => RxChannelSpec`. Each call delivers a batch in the order
  of arrival because the rx ring is in that order, and nothing is delivered
  twice because no two frames hold the same packet (`Numbered`). That nothing
  is passed over under `fifo` follows from `Circle` for `recv`, and for
  `recv_apply` from the fact that it leaves no frame `Filled`.

`RxOrderInv` is inductive relative to `RxInv`.

`XskRingProofs` proves, for every ring size and every index width that is a
multiple of it (`RingConstants`), every interleaving of the two sides, both
flavours of `consume` and both builds:

- `RingTypeCorrect`, `RingWritesFreeSlots`, `RingRefusesHonestly`:
  `RingTypeOK`, `WritesOnlyFreeSlots` and `RefusalsAreHonest` are invariants;
- `RingReturnsNumberUpdated` and `RingIsQueue`: `ReturnsNumberUpdated` and
  `QueueSpec` hold if no caller asks `consume` for more entries than its slice
  has room for (`RoomSuffices`; `ring_short` shows that it is needed).

The inductive invariant `RingInv` says how far the four copies of the indices
are apart: a cached copy is behind the shared index, so it shows no more room
and no more entries than there are (`ProdDistances`, `ConsDistances`), and what
was written or read so far is what is in the slots (`Written`, `Read`). All
distances are differences modulo `IndexMod`; the first part of the module has
the lemmas about them, among them that indices less than `Size` apart have
different slots, which is where `IndexMod` must be a multiple of `Size`.

`XskLifecycleProofs` proves, for every set of configurations, every failure of
`new` and every interleaving of the drops, that `LifecycleTypeOK`,
`HandlesValid`, `ReleasedOnce`, `MemoryOutlivesSocket`, `FramesTile` and
`AcceptedSizesWork` are invariants (`LifecycleTypeCorrect`,
`LifecycleHandlesValid`, `LifecycleReleasedOnce`,
`LifecycleMemoryOutlivesSocket`, `LifecycleFramesTile`,
`LifecycleAcceptedSizesWork`). `LifeInv` relates the lists of what is owned to the
counts: nothing has two owners (`Single`), a strong count is the number of
frames or of queues that are left, and at zero the resource is released or its
last holder is about to (`MmapCounted`, `SocketCounted`); the UMEM is dropped
last, by the owner of all that needs it (`UmemLast`); and behind a queue its
owner still has frames (`Guarded`, if both halves got some), which is why the
memory outlives the socket whichever half goes first. `Phase` is what `new` has
built at each of its steps. `AcceptedSizesWork` needs an invariant of its own,
`Accepted`: what passed validation stays as it was until `new` returns. That
`is_pow_of_two` accepts powers of two only is `PowOfTwo`: if nothing is left of
a number without its lowest bit, the number is that bit.

`UmemProofs` proves, for every number and size of frames, headroom, mtu and
32-bit word allowed by `UmemConstants`, and every length a closure may return:

- `UmemTypes`: `Spec => []UmemTypeOK`, so the address of a `Frame` stays inside
  its frame although `set_addr` moves it;
- `UmemAccounted`: `Spec => []FramesAccounted`, which includes that no index is
  ever out of range;
- `UmemHoldsData`: `Spec => []DescriptorsHoldData`;
- `UmemOnlyOwnFrame`: `Spec => OnlyOwnFrame`.

All four come from `UmemInvariant`, the invariance of `UmemInv`. `AddrInv` says
where in its frame the address of each `Frame` is; `TxAccount` and `RxAccount`
that no ring has two addresses of one frame, and that the status of a frame
tells which ring it is on; `TxData`, `RxData` and `FilledData` what is in the
bytes a descriptor or a `Filled` frame covers. The last three depend on the
others: a write leaves the rest of the data alone because it stays inside a
frame that no other descriptor is about. The first part of the module is about
addresses: a byte belongs to one frame (`ByteFrame`, `InFrame`), a range that
starts in a frame and passes `IsDataValid` or fits the mtu ends in it
(`RangeInFrame`, `ValidWithin`), and the indices that `TxFrameIndex` and
`RxFrame` compute from a 32-bit address are those of the frame it lies in
(`TxIndexRight`, `RxIndexRight`), which is where the UMEM must not exceed the
word. Division by a constant that is not a literal is first reduced to its
defining inequalities (`DivBounds`, `DivUnique`).

`DevToDevProofs` proves, for every number of queues, packets and frames and
every amount of other traffic (`DevConstants`), and the last section of
`XskRingProofs` for every set of packets and options (`SynConstants`):

- `DevPacketsAccounted`: `DevSpec => []PacketsAccounted`;
- `DevStatsCoverRun`: `DevSpec => []StatsCoverRun`;
- `SynackerAnswers`: `SynSpec => []AnswersExact`.

`DevSpec` and `SynSpec` are the programs without fairness; the specification of
`MCExamples` is one of the two at a time. `DevInv` has in `OnePlace` that what
left a sender is either lost, or on one socket at one place, or seen by one
receiver; therefore each packet a receiver counts is new to it and the count is
the number of elements of `recvd_nums` (`MatchingCounts`). `Covered` relates the
counters of the interfaces to the packets that left and that arrived since the
first reading, and `Progress` says that there were none before it. A step of a
thread that may panic changes no packet by it, and neither ends nor starts
another thread (`Survives`). For
`Synacker` the invariant `SynInv` carries the order-preserving match of the
replies with the wanted packets that are `Settled`, all but the one that is being
answered or was at a panic; a handled packet extends it
(`MatchedAnswered`) or not (`MatchedUnwanted`), according to `FilterIsExact`:
with at most one port given the filter agrees with the options.

The theorems speak of every instance of the model, including its kernel; that the model is the code is
a matter of reading.

**What is model-checked only.** Liveness (`SendReturns`, `DrainReturns`,
`RetrySucceeds`, `ReceivedDelivered`, `KernelGetsFrames`, `ProgramsEnd`,
`SynackerEnds`): the provers do not handle fairness. Every other property of a
passing run has a theorem.

## Observations without a run

Met while modelling; no run is about them.

- `umem_region_mut_checked` makes no check although its documentation says so;
  nothing in the crate calls it.
- The length a closure of `send_apply` returns is not checked. The kernel
  discards a descriptor that leaves its frame, so the frame never comes back
  and a later `drain` does not return. `FramesAccounted` states the exception.
- `synacker` answers every TCP segment the filter selects, not only SYNs; with
  both ports given it does not compare the source port; in a debug build a
  sequence number of 2^32 - 1 makes it panic (`AckOverflows`).
- Every receiving thread of `dev_to_dev` waits for all `n_pkts`, so with
  several queues the threads normally end by timeout. A second sender with the
  same headers, or a network that duplicates packets, is not modelled: the
  count would pass `n_pkts` and the loop, which compares with `!=`, would end by
  timeout too. A number beyond `n_pkts` is an index out of range, one of the
  panics of `RxPanics`.
- The iteration counter of `rx_pkts` is an `i32` and overflows after 2^31
  iterations in a debug build.

## Not modelled

Timestamps in the statistics; log output; memory barriers; the flag sets of the
configurations; the contents of packets beyond what the filters look at; a
caller that takes an `Xsk` apart and drops its fields in an order of its own;
the unchecked and unused accessors of `Frame`; `poll_write`, which nothing
calls; the files under `/sys` and the fields of the interface statistics other
than the packet counters; parsing of command lines and the printed rates of the
examples. Memory is sequentially consistent throughout.

## Plan

1. `XskTx` and `XskRx` in one thread with a shared kernel budget, as `Synacker`
   uses them, instead of over their promises.
