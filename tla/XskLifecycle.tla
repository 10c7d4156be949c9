---------------------------- MODULE XskLifecycle ----------------------------
(***************************************************************************)
(* From the configuration to the last drop: UmemConfig and SocketConfig,   *)
(* Xsk::new and Xsk2::new, and the destruction of what they built.  Three  *)
(* resources are acquired one after the other (the mapping, the UMEM, the  *)
(* socket); the mapping is shared by all frames and the socket by the two  *)
(* queues, both through an Arc.  The halves of an Xsk2 may be dropped by   *)
(* different threads.                                                      *)
(***************************************************************************)
EXTENDS Integers, Sequences, FiniteSets

CONSTANTS
  U32,             \* 2^32 in the code: `as u32` keeps the remainder
  MinFrameSize,    \* 2048
  XdpHeadroom,     \* XDP_PACKET_HEADROOM
  FrameCounts, FrameSizes, Headrooms, RingSizes,   \* the fields of the configs
  TxFrameCounts, TxBatchSizes                      \* the arguments of new

ASSUME LifecycleConstants ==
  /\ U32 \in Nat \ {0} /\ MinFrameSize \in Nat /\ XdpHeadroom \in Nat
  /\ \A S \in {FrameCounts, FrameSizes, Headrooms, RingSizes} :
       S \subseteq 0 .. U32 - 1
  /\ TxFrameCounts \subseteq Nat /\ TxBatchSizes \subseteq Nat

VARIABLES
  umem_config, socket_config,
  args,        \* of new: which of Xsk and Xsk2, n_tx_frames, tx_batch_size
  pc,          \* how far the construction got
  owns,        \* the values each owner has, in the order they are dropped
  dropping,    \* the owners that are being dropped
  left,        \* frames of each vector that are not yet dropped
  refs,        \* the strong counts of Arc<MmapArea> and Arc<Socket>
  acquired, released,   \* calls that created and destroyed each resource
  forgotten    \* mem::forget(umem)

configVars == <<umem_config, socket_config, args>>
heapVars   == <<left, refs, acquired, released, forgotten>>
vars       == <<configVars, pc, owns, dropping, heapVars>>

Resources == {"mmap", "umem", "socket"}
Vectors   == {"frames", "tx_frames", "rx_frames"}
Owners    == {"main", "xsk", "tx", "rx"}   \* main: the locals of new
Live(r)   == released[r] < acquired[r]

-----------------------------------------------------------------------------
(* Configuration.                                                          *)

UmemConfigs   == [frame_count : FrameCounts, frame_size : FrameSizes,
                  frame_headroom : Headrooms, fill_queue_size : RingSizes,
                  comp_queue_size : RingSizes]
SocketConfigs == [rx_queue_size : RingSizes, tx_queue_size : RingSizes]
Args          == [api : {"Xsk", "Xsk2"}, n_tx_frames : TxFrameCounts,
                  tx_batch_size : TxBatchSizes]

\* b is the lowest bit that is set in val; val & (val - 1) clears it.
LowestBit(b, val) == val % b = 0 /\ val % (2 * b) # 0
NoBitLeft(val) == \E b \in {2 ^ k : k \in 0 .. val} : LowestBit(b, val) /\ val - b = 0
IsPowOfTwo_ZeroToo(val) == val = 0 \/ NoBitLeft(val)                  \* mutant
IsPowOfTwo(val) == val # 0 /\ NoBitLeft(val)

UmemConfigValid(c) ==
  /\ c.frame_count # 0
  /\ IsPowOfTwo(c.fill_queue_size) /\ IsPowOfTwo(c.comp_queue_size)
  /\ c.frame_size >= MinFrameSize

SocketConfigValid(c) == IsPowOfTwo(c.rx_queue_size) /\ IsPowOfTwo(c.tx_queue_size)

TxBatchFits(c, a) == a.tx_batch_size % U32 <= c.tx_queue_size

\* The product of two u32 fits a usize.
UmemLen(c) == c.frame_count * c.frame_size
Addr(c, i) == i * c.frame_size
Mtu_NoHeadroom(c) == c.frame_size - XdpHeadroom                     \* mutant
Mtu(c) == c.frame_size - (XdpHeadroom + c.frame_headroom)

-----------------------------------------------------------------------------
Nothing == [r \in Resources |-> 0]

Init ==
  /\ umem_config \in UmemConfigs /\ socket_config \in SocketConfigs
  /\ args \in Args
  /\ pc = "umem_config"
  /\ owns = [o \in Owners |-> <<>>] /\ dropping = {}
  /\ left = [v \in Vectors |-> 0]
  /\ refs = [r \in {"mmap", "socket"} |-> 0]
  /\ acquired = Nothing /\ released = Nothing
  /\ forgotten = FALSE

Acquire(r) == acquired' = [acquired EXCEPT ![r] = @ + 1]
Release(r) == released' = [released EXCEPT ![r] = @ + 1]
GoTo(next) == pc' = next /\ UNCHANGED <<configVars, dropping>>

\* A panic drops the locals of new.
Panic == /\ pc' = "panic"
         /\ dropping' = dropping \cup {"main"}
         /\ UNCHANGED configVars

BuildUmemConfig ==
  /\ pc = "umem_config"
  /\ GoTo(IF UmemConfigValid(umem_config) THEN "socket_config" ELSE "err")
  /\ UNCHANGED <<owns, heapVars>>

BuildSocketConfig ==
  /\ pc = "socket_config"
  /\ GoTo(IF SocketConfigValid(socket_config) THEN "new" ELSE "err")
  /\ UNCHANGED <<owns, heapVars>>

\* Only Xsk2 has a batch size.
New ==
  /\ pc = "new"
  /\ GoTo(IF args.api = "Xsk2" /\ ~TxBatchFits(socket_config, args)
          THEN "err" ELSE "mmap")
  /\ UNCHANGED <<owns, heapVars>>

CreateMmap ==
  /\ pc = "mmap"
  /\ \/ GoTo("umem") /\ Acquire("mmap")
        /\ owns' = [owns EXCEPT !["main"] = <<"mmap">>]
     \/ Panic /\ UNCHANGED <<owns, acquired>>
  /\ UNCHANGED <<left, refs, released, forgotten>>

\* The kernel refuses a headroom that leaves nothing of a frame.
KernelTakesUmem(c) == XdpHeadroom + c.frame_headroom <= c.frame_size

\* Each frame has a clone of the Arc; the first one goes when the call returns.
CreateUmem ==
  /\ pc = "umem"
  /\ \/ /\ KernelTakesUmem(umem_config)
        /\ GoTo("socket") /\ Acquire("umem")
        /\ owns' = [owns EXCEPT !["main"] = <<"frames", "comp_q", "fill_q", "umem">>]
        /\ left' = [left EXCEPT !["frames"] = umem_config.frame_count]
        /\ refs' = [refs EXCEPT !["mmap"] = umem_config.frame_count]
     \/ Panic /\ UNCHANGED <<owns, left, refs, acquired>>
  /\ UNCHANGED <<released, forgotten>>

\* Socket::new fails before there is a socket.
SocketFails ==
  /\ pc = "socket"
  /\ Panic
  /\ UNCHANGED <<owns, heapVars>>

\* xsk_socket__fd fails: the socket is deleted at once.
SocketNoFd ==
  /\ pc = "socket"
  /\ Acquire("socket") /\ Release("socket")
  /\ Panic
  /\ UNCHANGED <<owns, left, refs, forgotten>>

SocketNew ==
  /\ pc = "socket"
  /\ Acquire("socket")
  /\ refs' = [refs EXCEPT !["socket"] = 2]
  /\ owns' = [owns EXCEPT !["main"] = <<"rx_q", "tx_q">> \o @]
  /\ GoTo("split")
  /\ UNCHANGED <<left, released, forgotten>>

\* frames[..n_tx_frames] and frames[n_tx_frames..] are cloned.
SplitPanics_OffByOne(c, a) == a.n_tx_frames > c.frame_count + 1     \* mutant
SplitPanics(c, a) == a.n_tx_frames > c.frame_count
Split ==
  /\ pc = "split"
  /\ IF SplitPanics(umem_config, args)
     THEN Panic /\ UNCHANGED <<owns, left, refs>>
     ELSE /\ GoTo("assemble")
          /\ left' = [left EXCEPT !["tx_frames"] = args.n_tx_frames,
                        !["rx_frames"] = umem_config.frame_count - args.n_tx_frames]
          /\ refs' = [refs EXCEPT !["mmap"] = @ + umem_config.frame_count]
          /\ owns' = [owns EXCEPT !["main"] = <<"rx_frames", "tx_frames">> \o @]
  /\ UNCHANGED <<acquired, released, forgotten>>

\* The fields in the order of their declaration, which is that of their drop.
XskFields_UmemFirst == <<"umem", "fill_q", "comp_q", "tx_q", "rx_q",
                         "tx_frames", "rx_frames">>                 \* mutant
XskFields == <<"fill_q", "comp_q", "tx_q", "rx_q",
               "tx_frames", "rx_frames", "umem">>
TxFields  == <<"tx_q", "comp_q", "tx_frames">>
RxFields_FramesFirst == <<"fill_q", "rx_frames", "rx_q">>           \* mutant
RxFields  == <<"fill_q", "rx_q", "rx_frames">>

\* What remains of the locals is dropped when new returns.
AssembleXsk ==
  /\ pc = "assemble" /\ args.api = "Xsk"
  /\ owns' = [owns EXCEPT !["xsk"] = XskFields, !["main"] = <<"frames">>]
  /\ pc' = "returned" /\ dropping' = {"main"}
  /\ UNCHANGED <<configVars, heapVars>>

\* XskRx::new looks at its first frame; if there is none its arguments are
\* dropped, and then tx and the locals of Xsk2::new.
AssembleXsk2 ==
  /\ pc = "assemble" /\ args.api = "Xsk2"
  /\ forgotten' = TRUE
  /\ IF left["rx_frames"] = 0
     THEN /\ Panic
          /\ owns' = [owns EXCEPT !["main"] =
                        <<"rx_frames", "fill_q", "rx_q">> \o TxFields \o <<"frames">>]
     ELSE /\ owns' = [owns EXCEPT !["tx"] = TxFields, !["rx"] = RxFields,
                                  !["main"] = <<"frames">>]
          /\ pc' = "returned" /\ dropping' = {"main"}
          /\ UNCHANGED configVars
  /\ UNCHANGED <<left, refs, acquired, released>>

-----------------------------------------------------------------------------
(* Destruction: each owner drops its values one by one.  The decrement of  *)
(* an Arc and the destruction by the one that reached zero are two steps.  *)

StartDrop(o) ==
  /\ pc = "returned" /\ owns["main"] = <<>>
  /\ o \notin dropping /\ owns[o] # <<>>
  /\ dropping' = dropping \cup {o}
  /\ UNCHANGED <<configVars, pc, owns, heapVars>>

NextToDrop(o, S) == o \in dropping /\ owns[o] # <<>> /\ Head(owns[o]) \in S
Replace(o, s) == owns' = [owns EXCEPT ![o] = s \o Tail(@)]
InDrop == UNCHANGED <<configVars, pc, dropping, acquired, forgotten>>

\* The last holder of an Arc destroys what it points to.
Last_TooEarly(r) == IF refs[r] <= 2 THEN <<r>> ELSE <<>>            \* mutant
Last(r) == IF refs[r] = 1 THEN <<r>> ELSE <<>>
Decrement(r) == refs' = [refs EXCEPT ![r] = @ - 1]

DropRing(o) ==
  /\ NextToDrop(o, {"fill_q", "comp_q"})
  /\ Replace(o, <<>>)
  /\ InDrop /\ UNCHANGED <<left, refs, released>>

DropQueue(o) ==
  /\ NextToDrop(o, {"tx_q", "rx_q"})
  /\ Decrement("socket") /\ Replace(o, Last("socket"))
  /\ InDrop /\ UNCHANGED <<left, released>>

DropFrame(o) ==
  /\ NextToDrop(o, Vectors)
  /\ LET v == Head(owns[o]) IN
       IF left[v] = 0
       THEN Replace(o, <<>>) /\ UNCHANGED <<left, refs>>
       ELSE /\ left' = [left EXCEPT ![v] = @ - 1]
            /\ Decrement("mmap") /\ Replace(o, Last("mmap") \o <<v>>)
  /\ InDrop /\ UNCHANGED released

DropMmap(o) ==
  /\ NextToDrop(o, {"mmap"})
  /\ Release("mmap") /\ Replace(o, <<>>)
  /\ InDrop /\ UNCHANGED <<left, refs>>

DropSocket(o) ==
  /\ NextToDrop(o, {"socket"})
  /\ Release("socket") /\ Replace(o, <<>>)
  /\ InDrop /\ UNCHANGED <<left, refs>>

\* xsk_umem__delete refuses while a socket uses the UMEM; the error is logged.
DropUmem(o) ==
  /\ NextToDrop(o, {"umem"})
  /\ IF Live("socket") THEN UNCHANGED released ELSE Release("umem")
  /\ Replace(o, <<>>)
  /\ InDrop /\ UNCHANGED <<left, refs>>

Terminated == pc \in {"err", "panic", "returned"} /\ \A o \in Owners : owns[o] = <<>>
Stopped == Terminated /\ UNCHANGED vars

Drops(o) == \/ DropRing(o) \/ DropQueue(o) \/ DropFrame(o)
            \/ DropMmap(o) \/ DropSocket(o) \/ DropUmem(o)

Next ==
  \/ BuildUmemConfig \/ BuildSocketConfig \/ New
  \/ CreateMmap \/ CreateUmem
  \/ SocketFails \/ SocketNoFd \/ SocketNew
  \/ Split \/ AssembleXsk \/ AssembleXsk2
  \/ \E o \in {"xsk", "tx", "rx"} : StartDrop(o)
  \/ \E o \in Owners : Drops(o)
  \/ Stopped

Spec == Init /\ [][Next]_vars

-----------------------------------------------------------------------------
(* Properties.                                                             *)

\* The types: no vector and no strong count goes below zero, and each
\* resource is acquired at most once.
LifecycleTypeOK ==
  /\ pc \in {"umem_config", "socket_config", "new", "mmap", "umem", "socket",
             "split", "assemble", "returned", "err", "panic"}
  /\ owns \in [Owners -> Seq(Resources \cup Vectors \cup
                             {"fill_q", "comp_q", "tx_q", "rx_q"})]
  /\ dropping \subseteq Owners
  /\ left \in [Vectors -> Nat] /\ refs \in [{"mmap", "socket"} -> Nat]
  /\ acquired \in [Resources -> 0 .. 1] /\ released \in [Resources -> Nat]
  /\ forgotten \in BOOLEAN

Has(o, values) == \E i \in 1 .. Len(owns[o]) : owns[o][i] \in values

\* Whoever can still use a queue or a frame (of a half or of an Xsk that is
\* not being dropped) finds behind it what it refers to, whatever the other
\* half and its thread do: a queue its socket, the fill and the completion
\* ring the UMEM they were mapped with, a frame its memory.
HandlesValid ==
  \A o \in Owners \ dropping :
    /\ Has(o, {"tx_q", "rx_q"}) => Live("socket")
    /\ Has(o, {"fill_q", "comp_q", "umem"}) => Live("umem")
    /\ \A v \in Vectors : Has(o, {v}) /\ left[v] > 0 => Live("mmap")

\* When new failed, at whatever step, or when all it built is dropped, each
\* resource was released as often as it was acquired.  The exception is the
\* UMEM of an Xsk2, which is forgotten on purpose: it stays registered.
ReleasedOnce ==
  Terminated => \A r \in Resources :
    released[r] = IF r = "umem" /\ forgotten THEN 0 ELSE acquired[r]

\* The memory is unmapped only after the socket that receives into it is
\* gone, even if two threads drop the halves of an Xsk2 at the same time.
\* Both halves must have frames: an empty tx half keeps the socket, not the
\* memory.
MemoryOutlivesSocket ==
  args.api = "Xsk" \/ args.n_tx_frames > 0 => (Live("socket") => Live("mmap"))

\* A socket that was built has rings whose sizes are powers of two (what the
\* index masks of the rings need) and a batch no larger than the tx ring (what
\* put_batch_on_tx_queue needs to return), if the batch size fits 32 bits.
AcceptedSizesWork ==
  pc = "returned" =>
    /\ \A n \in {umem_config.fill_queue_size, umem_config.comp_queue_size,
                 socket_config.rx_queue_size, socket_config.tx_queue_size} :
         \E k \in 0 .. U32 : n = 2 ^ k
    /\ args.api = "Xsk2" /\ args.tx_batch_size < U32 =>
         args.tx_batch_size <= socket_config.tx_queue_size

\* The frames of a UMEM do not overlap and lie within it, and a packet of
\* mtu bytes behind both headrooms does not reach the next frame.
FramesTile ==
  Live("umem") =>
    LET c == umem_config
        end(i) == Addr(c, i) + XdpHeadroom + c.frame_headroom + Mtu(c)
    IN /\ Mtu(c) >= 0
       /\ \A i \in 0 .. c.frame_count - 1 :
            /\ end(i) <= UmemLen(c)
            /\ \A j \in 0 .. i - 1 : end(j) <= Addr(c, i)
=============================================================================
