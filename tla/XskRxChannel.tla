---------------------------- MODULE XskRxChannel ----------------------------
(***************************************************************************)
(* XskRx implements RxChannel, what the callers of recv and recv_apply     *)
(* rely on.                                                                *)
(***************************************************************************)
EXTENDS XskRx

\* Packets that recv has taken from the ring but not delivered yet, and those
\* still on the ring.
Kept == {f \in Frames : status[f] = "Filled"} \ (Range(processed) \cup Range(KernelSide))
Undelivered == {umem[f] : f \in Kept} \cup {rxq[i].len : i \in DOMAIN rxq}

\* XskRx implements the channel: every packet is lost on arrival or kept until
\* it is delivered, once, with the data that arrived; and a caller that sticks
\* to one operation gets the packets in order, none passed over.
Channel == INSTANCE RxChannel WITH
             fifo <- Fifo, waiting <- Undelivered,
             delivered <- [i \in DOMAIN delivered |-> delivered[i].data]
RxChannelSpec == Channel!Spec
=============================================================================
