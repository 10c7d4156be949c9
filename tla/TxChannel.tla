----------------------------- MODULE TxChannel -----------------------------
(***************************************************************************)
(* What XskTx promises its caller: a channel that transmits the packets it *)
(* accepted, each once, unchanged and in the order of acceptance, and a    *)
(* drain that returns only when all of them have been transmitted.         *)
(* Packets are numbered 1, 2, ... in the order of acceptance.              *)
(***************************************************************************)
EXTENDS Naturals, Sequences

VARIABLES accepted,   \* how many packets have been accepted
          draining,   \* a call of drain has not returned
          wire        \* the packets transmitted so far

vars == <<accepted, draining, wire>>

Init == accepted = 0 /\ draining = FALSE /\ wire = <<>>

Accept ==
  /\ ~draining
  /\ accepted' = accepted + 1
  /\ UNCHANGED <<draining, wire>>

Transmit ==
  /\ Len(wire) < accepted
  /\ wire' = Append(wire, Len(wire) + 1)
  /\ UNCHANGED <<accepted, draining>>

BeginDrain == ~draining /\ draining' = TRUE /\ UNCHANGED <<accepted, wire>>

EndDrain ==
  /\ draining /\ Len(wire) = accepted
  /\ draining' = FALSE
  /\ UNCHANGED <<accepted, wire>>

Next == Accept \/ Transmit \/ BeginDrain \/ EndDrain

Spec == Init /\ [][Next]_vars
=============================================================================
