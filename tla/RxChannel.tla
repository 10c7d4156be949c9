----------------------------- MODULE RxChannel -----------------------------
(***************************************************************************)
(* What XskRx promises its caller: of the packets that arrive some are     *)
(* lost; the others wait and are delivered unchanged and once.  A call     *)
(* delivers some of the waiting packets in the order of their arrival; on  *)
(* a FIFO channel no waiting packet is passed over.                        *)
(* Packets are numbered 1, 2, ... in the order of arrival.                 *)
(***************************************************************************)
EXTENDS Naturals, Sequences

VARIABLES fifo,       \* whether no waiting packet is ever passed over
          arrived,    \* how many packets have arrived
          waiting,    \* the set of those that were not lost and not delivered yet
          delivered   \* what the caller got so far

vars == <<fifo, arrived, waiting, delivered>>

Init == fifo \in BOOLEAN /\ arrived = 0 /\ waiting = {} /\ delivered = <<>>

Arrive ==
  /\ arrived' = arrived + 1
  /\ waiting' = waiting \cup {arrived + 1}
  /\ UNCHANGED <<fifo, delivered>>

Lose == arrived' = arrived + 1 /\ UNCHANGED <<fifo, waiting, delivered>>

\* n of the packets of the set S, in the order of arrival.
Batches(S, n) == {s \in [1 .. n -> S] : \A i, j \in 1 .. n : i < j => s[i] < s[j]}

Packets(s) == {s[i] : i \in DOMAIN s}

Deliver ==
  \E n \in 1 .. arrived : \E s \in Batches(waiting, n) :
    /\ delivered' = delivered \o s
    /\ waiting' = waiting \ Packets(s)
    /\ fifo => \A p \in Packets(s), q \in waiting' : p < q
    /\ UNCHANGED <<fifo, arrived>>

Next == Arrive \/ Lose \/ Deliver

Spec == Init /\ [][Next]_vars
=============================================================================
