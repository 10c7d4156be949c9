---------------------------- MODULE BoundedQueue ----------------------------
(***************************************************************************)
(* What a ring between the user thread and the kernel promises: a bounded  *)
(* FIFO queue with batched operations.  `offered` is the batch of a        *)
(* produce that has its slots and has not returned, <<>> if there is none; *)
(* `got` is the batch the last consume gave its caller.                    *)
(***************************************************************************)
EXTENDS Naturals, Sequences

CONSTANTS Size, Desc

VARIABLES q, offered, got

vars == <<q, offered, got>>

Init == q = <<>> /\ offered = <<>> /\ got = <<>>

\* A batch that fits is taken on.
Offer ==
  /\ offered = <<>>
  /\ \E n \in 1 .. Size - Len(q) : offered' \in [1 .. n -> Desc]
  /\ UNCHANGED <<q, got>>

\* All of that batch is added, behind what is there, and nothing else.
Put ==
  /\ offered # <<>>
  /\ q' = q \o offered /\ offered' = <<>>
  /\ UNCHANGED got

\* Some of the oldest entries, in order.
Take ==
  /\ \E n \in 1 .. Len(q) :
       /\ got' = SubSeq(q, 1, n)
       /\ q' = SubSeq(q, n + 1, Len(q))
  /\ UNCHANGED offered

Next == Offer \/ Put \/ Take

Spec == Init /\ [][Next]_vars
=============================================================================
