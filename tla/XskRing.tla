------------------------------ MODULE XskRing ------------------------------
(***************************************************************************)
(* One single-producer single-consumer ring shared by the user thread and  *)
(* the kernel, as the crate drives it through libbpf:                      *)
(*   producer: FillQueue::produce, TxQueue::produce                        *)
(*             (_xsk_ring_prod__reserve, slot writes, _submit)             *)
(*   consumer: RxQueue::consume, CompQueue::consume                        *)
(*             (_xsk_ring_cons__peek, slot reads, _release)                *)
(* On a given ring one of the two sides is the kernel, which follows the   *)
(* same protocol.  Every access to shared memory is a step of its own; the *)
(* indices are unsigned words that wrap, and each side works with cached   *)
(* copies of the other side's index.                                       *)
(***************************************************************************)
EXTENDS Integers, Sequences

CONSTANTS
  Size,            \* entries of the ring
  IndexMod,        \* 2^32 in the code: the indices wrap here
  Desc,            \* descriptors
  MaxBatch,        \* bound: the longest slice passed to produce
  Requests,        \* the n_recv / n_frames passed to consume
  Rooms,           \* the lengths of the slices passed to consume
  OverflowChecks   \* u32 additions panic on overflow (debug builds)

ASSUME RingConstants ==
  /\ Size \in Nat \ {0}
  /\ IndexMod \in Nat /\ IndexMod > Size /\ IndexMod % Size = 0
  /\ MaxBatch \in Nat
  /\ Requests \subseteq Nat /\ Rooms \subseteq Nat
  /\ OverflowChecks \in BOOLEAN

VARIABLES
  producer, consumer,   \* the shared indices
  ring,                 \* the shared slots
  prod,                 \* the producing side
  cons,                 \* the consuming side
  got,                  \* the entries written to the slice by the last consume
  ret                   \* what it returned

vars == <<producer, consumer, ring, prod, cons, got, ret>>

Slots   == 0 .. Size - 1
Indices == 0 .. IndexMod - 1
Batches == UNION {[1 .. n -> Desc] : n \in 1 .. MaxBatch}

Add_NoWrap(i, n) == i + n                       \* mutant
Add(i, n) == (i + n) % IndexMod
Sub(i, j) == (i - j) % IndexMod
Slot(i)   == i % Size

\* The user thread panics on `idx + n` in a build with overflow checks.
Overflows(idx, n) == OverflowChecks /\ idx + n >= IndexMod

Init ==
  /\ producer = 0 /\ consumer = 0
  /\ ring \in [Slots -> Desc]
  /\ prod = [pc |-> "idle", cached_prod |-> 0, cached_cons |-> Size,
             idx |-> 0, descs |-> <<>>, done |-> 0]
  /\ cons = [pc |-> "idle", cached_prod |-> 0, cached_cons |-> 0,
             idx |-> 0, cnt |-> 0, room |-> 0, kind |-> "rx", out |-> <<>>]
  /\ got = <<>> /\ ret = 0

-----------------------------------------------------------------------------
(* produce(descs).  An empty slice returns 0 at once.                      *)

\* xsk_prod_nb_free: the consumer's index is read again only if the cached
\* copy does not show enough room.
CachedCons_Stale(nb) == prod.cached_cons        \* mutant: never read again
CachedCons_OneMore(nb) == Add(consumer, Size + 1)   \* mutant
CachedCons(nb) ==
  IF Sub(prod.cached_cons, prod.cached_prod) >= nb
  THEN prod.cached_cons ELSE Add(consumer, Size)

NbFree(nb) == Sub(CachedCons(nb), prod.cached_prod)

Reserve(descs) ==
  /\ prod.pc = "idle"
  /\ NbFree(Len(descs)) >= Len(descs)
  /\ prod' = [prod EXCEPT !.pc = "write", !.cached_cons = CachedCons(Len(descs)),
                          !.idx = prod.cached_prod,
                          !.cached_prod = Add(@, Len(descs)),
                          !.descs = descs, !.done = 0]
  /\ UNCHANGED <<producer, consumer, ring, cons, got, ret>>

\* Not enough room: produce returns 0.
ReserveNone(descs) ==
  /\ prod.pc = "idle"
  /\ NbFree(Len(descs)) < Len(descs)
  /\ prod' = [prod EXCEPT !.cached_cons = CachedCons(Len(descs))]
  /\ UNCHANGED <<producer, consumer, ring, cons, got, ret>>

WriteSlot_Same == Slot(prod.idx)                \* mutant: idx not advanced
WriteSlot == Slot(Add(prod.idx, prod.done))

WriteDesc ==
  /\ prod.pc = "write" /\ prod.done < Len(prod.descs)
  /\ ring' = [ring EXCEPT ![WriteSlot] = prod.descs[prod.done + 1]]
  /\ prod' = [prod EXCEPT !.done = @ + 1,
                          !.pc = IF Overflows(prod.idx, prod.done + 1) THEN "panic" ELSE @]
  /\ UNCHANGED <<producer, consumer, cons, got, ret>>

Submit ==
  /\ prod.pc = "write" /\ prod.done = Len(prod.descs)
  /\ producer' = Add(producer, prod.done)
  /\ prod' = [prod EXCEPT !.pc = "idle"]
  /\ UNCHANGED <<consumer, ring, cons, got, ret>>

-----------------------------------------------------------------------------
(* consume(n, descs) with descs.len() = room.                              *)

\* xsk_cons_nb_avail: the producer's index is read again only if the cached
\* copy shows no entry at all.
CachedProd ==
  IF cons.cached_prod = cons.cached_cons THEN producer ELSE cons.cached_prod

NbAvail(n) ==
  LET entries == Sub(CachedProd, cons.cached_cons)
  IN  IF entries < n THEN entries ELSE n

\* RxQueue::consume returns 0 for n = 0 without looking at the ring.
Peek(kind, n, room) ==
  /\ cons.pc = "idle" /\ ~(kind = "rx" /\ n = 0)
  /\ NbAvail(n) > 0
  /\ cons' = [cons EXCEPT !.pc = "read", !.cached_prod = CachedProd,
                          !.idx = cons.cached_cons,
                          !.cached_cons = Add(@, NbAvail(n)),
                          !.cnt = NbAvail(n), !.room = room, !.kind = kind, !.out = <<>>]
  /\ UNCHANGED <<producer, consumer, ring, prod, got, ret>>

PeekNone(kind, n) ==
  /\ cons.pc = "idle" /\ ~(kind = "rx" /\ n = 0)
  /\ NbAvail(n) = 0
  /\ cons' = [cons EXCEPT !.cached_prod = CachedProd]
  /\ UNCHANGED <<producer, consumer, ring, prod, got, ret>>

ReadNext ==
  [cons EXCEPT !.out = Append(@, ring[Slot(Add(cons.idx, Len(cons.out)))])]

\* RxQueue: descs.iter_mut().take(cnt) stops at the end of the slice.
RxMore_OneLess == Len(cons.out) + 1 < cons.cnt /\ Len(cons.out) < cons.room  \* mutant
RxMore == Len(cons.out) < cons.cnt /\ Len(cons.out) < cons.room

ReadRxDesc ==
  /\ cons.pc = "read" /\ cons.kind = "rx" /\ RxMore
  /\ cons' = IF Overflows(cons.idx, Len(cons.out) + 1)
             THEN [ReadNext EXCEPT !.pc = "panic"] ELSE ReadNext
  /\ UNCHANGED <<producer, consumer, ring, prod, got, ret>>

\* CompQueue: free_frames[i] panics beyond the end of the slice.
ReadCompAddr ==
  /\ cons.pc = "read" /\ cons.kind = "comp" /\ Len(cons.out) < cons.cnt
  /\ cons' = IF Overflows(cons.idx, Len(cons.out)) \/ Len(cons.out) >= cons.room
             THEN [cons EXCEPT !.pc = "panic"] ELSE ReadNext
  /\ UNCHANGED <<producer, consumer, ring, prod, got, ret>>

Release ==
  /\ cons.pc = "read"
  /\ IF cons.kind = "rx" THEN ~RxMore ELSE Len(cons.out) = cons.cnt
  /\ consumer' = Add(consumer, cons.cnt)
  /\ cons' = [cons EXCEPT !.pc = "idle"]
  /\ got' = cons.out /\ ret' = cons.cnt
  /\ UNCHANGED <<producer, ring, prod>>

-----------------------------------------------------------------------------
Next ==
  \/ \E descs \in Batches : Reserve(descs) \/ ReserveNone(descs)
  \/ WriteDesc \/ Submit
  \/ \E kind \in {"rx", "comp"}, n \in Requests :
       PeekNone(kind, n) \/ (\E room \in Rooms : Peek(kind, n, room))
  \/ ReadRxDesc \/ ReadCompAddr \/ Release

Spec == Init /\ [][Next]_vars

-----------------------------------------------------------------------------
(* Properties                                                              *)

RingTypeOK ==
  /\ producer \in Indices /\ consumer \in Indices
  /\ ring \in [Slots -> Desc]
  /\ prod.pc \in {"idle", "write", "panic"}
  /\ {prod.cached_prod, prod.cached_cons, prod.idx} \subseteq Indices
  /\ cons.pc \in {"idle", "read", "panic"}
  /\ {cons.cached_prod, cons.cached_cons, cons.idx} \subseteq Indices
  /\ Len(cons.out) <= cons.cnt
  /\ got \in Seq(Desc) /\ ret \in Nat

\* The entries published and not yet released, oldest first.
Entries ==
  [i \in 1 .. Sub(producer, consumer) |-> ring[Slot(Add(consumer, i - 1))]]

Inside(i, from, n) == Sub(i, from) < n

\* The slot produce is about to write never holds an entry that is still on
\* the ring: the reserved range and the published range do not overlap, even
\* with stale cached indices and across the wrap of the indices.
WritesOnlyFreeSlots ==
  prod.pc = "write" /\ prod.done < Len(prod.descs) =>
    \A i \in Indices :
      Inside(i, consumer, Sub(producer, consumer))
        => Slot(i) # Slot(Add(prod.idx, prod.done))

\* The batch of a produce that has its slots and has not returned.
Offered == IF prod.pc = "idle" THEN <<>> ELSE prod.descs

\* The ring is a bounded FIFO queue: the descriptors given to a produce that
\* gets its slots come out of consume once each, unchanged and in order,
\* behind those of the calls before; all of them become visible at once, and
\* nothing that was not given to produce ever does.
Queue == INSTANCE BoundedQueue WITH q <- Entries, offered <- Offered
QueueSpec == Queue!Spec

\* produce returns 0 only if the batch does not fit at that moment, and
\* consume of at least one entry returns 0 only if the ring is empty then:
\* a stale cached index never causes either.
RefusalsAreHonest ==
  /\ prod.pc = "idle" =>
       \A nb \in 1 .. MaxBatch : NbFree(nb) < nb => Len(Entries) + nb > Size
  /\ cons.pc = "idle" =>
       \A n \in Requests \ {0} : NbAvail(n) = 0 => Entries = <<>>

\* consume "Returns the number of elements of `descs` which have been
\* updated".
ReturnsNumberUpdated == ret = Len(got)

\* A produce that has its slots returns the length of `descs`: "this should
\* always be the length of `descs` or `0`".
ProduceReturns == prod.pc # "panic"
=============================================================================
