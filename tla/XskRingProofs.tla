--------------------------- MODULE XskRingProofs ---------------------------
(***************************************************************************)
(* Theorems about XskRing, for every size of the ring, every width of the  *)
(* indices, every batch and both kinds of build; and, in the last section, *)
(* about Synacker, for all packets and options.                            *)
(***************************************************************************)
EXTENDS XskRing, Synacker, SequenceTheorems, TLAPS

\* A leaf that names no prover is tried with SMT, with Zenon, and with SMT
\* again, given more time.
USE SMT, Zenon, SMTT(30), SMTT(40)

-----------------------------------------------------------------------------
(* Index arithmetic                                                        *)

\* An index that wraps wraps once: u32 additions of the ring without %.
LEMMA AddValue ==
  ASSUME NEW i \in Indices, NEW n \in Indices
  PROVE  Add(i, n) = IF i + n < IndexMod THEN i + n ELSE i + n - IndexMod
<1> DEFINE M == IndexMod
<1>1. M \in Nat \ {0} /\ i \in 0 .. M - 1 /\ n \in 0 .. M - 1
  BY RingConstants DEF Indices
<1>2. CASE i + n < M
  BY <1>1, <1>2 DEF Add
<1>3. CASE i + n >= M
  BY <1>1, <1>3 DEF Add
<1> QED BY <1>1, <1>2, <1>3

\* The wrapping difference of two indices, without the modulus.
LEMMA SubValue ==
  ASSUME NEW i \in Indices, NEW j \in Indices
  PROVE  Sub(i, j) = IF i >= j THEN i - j ELSE i - j + IndexMod
<1> DEFINE M == IndexMod
<1>1. M \in Nat \ {0} /\ i \in 0 .. M - 1 /\ j \in 0 .. M - 1
  BY RingConstants DEF Indices
<1>2. CASE i >= j
  BY <1>1, <1>2 DEF Sub
<1>3. CASE i < j
  BY <1>1, <1>3 DEF Sub
<1> QED BY <1>1, <1>2, <1>3

\* Two indices less than Size apart have different slots, even if the indices
\* wrap between them: Size divides IndexMod.
LEMMA SlotsDiffer ==
  ASSUME NEW i \in Indices, NEW j \in Indices, Sub(i, j) \in 1 .. Size - 1
  PROVE  Slot(i) # Slot(j)
<1> DEFINE a == i \div Size
           b == j \div Size
           k == IndexMod \div Size
<1>1. Size \in Nat \ {0} /\ IndexMod \in Nat /\ i \in Nat /\ j \in Nat
  BY RingConstants DEF Indices
<1>2. /\ a \in Int /\ b \in Int /\ k \in Int /\ Slot(i) \in Int /\ Slot(j) \in Int
      /\ i = Size * a + Slot(i) /\ j = Size * b + Slot(j) /\ IndexMod = Size * k
  BY <1>1, RingConstants DEF Slot
<1> HIDE DEF a, b, k
<1> SUFFICES ASSUME Slot(i) = Slot(j) PROVE FALSE
  OBVIOUS
<1>3. i - j = Size * (a - b) /\ i - j + IndexMod = Size * (a - b + k)
  <2> DEFINE x == Size * a
             y == Size * b
             z == Size * k
             s == Slot(i)
  <2>1. x \in Int /\ y \in Int /\ z \in Int /\ Size * (a - b) = x - y
        /\ Size * (a - b + k) = x - y + z
    BY <1>1, <1>2
  <2>2. i = x + s /\ j = y + s /\ IndexMod = z /\ s \in Int
    BY <1>2
  <2> HIDE DEF x, y, z, s
  <2> QED BY <2>1, <2>2
<1>4. \A m \in Int : Size * m \notin 1 .. Size - 1
  BY <1>1
<1>5. CASE i >= j
  BY <1>2, <1>3, <1>4, <1>5, SubValue
<1>6. CASE i < j
  BY <1>1, <1>2, <1>3, <1>4, <1>6, SubValue
<1> QED BY <1>1, <1>5, <1>6

\* Sums and differences of indices are indices.
LEMMA IndexRange ==
  ASSUME NEW i \in Indices
  PROVE  /\ \A n \in Nat : Add(i, n) \in Indices
         /\ \A j \in Indices : Sub(i, j) \in Indices
         /\ i \in Nat /\ Slot(i) \in Slots
         /\ Add(i, 0) = i
<1>1. IndexMod \in Nat \ {0} /\ Size \in Nat \ {0}
  BY RingConstants
<1>2. i \in Nat /\ i < IndexMod /\ Slot(i) \in Slots
  BY <1>1 DEF Indices, Slots, Slot
<1>3. Add(i, 0) = i
  BY <1>1, <1>2 DEF Add
<1>4. ASSUME NEW n \in Nat PROVE Add(i, n) \in Indices
  BY <1>1, <1>2 DEF Add, Indices
<1>5. ASSUME NEW j \in Indices PROVE Sub(i, j) \in Indices
  BY <1>1, <1>2 DEF Sub, Indices
<1> QED BY <1>2, <1>3, <1>4, <1>5

\* Distances add up as long as they do not go round.
LEMMA SubAdvance ==
  ASSUME NEW i \in Indices, NEW j \in Indices, NEW n \in Nat,
         Sub(i, j) + n < IndexMod
  PROVE  Sub(Add(i, n), j) = Sub(i, j) + n /\ Add(j, Sub(i, j) + n) = Add(i, n)
<1>1. IndexMod \in Nat /\ i \in Nat /\ j \in Nat /\ i < IndexMod /\ j < IndexMod
  BY RingConstants DEF Indices
<1>2. Sub(i, j) \in Indices /\ Sub(i, j) \in Nat /\ n \in Indices /\ Add(i, n) \in Indices
      /\ Sub(i, j) + n \in Indices
  BY <1>1, IndexRange DEF Indices
<1>3. Sub(i, j) = IF i >= j THEN i - j ELSE i - j + IndexMod
  BY SubValue
<1>4. Add(i, n) = IF i + n < IndexMod THEN i + n ELSE i + n - IndexMod
  BY <1>2, AddValue
<1>5. Sub(Add(i, n), j) = IF Add(i, n) >= j THEN Add(i, n) - j ELSE Add(i, n) - j + IndexMod
  BY <1>2, SubValue, ZenonT(30)
<1>6. Add(j, Sub(i, j) + n) = IF j + (Sub(i, j) + n) < IndexMod THEN j + (Sub(i, j) + n)
                              ELSE j + (Sub(i, j) + n) - IndexMod
  BY <1>2, AddValue
<1> QED BY <1>1, <1>3, <1>4, <1>5, <1>6

\* Moving the second index forward by n shortens the distance by n.
LEMMA SubRetreat ==
  ASSUME NEW i \in Indices, NEW j \in Indices, NEW n \in Nat, n <= Sub(i, j)
  PROVE  Sub(i, Add(j, n)) = Sub(i, j) - n
<1>1. IndexMod \in Nat /\ i \in Nat /\ j \in Nat /\ i < IndexMod /\ j < IndexMod
  BY RingConstants DEF Indices
<1>2. Sub(i, j) \in Nat /\ n \in Indices /\ Add(j, n) \in Indices
  BY <1>1, IndexRange DEF Indices
<1>3. Sub(i, j) = IF i >= j THEN i - j ELSE i - j + IndexMod
  BY SubValue
<1>4. Add(j, n) = IF j + n < IndexMod THEN j + n ELSE j + n - IndexMod
  BY <1>2, AddValue
<1>5. Sub(i, Add(j, n)) = IF i >= Add(j, n) THEN i - Add(j, n) ELSE i - Add(j, n) + IndexMod
  BY <1>2, SubValue, ZenonT(30)
<1> QED BY <1>1, <1>3, <1>4, <1>5

\* Two advances are one.
LEMMA AddAdd ==
  ASSUME NEW i \in Indices, NEW a \in Nat, NEW b \in Nat, a + b < IndexMod
  PROVE  Add(Add(i, a), b) = Add(i, a + b)
<1>1. /\ IndexMod \in Nat /\ i \in Nat /\ i < IndexMod
      /\ a \in Indices /\ b \in Indices /\ a + b \in Indices
  BY RingConstants DEF Indices
<1>2. Add(i, a) \in Indices
  BY IndexRange
<1>3. Add(i, a) = IF i + a < IndexMod THEN i + a ELSE i + a - IndexMod
  BY <1>1, AddValue
<1>4. Add(i, a + b) = IF i + (a + b) < IndexMod THEN i + (a + b) ELSE i + (a + b) - IndexMod
  BY <1>1, AddValue
<1>5. Add(Add(i, a), b) = IF Add(i, a) + b < IndexMod THEN Add(i, a) + b
                          ELSE Add(i, a) + b - IndexMod
  BY <1>1, <1>2, AddValue
<1> QED BY <1>1, <1>3, <1>4, <1>5

\* What xsk_prod_nb_free finds after it has read the consumer's index j again.
LEMMA FreeRoom ==
  ASSUME NEW i \in Indices, NEW j \in Indices, Sub(i, j) <= Size
  PROVE  Sub(Add(j, Size), i) = Size - Sub(i, j)
<1>1. /\ IndexMod \in Nat /\ i \in Nat /\ j \in Nat /\ i < IndexMod /\ j < IndexMod
      /\ Size \in Nat /\ Size < IndexMod
  BY RingConstants DEF Indices
<1>2. Size \in Indices /\ Add(j, Size) \in Indices
  BY <1>1, IndexRange DEF Indices
<1>3. Sub(i, j) = IF i >= j THEN i - j ELSE i - j + IndexMod
  BY SubValue
<1>4. Add(j, Size) = IF j + Size < IndexMod THEN j + Size ELSE j + Size - IndexMod
  BY <1>2, AddValue
<1>5. Sub(Add(j, Size), i) = IF Add(j, Size) >= i THEN Add(j, Size) - i
                             ELSE Add(j, Size) - i + IndexMod
  BY <1>2, SubValue
<1> QED BY <1>1, <1>3, <1>4, <1>5

\* The Size slots from an index on are different slots.
LEMMA SlotsApart ==
  ASSUME NEW i \in Indices, NEW a \in Nat, NEW b \in Nat, a < b, b < Size
  PROVE  Slot(Add(i, a)) # Slot(Add(i, b))
<1>1. /\ IndexMod \in Nat /\ i \in Nat /\ i < IndexMod /\ Size \in Nat /\ Size < IndexMod
      /\ a \in Indices /\ b \in Indices
  BY RingConstants DEF Indices
<1>2. Add(i, a) \in Indices /\ Add(i, b) \in Indices
  BY IndexRange
<1>3. Add(i, a) = IF i + a < IndexMod THEN i + a ELSE i + a - IndexMod
  BY <1>1, AddValue
<1>4. Add(i, b) = IF i + b < IndexMod THEN i + b ELSE i + b - IndexMod
  BY <1>1, AddValue
<1>5. Sub(Add(i, b), Add(i, a)) = IF Add(i, b) >= Add(i, a) THEN Add(i, b) - Add(i, a)
                                  ELSE Add(i, b) - Add(i, a) + IndexMod
  BY <1>2, SubValue
<1>6. Sub(Add(i, b), Add(i, a)) \in 1 .. Size - 1
  BY <1>1, <1>3, <1>4, <1>5
<1> QED BY <1>2, <1>6, SlotsDiffer

-----------------------------------------------------------------------------
(* The inductive invariant: every index of the two sides is the consumer's *)
(* plus a distance of at most Size.                                        *)

\* Slots reserved by produce and not yet submitted.
Pending == IF prod.pc = "idle" THEN 0 ELSE Len(prod.descs)

\* Entries peeked at by consume and not yet released.
Taken == IF cons.pc = "idle" THEN 0 ELSE cons.cnt

Used == Sub(producer, consumer)

ProdStates == [pc : {"idle", "write", "panic"}, cached_prod : Indices,
               cached_cons : Indices, idx : Indices, descs : Seq(Desc), done : Nat]
ConsStates == [pc : {"idle", "read", "panic"}, cached_prod : Indices,
               cached_cons : Indices, idx : Indices, cnt : Nat, room : Nat,
               kind : {"rx", "comp"}, out : Seq(Desc)]

Typed ==
  /\ producer \in Indices /\ consumer \in Indices
  /\ ring \in [Slots -> Desc]
  /\ prod \in ProdStates /\ cons \in ConsStates
  /\ got \in Seq(Desc) /\ ret \in Nat

\* The cached copy of the consumer's index is behind it, so it shows no more
\* room than there is.
ProdDistances ==
  /\ prod.pc # "idle" => prod.idx = producer
  /\ prod.cached_prod = Add(producer, Pending)
  /\ Used + Pending + Sub(prod.cached_cons, prod.cached_prod) <= Size

\* The cached copy of the producer's index is behind it, so it shows no entry
\* that is not there.
ConsDistances ==
  /\ cons.pc # "idle" => cons.idx = consumer
  /\ cons.cached_cons = Add(consumer, Taken)
  /\ Taken + Sub(cons.cached_prod, cons.cached_cons) <= Used

\* What produce has written so far is on the slots behind the producer's
\* index, what consume has read so far on those behind the consumer's.
Written ==
  /\ prod.done <= Len(prod.descs)
  /\ prod.pc = "write" =>
       /\ Len(prod.descs) > 0
       /\ \A k \in 1 .. prod.done : ring[Slot(Add(producer, k - 1))] = prod.descs[k]
Read ==
  /\ Len(cons.out) <= cons.cnt
  /\ cons.pc = "read" =>
       /\ cons.cnt > 0
       /\ \A k \in 1 .. Len(cons.out) : cons.out[k] = ring[Slot(Add(consumer, k - 1))]

\* No caller asks consume for more entries than its slice has room for.
RoomSuffices == \A n \in Requests, room \in Rooms : n <= room

Returned ==
  RoomSuffices => /\ cons.pc # "idle" => cons.cnt <= cons.room
                  /\ ret = Len(got)

RingInv == Typed /\ ProdDistances /\ ConsDistances /\ Written /\ Read /\ Returned

\* The types of the parts.
LEMMA Fields ==
  ASSUME Typed
  PROVE  /\ producer \in Indices /\ consumer \in Indices /\ Used \in Indices
         /\ prod.pc \in {"idle", "write", "panic"} /\ prod.descs \in Seq(Desc)
         /\ prod.cached_prod \in Indices /\ prod.cached_cons \in Indices
         /\ prod.idx \in Indices /\ prod.done \in Nat
         /\ cons.pc \in {"idle", "read", "panic"} /\ cons.kind \in {"rx", "comp"}
         /\ cons.cached_prod \in Indices /\ cons.cached_cons \in Indices
         /\ cons.idx \in Indices /\ cons.cnt \in Nat /\ cons.room \in Nat
         /\ cons.out \in Seq(Desc)
         /\ Len(prod.descs) \in Nat /\ Len(cons.out) \in Nat
         /\ Pending \in Nat /\ Taken \in Nat
<1>1. producer \in Indices /\ consumer \in Indices /\ Used \in Indices
  BY IndexRange DEF Typed, Used
<1>2. /\ prod.pc \in {"idle", "write", "panic"} /\ prod.descs \in Seq(Desc)
      /\ prod.cached_prod \in Indices /\ prod.cached_cons \in Indices
      /\ prod.idx \in Indices /\ prod.done \in Nat
  BY DEF Typed, ProdStates
<1>3. /\ cons.pc \in {"idle", "read", "panic"} /\ cons.kind \in {"rx", "comp"}
      /\ cons.cached_prod \in Indices /\ cons.cached_cons \in Indices
      /\ cons.idx \in Indices /\ cons.cnt \in Nat /\ cons.room \in Nat
      /\ cons.out \in Seq(Desc)
  BY DEF Typed, ConsStates
<1>4. /\ Len(prod.descs) \in Nat /\ Len(cons.out) \in Nat
      /\ Pending \in Nat /\ Taken \in Nat
  BY <1>2, <1>3 DEF Pending, Taken
<1> QED BY <1>1, <1>2, <1>3, <1>4

\* xsk_prod_nb_free finds no more room than there is, and all of it if it is
\* too little.
LEMMA FoundRoom ==
  ASSUME Typed, ProdDistances, prod.pc = "idle", NEW nb \in Nat
  PROVE  /\ prod.cached_prod = producer /\ CachedCons(nb) \in Indices
         /\ NbFree(nb) = Sub(CachedCons(nb), producer) /\ NbFree(nb) \in Nat
         /\ Used + NbFree(nb) <= Size
         /\ NbFree(nb) < nb => Used + NbFree(nb) = Size
<1>1. /\ producer \in Indices /\ consumer \in Indices /\ Used \in Nat /\ Size \in Nat
      /\ prod.cached_cons \in Indices
  BY Fields, RingConstants DEF Indices
<1>2. prod.cached_prod = producer
  BY <1>1, IndexRange DEF ProdDistances, Pending
<1>3. Used + Sub(prod.cached_cons, producer) <= Size
  BY <1>1, <1>2 DEF ProdDistances, Pending
<1>4. /\ Sub(prod.cached_cons, producer) \in Nat
      /\ Add(consumer, Size) \in Indices
  BY <1>1, IndexRange, ZenonT(30) DEF Indices
<1>5. Used <= Size
  BY <1>1, <1>3, <1>4
<1>6. Sub(Add(consumer, Size), producer) = Size - Used
  BY <1>1, <1>5, FreeRoom DEF Used
<1>7. CASE Sub(prod.cached_cons, producer) >= nb
  <2>1. CachedCons(nb) = prod.cached_cons
    BY <1>2, <1>7 DEF CachedCons
  <2>2. NbFree(nb) = Sub(prod.cached_cons, producer)
    BY <1>2, <2>1 DEF NbFree
  <2> QED BY <1>1, <1>2, <1>3, <1>4, <1>7, <2>1, <2>2
<1>8. CASE ~(Sub(prod.cached_cons, producer) >= nb)
  <2>1. CachedCons(nb) = Add(consumer, Size)
    BY <1>2, <1>8 DEF CachedCons
  <2>2. NbFree(nb) = Size - Used
    BY <1>2, <1>6, <2>1 DEF NbFree
  <2> QED BY <1>1, <1>2, <1>4, <1>5, <1>6, <2>1, <2>2
<1> QED BY <1>7, <1>8

\* xsk_cons_nb_avail finds no entry that is not there, and at least one if
\* there is one.
LEMMA FoundEntries ==
  ASSUME Typed, ConsDistances, cons.pc = "idle"
  PROVE  /\ cons.cached_cons = consumer /\ CachedProd \in Indices
         /\ Sub(CachedProd, consumer) \in Nat
         /\ Sub(CachedProd, consumer) <= Used
         /\ Sub(CachedProd, consumer) = 0 => Used = 0
<1>1. /\ producer \in Indices /\ consumer \in Indices /\ Used \in Nat
      /\ cons.cached_prod \in Indices
  BY Fields DEF Indices
<1>2. cons.cached_cons = consumer
  BY <1>1, IndexRange DEF ConsDistances, Taken
<1>3. /\ Sub(cons.cached_prod, consumer) \in Nat
      /\ Sub(cons.cached_prod, consumer) <= Used
  <2>1. Sub(cons.cached_prod, consumer) \in Indices
    BY <1>1, IndexRange, ZenonT(30)
  <2> QED BY <1>1, <1>2, <2>1 DEF ConsDistances, Taken, Indices
<1>4. CASE cons.cached_prod = consumer
  BY <1>1, <1>2, <1>4 DEF CachedProd, Used
<1>5. CASE cons.cached_prod # consumer
  <2>1. Sub(cons.cached_prod, consumer) # 0
    <3>1. Sub(cons.cached_prod, consumer)
            = IF cons.cached_prod >= consumer THEN cons.cached_prod - consumer
              ELSE cons.cached_prod - consumer + IndexMod
      BY <1>1, SubValue
    <3>2. /\ cons.cached_prod \in Nat /\ consumer \in Nat /\ IndexMod \in Nat
          /\ consumer < IndexMod
      BY <1>1, RingConstants DEF Indices
    <3> QED BY <1>5, <3>1, <3>2
  <2> QED BY <1>1, <1>2, <1>3, <1>5, <2>1 DEF CachedProd
<1> QED BY <1>4, <1>5

-----------------------------------------------------------------------------
(* Every step keeps the invariant                                          *)

\* A batch is a nonempty sequence of descriptors.
LEMMA BatchType ==
  ASSUME NEW descs \in Batches
  PROVE  descs \in Seq(Desc) /\ Len(descs) \in 1 .. MaxBatch
<1>1. PICK n \in 1 .. MaxBatch : descs \in [1 .. n -> Desc]
  BY DEF Batches
<1>2. n \in Nat
  BY RingConstants
<1> QED BY <1>1, <1>2

\* A step of the producing side that leaves the indices, the slots and the
\* consuming side alone.
LEMMA ProdOnly ==
  ASSUME RingInv, UNCHANGED <<producer, consumer, ring, cons, got, ret>>
  PROVE  /\ ConsDistances' /\ Read' /\ Returned' /\ Used' = Used
         /\ prod' \in ProdStates => Typed'
  BY DEF RingInv, ConsDistances, Read, Returned, Used, Taken, Typed

\* A step that changes only the consumer's private fields leaves what is known
\* of the producer's side and of the entries in use alone.
LEMMA ConsOnly ==
  ASSUME RingInv, UNCHANGED <<producer, consumer, ring, prod, got, ret>>
  PROVE  /\ ProdDistances' /\ Written' /\ Used' = Used
         /\ cons' \in ConsStates => Typed'
  BY DEF RingInv, ProdDistances, Written, Used, Pending, Typed

\* _xsk_ring_prod__reserve gets its slots.
LEMMA ReserveStep ==
  ASSUME RingInv, NEW descs \in Batches, Reserve(descs)
  PROVE  RingInv'
<1> DEFINE n == Len(descs)
           cc == CachedCons(n)
<1>t. Typed /\ ProdDistances
  BY DEF RingInv
<1>1. /\ prod.pc = "idle" /\ NbFree(n) >= n
      /\ prod' = [prod EXCEPT !.pc = "write", !.cached_cons = cc,
                              !.idx = prod.cached_prod,
                              !.cached_prod = Add(prod.cached_prod, n),
                              !.descs = descs, !.done = 0]
      /\ UNCHANGED <<producer, consumer, ring, cons, got, ret>>
  BY DEF Reserve
<1>2. descs \in Seq(Desc) /\ n \in Nat /\ n > 0
  BY BatchType
<1>3. /\ prod.cached_prod = producer /\ cc \in Indices /\ Sub(cc, producer) \in Nat
      /\ Used + Sub(cc, producer) <= Size /\ n <= Sub(cc, producer)
  BY <1>t, <1>1, <1>2, FoundRoom
<1>4. producer \in Indices /\ Used \in Nat
  BY <1>t, Fields DEF Indices
<1>5. Add(producer, n) \in Indices /\ Sub(cc, Add(producer, n)) = Sub(cc, producer) - n
  BY <1>2, <1>3, <1>4, IndexRange, SubRetreat
<1> HIDE DEF n, cc
<1>6. /\ prod' \in ProdStates
      /\ prod'.pc = "write" /\ prod'.idx = producer /\ prod'.cached_prod = Add(producer, n)
      /\ prod'.cached_cons = cc /\ prod'.descs = descs /\ prod'.done = 0
  BY <1>t, <1>1, <1>2, <1>3, <1>4, <1>5, ZenonT(30) DEF Typed, ProdStates
<1>7. Pending' = n
  BY <1>6 DEF Pending, n
<1>8. ProdDistances'
  <2>1. Used' = Used /\ producer' = producer
    BY <1>1, ProdOnly
  <2>2. Used + n + Sub(cc, Add(producer, n)) <= Size
    BY <1>2, <1>3, <1>4, <1>5, RingConstants
  <2> QED BY <1>6, <1>7, <2>1, <2>2 DEF ProdDistances
<1>9. Written'
  BY <1>2, <1>6 DEF Written, n
<1> QED BY <1>1, <1>6, <1>8, <1>9, ProdOnly DEF RingInv

\* _xsk_ring_prod__reserve refuses.
LEMMA ReserveNoneStep ==
  ASSUME RingInv, NEW descs \in Batches, ReserveNone(descs)
  PROVE  RingInv'
<1> DEFINE n == Len(descs)
           cc == CachedCons(n)
<1>t. Typed /\ ProdDistances /\ Written
  BY DEF RingInv
<1>1. /\ prod.pc = "idle"
      /\ prod' = [prod EXCEPT !.cached_cons = cc]
      /\ UNCHANGED <<producer, consumer, ring, cons, got, ret>>
  BY DEF ReserveNone
<1>2. n \in Nat
  BY BatchType
<1>3. /\ prod.cached_prod = producer /\ cc \in Indices
      /\ Used + Sub(cc, producer) <= Size
  BY <1>t, <1>1, <1>2, FoundRoom
<1> HIDE DEF n, cc
<1>6. /\ prod' \in ProdStates
      /\ prod'.pc = "idle" /\ prod'.cached_prod = prod.cached_prod
      /\ prod'.cached_cons = cc /\ prod'.descs = prod.descs /\ prod'.done = prod.done
  BY <1>t, <1>1, <1>2, <1>3 DEF Typed, ProdStates
<1>7. Pending' = 0 /\ Pending = 0
  BY <1>1, <1>6 DEF Pending
<1>8. ProdDistances'
  <2>1. Used' = Used /\ producer' = producer /\ Used \in Nat
    BY <1>1, <1>t, ProdOnly, Fields DEF Indices
  <2>2. Sub(cc, producer) \in Nat
    BY <1>t, <1>3, Fields, IndexRange DEF Indices
  <2>3. Used + 0 + Sub(cc, producer) <= Size
    BY <1>3, <2>1, <2>2
  <2>4. prod'.cached_prod = Add(producer', Pending')
    BY <1>t, <1>6, <1>7, <2>1 DEF ProdDistances
  <2> QED BY <1>3, <1>6, <1>7, <2>1, <2>3, <2>4 DEF ProdDistances
<1>9. Written'
  BY <1>t, <1>1, <1>6 DEF Written
<1> QED BY <1>1, <1>6, <1>8, <1>9, ProdOnly DEF RingInv

\* The slot produce writes next is none of those between the consumer's and
\* the producer's index.
LEMMA FreshSlot ==
  ASSUME Typed, ProdDistances, prod.pc = "write", prod.done < Len(prod.descs)
  PROVE  /\ prod.idx = producer /\ Used + Len(prod.descs) <= Size
         /\ \A a \in Nat : a < Used =>
              Slot(Add(consumer, a)) # Slot(Add(producer, prod.done))
<1> DEFINE d == prod.done
<1>f. /\ producer \in Indices /\ consumer \in Indices /\ Used \in Nat
      /\ Len(prod.descs) \in Nat /\ d \in Nat
      /\ Size \in Nat /\ IndexMod \in Nat /\ Size < IndexMod
      /\ Sub(prod.cached_cons, prod.cached_prod) \in Nat
  BY Fields, RingConstants, IndexRange, ZenonT(30) DEF Indices
<1>1. prod.idx = producer /\ Used + Len(prod.descs) <= Size
  BY <1>f DEF ProdDistances, Pending
<1>2. Used + d < IndexMod /\ Used + d < Size
  BY <1>f, <1>1
<1>3. Add(consumer, Used + d) = Add(producer, d)
  BY <1>f, <1>2, SubAdvance DEF Used
<1>4. ASSUME NEW a \in Nat, a < Used
      PROVE  Slot(Add(consumer, a)) # Slot(Add(consumer, Used + d))
  BY <1>f, <1>2, <1>4, SlotsApart
<1> QED BY <1>1, <1>3, <1>4

\* A slot write: it hits none of the entries on the ring, and none of those
\* the batch has written before.
LEMMA WriteDescStep ==
  ASSUME RingInv, WriteDesc
  PROVE  RingInv'
<1> DEFINE d == prod.done
           w == Slot(Add(producer, d))
<1>t. Typed /\ ProdDistances /\ ConsDistances /\ Written /\ Read /\ Returned
  BY DEF RingInv
<1>f. /\ producer \in Indices /\ consumer \in Indices /\ Used \in Nat
      /\ prod.descs \in Seq(Desc) /\ Len(prod.descs) \in Nat /\ d \in Nat
      /\ cons.cnt \in Nat /\ cons.out \in Seq(Desc) /\ Len(cons.out) \in Nat
      /\ Size \in Nat /\ IndexMod \in Nat /\ Size < IndexMod
  BY <1>t, Fields, RingConstants DEF Indices
<1>1. /\ prod.pc = "write" /\ d < Len(prod.descs) /\ prod.idx = producer
      /\ ring' = [ring EXCEPT ![w] = prod.descs[d + 1]]
      /\ prod' = [prod EXCEPT !.done = d + 1,
                     !.pc = IF Overflows(prod.idx, d + 1) THEN "panic" ELSE prod.pc]
      /\ UNCHANGED <<producer, consumer, cons, got, ret>>
  BY <1>t, ZenonT(30) DEF WriteDesc, WriteSlot, ProdDistances
<1>2. /\ Used + Len(prod.descs) <= Size
      /\ \A a \in Nat : a < Used => Slot(Add(consumer, a)) # w
  BY <1>t, <1>1, FreshSlot
<1>3. w \in Slots /\ prod.descs[d + 1] \in Desc
  <2>1. Add(producer, d) \in Indices
    BY <1>f, IndexRange, ZenonT(30)
  <2>2. w \in Slots
    BY <2>1, IndexRange
  <2>3. d + 1 \in 1 .. Len(prod.descs)
    BY <1>f, <1>1
  <2> QED BY <1>f, <2>2, <2>3, ElementOfSeq
<1>4. \A k \in 1 .. d : Slot(Add(producer, k - 1)) # w
  <2>1. ASSUME NEW a \in Nat, a < d PROVE Slot(Add(producer, a)) # Slot(Add(producer, d))
    <3>1. d < Size
      BY <1>f, <1>1, <1>2
    <3> QED BY <1>f, <2>1, <3>1, SlotsApart
  <2>2. ASSUME NEW k \in 1 .. d PROVE k - 1 \in Nat /\ k - 1 < d
    BY <1>f
  <2> QED BY <2>1, <2>2
<1> HIDE DEF d, w
<1>6. /\ prod' \in ProdStates /\ prod'.pc \in {"write", "panic"} /\ prod'.done = d + 1
      /\ prod'.idx = prod.idx /\ prod'.descs = prod.descs
      /\ prod'.cached_prod = prod.cached_prod /\ prod'.cached_cons = prod.cached_cons
  <2>1. prod'.pc \in {"write", "panic"}
    BY <1>t, <1>1 DEF Typed, ProdStates
  <2>2. d + 1 \in Nat
    BY <1>f
  <2> QED BY <1>t, <1>1, <2>1, <2>2, ZenonT(30) DEF Typed, ProdStates
<1>7. ring' \in [Slots -> Desc] /\ ring'[w] = prod.descs[d + 1]
      /\ \A x \in Slots : x # w => ring'[x] = ring[x]
  BY <1>t, <1>1, <1>3 DEF Typed
<1>8. Typed'
  BY <1>t, <1>1, <1>6, <1>7 DEF Typed
<1>9. Used' = Used /\ Pending' = Pending /\ Taken' = Taken
  BY <1>1, <1>6 DEF Used, Pending, Taken
<1>10. ProdDistances' /\ ConsDistances' /\ Returned'
  BY <1>t, <1>1, <1>6, <1>9 DEF ProdDistances, ConsDistances, Returned
<1>11. Written'
  <2>1. ASSUME NEW k \in 1 .. d + 1, prod.pc = "write"
        PROVE  ring'[Slot(Add(producer, k - 1))] = prod.descs[k]
    <3>1. CASE k = d + 1
      BY <1>f, <1>7, <3>1 DEF w, d
    <3>2. CASE k \in 1 .. d
      <4>1. k - 1 \in Nat /\ Slot(Add(producer, k - 1)) \in Slots
        BY <1>f, <3>2, IndexRange
      <4>2. ring[Slot(Add(producer, k - 1))] = prod.descs[k]
        BY <1>t, <1>1, <3>2 DEF Written, d
      <4> QED BY <1>4, <1>7, <3>2, <4>1, <4>2
    <3> QED BY <1>f, <3>1, <3>2 DEF d
  <2> QED BY <1>1, <1>6, <1>f, <2>1 DEF Written, d
<1>12. Read'
  <2>1. ASSUME cons.pc = "read", NEW k \in 1 .. Len(cons.out)
        PROVE  cons.out[k] = ring'[Slot(Add(consumer, k - 1))]
    <3>1. k - 1 \in Nat /\ k - 1 < Used
      <4>1. Taken = cons.cnt /\ Sub(cons.cached_prod, cons.cached_cons) \in Nat
        BY <1>t, <2>1, Fields, IndexRange, ZenonT(30) DEF Taken, Indices
      <4>2. cons.cnt <= Used
        BY <1>t, <1>f, <4>1 DEF ConsDistances
      <4> QED BY <1>t, <1>f, <2>1, <4>2 DEF Read
    <3>2. Slot(Add(consumer, k - 1)) \in Slots /\ Slot(Add(consumer, k - 1)) # w
      BY <1>f, <1>2, <3>1, IndexRange, ZenonT(30)
    <3> QED BY <1>t, <1>7, <2>1, <3>2 DEF Read
  <2> QED BY <1>t, <1>1, <2>1 DEF Read
<1> QED BY <1>8, <1>10, <1>11, <1>12 DEF RingInv

\* _xsk_ring_prod__submit publishes the batch.
LEMMA SubmitStep ==
  ASSUME RingInv, Submit
  PROVE  /\ RingInv' /\ Used' = Used + Len(prod.descs) /\ Used' <= Size
         /\ producer' = Add(producer, Len(prod.descs))
<1> DEFINE n == Len(prod.descs)
<1>t. Typed /\ ProdDistances /\ ConsDistances /\ Written /\ Read /\ Returned
  BY DEF RingInv
<1>f. /\ producer \in Indices /\ consumer \in Indices /\ Used \in Nat /\ n \in Nat
      /\ Size \in Nat /\ IndexMod \in Nat /\ Size < IndexMod
      /\ Sub(prod.cached_cons, prod.cached_prod) \in Nat
      /\ Sub(cons.cached_prod, cons.cached_cons) \in Nat /\ Taken \in Nat
  BY <1>t, Fields, IndexRange, RingConstants, ZenonT(30) DEF Indices
<1>1. /\ prod.pc = "write" /\ prod.done = n
      /\ producer' = Add(producer, n)
      /\ prod' = [prod EXCEPT !.pc = "idle"]
      /\ UNCHANGED <<consumer, ring, cons, got, ret>>
  BY DEF Submit
<1>2. /\ Pending = n /\ prod.cached_prod = Add(producer, n)
      /\ Used + n + Sub(prod.cached_cons, prod.cached_prod) <= Size
  BY <1>t, <1>1 DEF ProdDistances, Pending
<1>3. Used + n <= Size /\ Used + n < IndexMod
  BY <1>f, <1>2
<1>4. producer' \in Indices /\ Add(producer', 0) = producer'
  BY <1>f, <1>1, IndexRange, ZenonT(30)
<1>5. Used' = Used + n
  BY <1>f, <1>1, <1>3, SubAdvance DEF Used
<1> HIDE DEF n
<1>6. /\ prod' \in ProdStates /\ prod'.pc = "idle" /\ prod'.done = prod.done
      /\ prod'.descs = prod.descs
      /\ prod'.cached_prod = prod.cached_prod /\ prod'.cached_cons = prod.cached_cons
  BY <1>t, <1>1 DEF Typed, ProdStates
<1>7. Pending' = 0 /\ Taken' = Taken
  BY <1>1, <1>6 DEF Pending, Taken
<1>8. Typed'
  BY <1>t, <1>1, <1>4, <1>6 DEF Typed
<1>9. ProdDistances'
  <2>1. Used + n + 0 + Sub(prod.cached_cons, prod.cached_prod) <= Size
    BY <1>f, <1>2
  <2> QED BY <1>1, <1>2, <1>4, <1>5, <1>6, <1>7, <2>1 DEF ProdDistances
<1>10. ConsDistances'
  <2>1. Taken + Sub(cons.cached_prod, cons.cached_cons) <= Used + n
    BY <1>t, <1>f DEF ConsDistances
  <2> QED BY <1>t, <1>1, <1>5, <1>7, <2>1 DEF ConsDistances
<1>11. Written' /\ Read' /\ Returned'
  BY <1>t, <1>1, <1>6 DEF Written, Read, Returned
<1> QED BY <1>1, <1>3, <1>5, <1>8, <1>9, <1>10, <1>11 DEF RingInv, n

\* _xsk_ring_cons__peek finds entries.
LEMMA PeekStep ==
  ASSUME RingInv, NEW kind \in {"rx", "comp"}, NEW n \in Requests, NEW room \in Rooms,
         Peek(kind, n, room)
  PROVE  RingInv'
<1> DEFINE e == Sub(CachedProd, consumer)
           a == NbAvail(n)
<1>t. Typed /\ ConsDistances /\ Returned
  BY DEF RingInv
<1>n. n \in Nat /\ room \in Nat
  BY RingConstants
<1>1. /\ cons.pc = "idle" /\ a > 0
      /\ cons' = [cons EXCEPT !.pc = "read", !.cached_prod = CachedProd,
                              !.idx = cons.cached_cons,
                              !.cached_cons = Add(cons.cached_cons, a),
                              !.cnt = a, !.room = room, !.kind = kind, !.out = <<>>]
      /\ UNCHANGED <<producer, consumer, ring, prod, got, ret>>
  BY DEF Peek
<1>2. /\ cons.cached_cons = consumer /\ CachedProd \in Indices /\ e \in Nat /\ e <= Used
  BY <1>t, <1>1, FoundEntries
<1>3. a \in Nat /\ a <= e /\ a <= n
  BY <1>n, <1>2 DEF NbAvail
<1>4. consumer \in Indices /\ Used \in Nat
  BY <1>t, Fields DEF Indices
<1>5. Add(consumer, a) \in Indices /\ Sub(CachedProd, Add(consumer, a)) = e - a
  BY <1>2, <1>3, <1>4, IndexRange, SubRetreat
<1> HIDE DEF a, e
<1>6. /\ cons' \in ConsStates /\ cons'.pc = "read" /\ cons'.idx = consumer
      /\ cons'.cached_prod = CachedProd /\ cons'.cached_cons = Add(consumer, a)
      /\ cons'.cnt = a /\ cons'.room = room /\ cons'.out = <<>>
  <2>1. <<>> \in Seq(Desc)
    OBVIOUS
  <2> QED BY <1>t, <1>n, <1>1, <1>2, <1>3, <1>4, <1>5, <2>1, ZenonT(30) DEF Typed, ConsStates
<1>7. ConsDistances'
  <2>1. Taken' = a /\ Used' = Used /\ consumer' = consumer
    BY <1>1, <1>6, ConsOnly DEF Taken
  <2>2. a + Sub(CachedProd, Add(consumer, a)) <= Used
    BY <1>2, <1>3, <1>4, <1>5
  <2> QED BY <1>6, <2>1, <2>2 DEF ConsDistances
<1>8. Read'
  BY <1>1, <1>3, <1>6 DEF Read
<1>9. Returned'
  <2>1. RoomSuffices => a <= room
    BY <1>n, <1>3 DEF RoomSuffices
  <2> QED BY <1>t, <1>1, <1>6, <2>1 DEF Returned
<1> QED BY <1>1, <1>6, <1>7, <1>8, <1>9, ConsOnly DEF RingInv

\* _xsk_ring_cons__peek finds none.
LEMMA PeekNoneStep ==
  ASSUME RingInv, NEW kind \in {"rx", "comp"}, NEW n \in Requests, PeekNone(kind, n)
  PROVE  RingInv'
<1>t. Typed /\ ConsDistances /\ Read /\ Returned
  BY DEF RingInv
<1>1. /\ cons.pc = "idle"
      /\ cons' = [cons EXCEPT !.cached_prod = CachedProd]
      /\ UNCHANGED <<producer, consumer, ring, prod, got, ret>>
  BY DEF PeekNone
<1>2. /\ cons.cached_cons = consumer /\ CachedProd \in Indices
      /\ Sub(CachedProd, consumer) \in Nat /\ Sub(CachedProd, consumer) <= Used
  BY <1>t, <1>1, FoundEntries
<1>3. /\ cons' \in ConsStates /\ cons'.pc = "idle" /\ cons'.cached_prod = CachedProd
      /\ cons'.cached_cons = cons.cached_cons /\ cons'.cnt = cons.cnt /\ cons'.out = cons.out
  BY <1>t, <1>1, <1>2, ZenonT(30) DEF Typed, ConsStates
<1>4. ConsDistances'
  <2>1. Taken' = 0 /\ Taken = 0 /\ Used' = Used /\ consumer' = consumer
    BY <1>1, <1>3, ConsOnly DEF Taken
  <2>2. 0 + Sub(CachedProd, consumer) <= Used
    BY <1>2
  <2> QED BY <1>t, <1>2, <1>3, <2>1, <2>2, ZenonT(30) DEF ConsDistances
<1>5. Read' /\ Returned'
  BY <1>t, <1>1, <1>3 DEF Read, Returned
<1> QED BY <1>1, <1>3, <1>4, <1>5, ConsOnly DEF RingInv

\* A step that reads the next entry, or panics before or after it.
LEMMA ReadStep ==
  ASSUME RingInv, cons.pc = "read", Len(cons.out) < cons.cnt,
         \/ cons' = ReadNext
         \/ cons' = [ReadNext EXCEPT !.pc = "panic"]
         \/ cons' = [cons EXCEPT !.pc = "panic"],
         UNCHANGED <<producer, consumer, ring, prod, got, ret>>
  PROVE  RingInv'
<1> DEFINE x == Slot(Add(consumer, Len(cons.out)))
           o == Append(cons.out, ring[x])
<1>t. Typed /\ ConsDistances /\ Read /\ Returned
  BY DEF RingInv
<1>f. /\ consumer \in Indices /\ cons.out \in Seq(Desc) /\ Len(cons.out) \in Nat
      /\ cons.cnt \in Nat /\ cons.idx = consumer
  BY <1>t, Fields DEF ConsDistances
<1>1. x \in Slots /\ ring[x] \in Desc
  <2>1. Add(consumer, Len(cons.out)) \in Indices
    BY <1>f, IndexRange, ZenonT(30)
  <2>2. x \in Slots
    BY <2>1, IndexRange
  <2> QED BY <1>t, <2>2 DEF Typed
<1>2. /\ o \in Seq(Desc) /\ Len(o) = Len(cons.out) + 1 /\ o[Len(cons.out) + 1] = ring[x]
      /\ \A k \in 1 .. Len(cons.out) : o[k] = cons.out[k]
  BY <1>f, <1>1, AppendProperties
<1>3. ReadNext = [cons EXCEPT !.out = o]
  BY <1>f DEF ReadNext
<1> HIDE DEF o
<1>4. /\ cons' \in ConsStates /\ cons'.pc \in {"read", "panic"} /\ cons'.idx = cons.idx
      /\ cons'.cached_prod = cons.cached_prod /\ cons'.cached_cons = cons.cached_cons
      /\ cons'.cnt = cons.cnt /\ cons'.room = cons.room
      /\ cons'.out = o \/ (cons'.out = cons.out /\ cons'.pc = "panic")
  <2>1. CASE cons' = ReadNext
    BY <1>t, <1>2, <1>3, <2>1, ZenonT(30) DEF Typed, ConsStates
  <2>2. CASE cons' = [ReadNext EXCEPT !.pc = "panic"]
    BY <1>t, <1>2, <1>3, <2>2, ZenonT(30) DEF Typed, ConsStates
  <2>3. CASE cons' = [cons EXCEPT !.pc = "panic"]
    BY <1>t, <2>3, ZenonT(30) DEF Typed, ConsStates
  <2> QED BY <2>1, <2>2, <2>3
<1>5. Taken' = Taken /\ Used' = Used
  BY <1>4 DEF Taken, Used
<1>6. ConsDistances' /\ Returned'
  BY <1>t, <1>4, <1>5 DEF ConsDistances, Returned
<1>7. Read'
  <2>1. ASSUME NEW k \in 1 .. Len(cons.out) + 1
        PROVE  o[k] = ring[Slot(Add(consumer, k - 1))]
    <3>1. CASE k = Len(cons.out) + 1
      BY <1>f, <1>2, <3>1
    <3>2. CASE k \in 1 .. Len(cons.out)
      BY <1>t, <1>2, <3>2 DEF Read
    <3> QED BY <1>f, <3>1, <3>2
  <2>2. CASE cons'.out = o
    BY <1>f, <1>2, <1>4, <2>1, <2>2 DEF Read
  <2>3. CASE cons'.out = cons.out /\ cons'.pc = "panic"
    BY <1>f, <1>4, <2>3 DEF Read
  <2> QED BY <1>4, <2>2, <2>3
<1> QED BY <1>4, <1>6, <1>7, ConsOnly DEF RingInv

\* _xsk_ring_cons__release gives the entries back.
LEMMA ReleaseStep ==
  ASSUME RingInv, Release
  PROVE  /\ RingInv'
         /\ cons.cnt \in Nat /\ cons.cnt <= Used /\ Used' = Used - cons.cnt
         /\ consumer' = Add(consumer, cons.cnt)
<1> DEFINE n == cons.cnt
<1>t. Typed /\ ProdDistances /\ ConsDistances /\ Written /\ Read /\ Returned
  BY DEF RingInv
<1>f. /\ producer \in Indices /\ consumer \in Indices /\ Used \in Nat /\ n \in Nat
      /\ Size \in Nat /\ Pending \in Nat /\ cons.out \in Seq(Desc) /\ Len(cons.out) \in Nat
      /\ Sub(prod.cached_cons, prod.cached_prod) \in Nat /\ cons.room \in Nat
      /\ Sub(cons.cached_prod, cons.cached_cons) \in Nat
  BY <1>t, Fields, IndexRange, RingConstants, ZenonT(30) DEF Indices
<1>1. /\ cons.pc = "read"
      /\ IF cons.kind = "rx" THEN ~RxMore ELSE Len(cons.out) = n
      /\ consumer' = Add(consumer, n)
      /\ cons' = [cons EXCEPT !.pc = "idle"]
      /\ got' = cons.out /\ ret' = n
      /\ UNCHANGED <<producer, ring, prod>>
  BY DEF Release
<1>2. /\ cons.cached_cons = Add(consumer, n)
      /\ n + Sub(cons.cached_prod, cons.cached_cons) <= Used
  BY <1>t, <1>1 DEF ConsDistances, Taken
<1>3. n <= Used
  BY <1>f, <1>2
<1>4. consumer' \in Indices /\ Add(consumer', 0) = consumer'
  BY <1>f, <1>1, IndexRange, ZenonT(30)
<1>5. Used' = Used - n
  BY <1>f, <1>1, <1>3, SubRetreat DEF Used
<1> HIDE DEF n
<1>6. /\ cons' \in ConsStates /\ cons'.pc = "idle" /\ cons'.cnt = cons.cnt
      /\ cons'.out = cons.out
      /\ cons'.cached_prod = cons.cached_prod /\ cons'.cached_cons = cons.cached_cons
  BY <1>t, <1>1 DEF Typed, ConsStates
<1>7. Pending' = Pending /\ Taken' = 0
  BY <1>1, <1>6 DEF Pending, Taken
<1>8. Typed'
  BY <1>t, <1>f, <1>1, <1>4, <1>6 DEF Typed
<1>9. ProdDistances'
  <2>1. Used - n + Pending + Sub(prod.cached_cons, prod.cached_prod) <= Size
    BY <1>t, <1>f, <1>3 DEF ProdDistances
  <2> QED BY <1>t, <1>1, <1>5, <1>7, <2>1 DEF ProdDistances
<1>10. ConsDistances'
  <2>1. 0 + Sub(cons.cached_prod, cons.cached_cons) <= Used - n
    BY <1>f, <1>2, <1>3
  <2> QED BY <1>1, <1>2, <1>4, <1>5, <1>6, <1>7, <2>1 DEF ConsDistances
<1>11. Written' /\ Read'
  BY <1>t, <1>1, <1>6 DEF Written, Read
<1>12. Returned'
  <2>1. ASSUME RoomSuffices PROVE n = Len(cons.out)
    <3>1. Len(cons.out) <= n /\ n <= cons.room
      BY <1>t, <1>1, <2>1 DEF Read, Returned, n
    <3> QED BY <1>f, <1>1, <3>1 DEF RxMore, n
  <2> QED BY <1>1, <1>6, <2>1 DEF Returned
<1> QED BY <1>1, <1>3, <1>5, <1>8, <1>9, <1>10, <1>11, <1>12, <1>f DEF RingInv, n

-----------------------------------------------------------------------------
\* The rings as xsk_umem__create and xsk_socket__create set them up.
LEMMA RingInit == Init => RingInv
<1> SUFFICES ASSUME Init PROVE RingInv
  OBVIOUS
<1>1. 0 \in Indices /\ Size \in Indices /\ Size \in Nat /\ Add(0, 0) = 0
  BY RingConstants, IndexRange DEF Indices
<1>2. Sub(0, 0) = 0 /\ Sub(Size, 0) = Size
  BY <1>1, SubValue DEF Indices
<1>3. <<>> \in Seq(Desc) /\ Len(<<>>) = 0
  OBVIOUS
<1>4. Typed
  BY <1>1, <1>3 DEF Init, Typed, ProdStates, ConsStates
<1>5. ProdDistances /\ ConsDistances
  BY <1>1, <1>2 DEF Init, ProdDistances, ConsDistances, Pending, Taken, Used
<1>6. Written /\ Read /\ Returned
  BY <1>3 DEF Init, Written, Read, Returned
<1> QED BY <1>4, <1>5, <1>6 DEF RingInv

\* Every step of either side keeps the invariant.
LEMMA RingInductive == RingInv /\ [Next]_vars => RingInv'
<1> SUFFICES ASSUME RingInv, [Next]_vars PROVE RingInv'
  OBVIOUS
<1>1. ASSUME NEW descs \in Batches, Reserve(descs) \/ ReserveNone(descs) PROVE RingInv'
  BY <1>1, ReserveStep, ReserveNoneStep
<1>2. CASE WriteDesc
  BY <1>2, WriteDescStep
<1>3. CASE Submit
  BY <1>3, SubmitStep
<1>4. ASSUME NEW kind \in {"rx", "comp"}, NEW n \in Requests,
             PeekNone(kind, n) \/ (\E room \in Rooms : Peek(kind, n, room))
      PROVE  RingInv'
  BY <1>4, PeekStep, PeekNoneStep
<1>5. CASE ReadRxDesc
  BY <1>5, ReadStep DEF ReadRxDesc, RxMore
<1>6. CASE ReadCompAddr
  BY <1>6, ReadStep DEF ReadCompAddr
<1>7. CASE Release
  BY <1>7, ReleaseStep, ZenonT(30)
<1>8. CASE UNCHANGED vars
  BY <1>8 DEF vars, RingInv, Typed, ProdDistances, ConsDistances, Written, Read, Returned,
              Used, Pending, Taken
<1> QED BY <1>1, <1>2, <1>3, <1>4, <1>5, <1>6, <1>7, <1>8 DEF Next

\* RingInv holds in every reachable state of a ring.
LEMMA RingInvariant == Spec => []RingInv
  BY RingInit, RingInductive, PTL DEF Spec

-----------------------------------------------------------------------------
(* Theorems                                                                *)

\* The indices stay 32-bit words, the slots descriptors, and consume never
\* writes more entries than it was told there are.
THEOREM RingTypeCorrect == Spec => []RingTypeOK
<1>1. RingInv => RingTypeOK
  BY Fields DEF RingInv, Typed, Read, RingTypeOK
<1> QED BY <1>1, RingInvariant, PTL

\* produce never writes a slot that holds an entry still on the ring, for all
\* ring sizes, across the wrap of the indices and however stale its cached
\* copy of the consumer's index is.
THEOREM RingWritesFreeSlots == Spec => []WritesOnlyFreeSlots
<1>1. RingInv => WritesOnlyFreeSlots
  <2> SUFFICES ASSUME RingInv, prod.pc = "write", prod.done < Len(prod.descs),
                      NEW i \in Indices, Sub(i, consumer) < Used
               PROVE  Slot(i) # Slot(Add(prod.idx, prod.done))
    BY DEF WritesOnlyFreeSlots, Inside, Used
  <2>1. Typed /\ ProdDistances
    BY DEF RingInv
  <2>2. /\ prod.idx = producer
        /\ \A a \in Nat : a < Used =>
             Slot(Add(consumer, a)) # Slot(Add(producer, prod.done))
    BY <2>1, FreshSlot
  <2>3. consumer \in Indices /\ Sub(i, consumer) \in Nat /\ Sub(i, consumer) < IndexMod
    <3>1. consumer \in Indices
      BY <2>1 DEF Typed
    <3>2. Sub(i, consumer) \in Indices
      BY <3>1, IndexRange
    <3> QED BY <3>1, <3>2, RingConstants DEF Indices
  <2>4. Add(consumer, Sub(i, consumer)) = i
    <3>1. Add(consumer, Sub(i, consumer) + 0) = Add(i, 0)
      BY <2>3, SubAdvance
    <3>2. Sub(i, consumer) + 0 = Sub(i, consumer) /\ Add(i, 0) = i
      BY <2>3, IndexRange
    <3> QED BY <3>1, <3>2
  <2> QED BY <2>2, <2>3, <2>4
<1> QED BY <1>1, RingInvariant, PTL

\* The entries between two indices c and p, as a sequence.
LEMMA EntriesFrom ==
  ASSUME NEW p \in Indices, NEW c \in Indices, NEW r \in [Slots -> Desc],
         NEW e, e = [k \in 1 .. Sub(p, c) |-> r[Slot(Add(c, k - 1))]]
  PROVE  /\ e \in Seq(Desc) /\ Len(e) = Sub(p, c) /\ Sub(p, c) \in Nat
         /\ \A k \in 1 .. Sub(p, c) : e[k] = r[Slot(Add(c, k - 1))]
<1>1. Sub(p, c) \in Nat
  BY IndexRange DEF Indices
<1>2. ASSUME NEW k \in 1 .. Sub(p, c) PROVE r[Slot(Add(c, k - 1))] \in Desc
  <2>1. Add(c, k - 1) \in Indices
    BY <1>1, IndexRange
  <2> QED BY <2>1, IndexRange
<1>3. e \in [1 .. Sub(p, c) -> Desc]
  BY <1>2
<1> QED BY <1>1, <1>3

\* The entries on the ring.
LEMMA EntriesAre ==
  ASSUME Typed
  PROVE  /\ Entries \in Seq(Desc) /\ Len(Entries) = Used /\ Used \in Nat
         /\ \A k \in 1 .. Used : Entries[k] = ring[Slot(Add(consumer, k - 1))]
  BY EntriesFrom DEF Typed, Entries, Used

\* A stale cached index never makes produce refuse a batch that fits or
\* consume miss that the ring is not empty.
THEOREM RingRefusesHonestly == Spec => []RefusalsAreHonest
<1>1. RingInv => RefusalsAreHonest
  <2> SUFFICES ASSUME RingInv PROVE RefusalsAreHonest
    OBVIOUS
  <2>1. Typed /\ ProdDistances /\ ConsDistances
    BY DEF RingInv
  <2>2. Entries \in Seq(Desc) /\ Len(Entries) = Used /\ Used \in Nat
    BY <2>1, EntriesAre
  <2>3. ASSUME prod.pc = "idle", NEW nb \in 1 .. MaxBatch, NbFree(nb) < nb
        PROVE  Len(Entries) + nb > Size
    <3>1. nb \in Nat /\ Size \in Nat
      BY RingConstants
    <3>2. NbFree(nb) \in Nat /\ Used + NbFree(nb) = Size
      BY <2>1, <2>3, <3>1, FoundRoom
    <3> QED BY <2>2, <2>3, <3>1, <3>2
  <2>4. ASSUME cons.pc = "idle", NEW n \in Requests \ {0}, NbAvail(n) = 0
        PROVE  Entries = <<>>
    <3>1. n \in Nat \ {0}
      BY RingConstants
    <3>2. /\ cons.cached_cons = consumer /\ Sub(CachedProd, consumer) \in Nat
          /\ Sub(CachedProd, consumer) = 0 => Used = 0
      BY <2>1, <2>4, FoundEntries
    <3>3. Sub(CachedProd, consumer) = 0
      BY <2>4, <3>1, <3>2 DEF NbAvail
    <3> QED BY <2>2, <3>2, <3>3, EmptySeq
  <2> QED BY <2>3, <2>4 DEF RefusalsAreHonest
<1> QED BY <1>1, RingInvariant, PTL

\* consume returns the number of entries it wrote to the slice, if no caller
\* asks for more than its slice has room for.
THEOREM RingReturnsNumberUpdated == RoomSuffices => (Spec => []ReturnsNumberUpdated)
<1> SUFFICES ASSUME RoomSuffices PROVE Spec => []ReturnsNumberUpdated
  OBVIOUS
<1>1. RingInv => ReturnsNumberUpdated
  BY DEF RingInv, Returned, ReturnsNumberUpdated
<1> QED BY <1>1, RingInvariant, PTL

-----------------------------------------------------------------------------
(* Refinement: the ring is the queue of module BoundedQueue.               *)

\* A slot write leaves the entries alone.
LEMMA WriteKeepsEntries ==
  ASSUME RingInv, WriteDesc
  PROVE  Entries' = Entries
<1>1. Typed /\ ProdDistances
  BY DEF RingInv
<1> DEFINE w == Slot(Add(producer, prod.done))
<1>2. /\ prod.pc = "write" /\ prod.done < Len(prod.descs)
      /\ UNCHANGED <<producer, consumer>>
      /\ ring' = [ring EXCEPT ![Slot(Add(prod.idx, prod.done))] = prod.descs[prod.done + 1]]
  BY DEF WriteDesc, WriteSlot
<1>3. prod.idx = producer /\ \A a \in Nat : a < Used => Slot(Add(consumer, a)) # w
  BY <1>1, <1>2, FreshSlot
<1>4. consumer \in Indices /\ Used \in Nat /\ ring \in [Slots -> Desc]
  BY <1>1, Fields DEF Indices, Typed
<1> HIDE DEF w
<1>5. ASSUME NEW k \in 1 .. Used
      PROVE  ring'[Slot(Add(consumer, k - 1))] = ring[Slot(Add(consumer, k - 1))]
  <2>1. k - 1 \in Nat /\ k - 1 < Used
    BY <1>4
  <2>2. Slot(Add(consumer, k - 1)) \in Slots
    BY <1>4, <2>1, IndexRange
  <2>3. Slot(Add(consumer, k - 1)) # w
    BY <1>3, <2>1
  <2>4. ring' = [ring EXCEPT ![w] = prod.descs[prod.done + 1]]
    BY <1>2, <1>3 DEF w
  <2> QED BY <1>4, <2>2, <2>3, <2>4
<1>6. Entries = [k \in 1 .. Used |-> ring[Slot(Add(consumer, k - 1))]]
  BY DEF Entries, Used
<1>7. Entries' = [k \in 1 .. Used |-> ring'[Slot(Add(consumer, k - 1))]]
  BY <1>2 DEF Entries, Used
<1> QED BY <1>5, <1>6, <1>7

\* A batch that gets its slots fits behind the entries.
LEMMA ReserveOffers ==
  ASSUME RingInv, NEW descs \in Batches, Reserve(descs)
  PROVE  Queue!Offer
<1> DEFINE n == Len(descs)
<1>1. /\ prod.pc = "idle" /\ NbFree(n) >= n
      /\ UNCHANGED <<producer, consumer, ring, cons, got, ret>>
  BY DEF Reserve
<1>2. Typed /\ ProdDistances
  BY DEF RingInv
<1>3. descs \in [1 .. n -> Desc] /\ n \in Nat /\ n > 0
  BY BatchType
<1>4. Len(Entries) = Used /\ Used \in Nat
  BY <1>2, EntriesAre
<1>5. n \in 1 .. Size - Len(Entries)
  <2> DEFINE room == Sub(CachedCons(n), producer)
  <2>1. room \in Nat /\ Used + room <= Size /\ n <= room
    BY <1>1, <1>2, <1>3, FoundRoom
  <2> HIDE DEF room, n
  <2> QED BY <1>3, <1>4, <2>1, RingConstants
<1>6. prod'.pc = "write" /\ prod'.descs = descs
  BY <1>2 DEF Reserve, Typed, ProdStates
<1> HIDE DEF n
<1>7. Offered = <<>> /\ Offered' = descs
  BY <1>1, <1>6 DEF Offered
<1>8. Entries' = Entries
  BY <1>1 DEF Entries
<1> QED BY <1>1, <1>3, <1>5, <1>7, <1>8, ZenonT(30) DEF Queue!Offer

\* Submit adds the batch behind the entries.
LEMMA SubmitPuts ==
  ASSUME RingInv, Submit
  PROVE  Queue!Put
<1> DEFINE n == Len(prod.descs)
<1>t. Typed /\ Typed' /\ Written /\ Typed
  BY SubmitStep DEF RingInv
<1>1. /\ prod.pc = "write" /\ prod.done = n
      /\ UNCHANGED <<consumer, ring, cons, got, ret>>
  BY DEF Submit
<1>2. /\ Used' = Used + n /\ Used' <= Size /\ n \in Nat /\ n > 0 /\ prod.descs \in Seq(Desc)
      /\ consumer \in Indices /\ producer \in Indices /\ Size \in Nat /\ Size < IndexMod
      /\ IndexMod \in Nat
  BY <1>t, <1>1, SubmitStep, Fields, RingConstants DEF Written
<1>3. /\ Entries \in Seq(Desc) /\ Len(Entries) = Used /\ Used \in Nat
      /\ \A k \in 1 .. Used : Entries[k] = ring[Slot(Add(consumer, k - 1))]
  BY <1>t, EntriesAre
<1>4. /\ Entries' \in Seq(Desc) /\ Len(Entries') = Used + n
      /\ \A k \in 1 .. Used + n : Entries'[k] = ring[Slot(Add(consumer, k - 1))]
  <2>1. /\ Entries' \in Seq(Desc) /\ Len(Entries') = Used'
        /\ \A k \in 1 .. Used' : Entries'[k] = ring'[Slot(Add(consumer', k - 1))]
    <3>1. /\ Entries' = [k \in 1 .. Sub(producer', consumer') |->
                           ring'[Slot(Add(consumer', k - 1))]]
          /\ Used' = Sub(producer', consumer')
      BY DEF Entries, Used
    <3>2. producer' \in Indices /\ consumer' \in Indices /\ ring' \in [Slots -> Desc]
      BY <1>t DEF Typed
    <3> QED BY <3>1, <3>2, EntriesFrom
  <2> QED BY <1>1, <1>2, <2>1
<1> HIDE DEF n
<1>5. ASSUME NEW k \in 1 .. n
      PROVE  ring[Slot(Add(consumer, Used + k - 1))] = prod.descs[k]
  <2>1. k - 1 \in Nat /\ Used + (k - 1) < IndexMod /\ Used + k - 1 = Used + (k - 1)
    BY <1>2, <1>3
  <2>2. Add(consumer, Used + (k - 1)) = Add(producer, k - 1)
    BY <1>2, <2>1, SubAdvance DEF Used
  <2>3. ring[Slot(Add(producer, k - 1))] = prod.descs[k]
    BY <1>t, <1>1 DEF Written
  <2> QED BY <2>1, <2>2, <2>3
<1>6. Entries' = Entries \o prod.descs
  <2> DEFINE c == Entries \o prod.descs
  <2>1. /\ c \in Seq(Desc) /\ Len(c) = Used + n
        /\ \A k \in 1 .. Used + n :
             c[k] = IF k <= Used THEN Entries[k] ELSE prod.descs[k - Used]
    BY <1>2, <1>3, ConcatProperties, ZenonT(30) DEF n
  <2> HIDE DEF c
  <2>2. ASSUME NEW k \in 1 .. Used + n PROVE Entries'[k] = c[k]
    <3>1. CASE k <= Used
      <4>1. k \in 1 .. Used
        BY <1>2, <1>3, <3>1
      <4>2. c[k] = Entries[k]
        BY <2>1, <3>1
      <4>3. Entries[k] = ring[Slot(Add(consumer, k - 1))]
        BY <1>3, <4>1
      <4> QED BY <1>4, <4>2, <4>3
    <3>2. CASE k > Used
      <4>1. k - Used \in 1 .. n /\ Used + (k - Used) - 1 = k - 1
        BY <1>2, <1>3, <3>2
      <4>2. ring[Slot(Add(consumer, k - 1))] = prod.descs[k - Used]
        BY <1>5, <4>1
      <4> QED BY <1>3, <1>4, <2>1, <3>2, <4>2
    <3> QED BY <1>3, <3>1, <3>2
  <2>3. Entries' = c
    BY <1>4, <2>1, <2>2, SeqEqual, ZenonT(30)
  <2> QED BY <2>3 DEF c
<1>7. prod'.pc = "idle"
  BY <1>t DEF Submit, Typed, ProdStates
<1>8. Offered = prod.descs /\ Offered' = <<>>
  BY <1>1, <1>7 DEF Offered
<1>9. prod.descs # <<>>
  BY <1>2 DEF n
<1> QED BY <1>1, <1>6, <1>8, <1>9, ZenonT(30) DEF Queue!Put

\* Release takes the oldest entries, those that consume read.
LEMMA ReleaseTakes ==
  ASSUME RingInv, Release, RoomSuffices
  PROVE  Queue!Take
<1> DEFINE n == cons.cnt
<1>t. Typed /\ Typed' /\ Read /\ Returned'
  BY ReleaseStep DEF RingInv
<1>1. /\ cons.pc = "read" /\ got' = cons.out /\ ret' = n
      /\ UNCHANGED <<producer, ring, prod>>
  BY DEF Release
<1>2. /\ n \in Nat /\ n > 0 /\ n <= Used /\ Used' = Used - n
      /\ consumer' = Add(consumer, n) /\ consumer \in Indices /\ Used < IndexMod
      /\ IndexMod \in Nat /\ cons.out \in Seq(Desc) /\ Len(cons.out) = n
  <2>1. Used < IndexMod /\ IndexMod \in Nat
    BY <1>t, Fields, RingConstants DEF Indices
  <2>2. Len(cons.out) = n
    BY <1>t, <1>1 DEF Returned
  <2> QED BY <1>t, <1>1, <2>1, <2>2, ReleaseStep, Fields DEF Read
<1>3. /\ Entries \in Seq(Desc) /\ Len(Entries) = Used /\ Used \in Nat
      /\ \A k \in 1 .. Used : Entries[k] = ring[Slot(Add(consumer, k - 1))]
  BY <1>t, EntriesAre
<1>4. /\ Entries' \in Seq(Desc) /\ Len(Entries') = Used - n
      /\ \A k \in 1 .. Used - n : Entries'[k] = ring[Slot(Add(Add(consumer, n), k - 1))]
  <2>1. /\ Entries' \in Seq(Desc) /\ Len(Entries') = Used'
        /\ \A k \in 1 .. Used' : Entries'[k] = ring'[Slot(Add(consumer', k - 1))]
    <3>1. /\ Entries' = [k \in 1 .. Sub(producer', consumer') |->
                           ring'[Slot(Add(consumer', k - 1))]]
          /\ Used' = Sub(producer', consumer')
      BY DEF Entries, Used
    <3>2. producer' \in Indices /\ consumer' \in Indices /\ ring' \in [Slots -> Desc]
      BY <1>t DEF Typed
    <3> QED BY <3>1, <3>2, EntriesFrom
  <2> QED BY <1>1, <1>2, <2>1
<1> HIDE DEF n
<1>5. got' = SubSeq(Entries, 1, n)
  <2> DEFINE h == SubSeq(Entries, 1, n)
  <2>1. h \in Seq(Desc) /\ Len(h) = n /\ \A k \in 1 .. n : h[k] = Entries[k]
    BY <1>2, <1>3
  <2>2. \A k \in 1 .. n : cons.out[k] = Entries[k]
    BY <1>t, <1>1, <1>2, <1>3 DEF Read
  <2> HIDE DEF h
  <2>3. cons.out = h
    BY <1>2, <2>1, <2>2, SeqEqual
  <2> QED BY <1>1, <2>3 DEF h
<1>6. Entries' = SubSeq(Entries, n + 1, Len(Entries))
  <2> DEFINE r == SubSeq(Entries, n + 1, Len(Entries))
  <2>1. r \in Seq(Desc) /\ Len(r) = Used - n /\ \A k \in 1 .. Used - n : r[k] = Entries[n + k]
    BY <1>2, <1>3
  <2>2. ASSUME NEW k \in 1 .. Used - n PROVE Entries'[k] = r[k]
    <3> DEFINE m == n + k
    <3>1. /\ k - 1 \in Nat /\ m \in 1 .. Used /\ m - 1 = n + (k - 1)
          /\ n + (k - 1) < IndexMod
      BY <1>2, <1>3
    <3>2. Add(Add(consumer, n), k - 1) = Add(consumer, n + (k - 1))
      BY <1>2, <3>1, AddAdd
    <3>3. r[k] = Entries[m]
      BY <2>1
    <3> HIDE DEF m, r
    <3>4. Entries[m] = ring[Slot(Add(consumer, m - 1))]
      BY <1>3, <3>1
    <3> QED BY <1>4, <3>1, <3>2, <3>3, <3>4
  <2> HIDE DEF r
  <2>3. Entries' = r
    BY <1>4, <2>1, <2>2, SeqEqual
  <2> QED BY <2>3 DEF r
<1>7. n \in 1 .. Len(Entries)
  BY <1>2, <1>3
<1>8. Offered' = Offered
  BY <1>1 DEF Offered
<1> QED BY <1>5, <1>6, <1>7, <1>8 DEF Queue!Take

\* The ring is a bounded FIFO queue with batched operations, for every ring
\* size and index width and every interleaving of the two sides, if no caller
\* asks consume for more entries than its slice has room for.
THEOREM RingIsQueue == RoomSuffices => (Spec => QueueSpec)
<1> SUFFICES ASSUME RoomSuffices PROVE Spec => QueueSpec
  OBVIOUS
<1>1. Init => Queue!Init
  <2> SUFFICES ASSUME Init PROVE Queue!Init
    OBVIOUS
  <2>1. Typed /\ got = <<>> /\ Used = Sub(0, 0) /\ Offered = <<>>
    BY RingInit DEF Init, RingInv, Used, Offered
  <2>2. Used = 0
    BY <2>1, RingConstants, SubValue DEF Indices
  <2>3. Entries = <<>>
    BY <2>1, <2>2, EntriesAre, EmptySeq, ZenonT(30)
  <2> QED BY <2>1, <2>3 DEF Queue!Init
<1>2. RingInv /\ [Next]_vars => [Queue!Next]_(Queue!vars)
  <2> SUFFICES ASSUME RingInv, [Next]_vars PROVE [Queue!Next]_(Queue!vars)
    OBVIOUS
  <2>t. Typed
    BY DEF RingInv
  <2>1. CASE UNCHANGED <<producer, consumer, ring, prod, got>>
    BY <2>1 DEF Queue!vars, Entries, Offered
  <2>2. CASE WriteDesc
    <3>1. prod.pc # "idle" /\ prod'.pc # "idle" /\ prod'.descs = prod.descs
      BY <2>2, <2>t DEF WriteDesc, Typed, ProdStates
    <3>2. Offered' = Offered
      BY <3>1 DEF Offered
    <3> QED BY <2>2, <3>2, WriteKeepsEntries DEF Queue!vars, WriteDesc
  <2>3. CASE Submit
    BY <2>3, SubmitPuts DEF Queue!Next
  <2>4. CASE Release
    BY <2>4, ReleaseTakes DEF Queue!Next
  <2>5. ASSUME NEW descs \in Batches, Reserve(descs) PROVE Queue!Next
    BY <2>5, ReserveOffers DEF Queue!Next
  <2>6. ASSUME NEW descs \in Batches, ReserveNone(descs) PROVE UNCHANGED Queue!vars
    <3>1. prod.pc = "idle" /\ prod'.pc = "idle"
      BY <2>6, <2>t DEF ReserveNone, Typed, ProdStates
    <3> QED BY <2>6, <3>1 DEF ReserveNone, Queue!vars, Entries, Offered
  <2> QED BY <2>1, <2>2, <2>3, <2>4, <2>5, <2>6, ZenonT(30)
          DEF Next, vars, Peek, PeekNone, ReadRxDesc, ReadCompAddr
<1> QED BY <1>1, <1>2, RingInvariant, PTL DEF Spec, QueueSpec, Queue!Spec

-----------------------------------------------------------------------------
(* synacker                                                                *)

Replies == {GenerateSynack(p) : p \in Packets}

\* The replies and the one being sent.
SentReplies == IF syn_pc = "send" THEN Append(replies, synack) ELSE replies

\* Wanted by options f.
WantedBy(f, p) ==
  /\ Answerable(p)
  /\ Given(f.src_ip, p.src_ip) /\ Given(f.dest_ip, p.dest_ip)
  /\ Given(f.src_port, p.src_port) /\ Given(f.dest_port, p.dest_port)

\* of matches the replies rs with the packets of ps that f wants, in order.
Matches(of, rs, ps, f) ==
  /\ DOMAIN of = DOMAIN rs
  /\ \A i \in DOMAIN rs : /\ of[i] \in DOMAIN ps /\ WantedBy(f, ps[of[i]])
                          /\ Answers(rs[i], ps[of[i]])
  /\ \A k \in DOMAIN ps : WantedBy(f, ps[k]) => \E i \in DOMAIN rs : of[i] = k
  /\ \A i, j \in DOMAIN rs : i < j => of[i] < of[j]

Matched(rs, ps, f) == \E of \in [DOMAIN rs -> DOMAIN ps] : Matches(of, rs, ps, f)

\* The options under which the filter compares every option given.
OnePort == filter # None /\ None \in {filter.src_port, filter.dest_port}

\* The packets whose answer, if they are wanted, is among the replies: all but
\* the one that is being answered, or was when the program panicked.
Settled ==
  IF syn_pc \in {"send", "answer_panic"} THEN SubSeq(received, 1, Len(received) - 1)
                                         ELSE received

Latest == received[Len(received)]

SynInv ==
  /\ received \in Seq(Packets) /\ syn_waiting \in Seq(Packets) /\ replies \in Seq(Replies)
  /\ syn_pc = "start" => received = <<>> /\ replies = <<>>
  /\ OnePort => Matched(replies, Settled, filter)
  /\ syn_pc = "send" => /\ received # <<>> /\ synack = GenerateSynack(Latest)
                        /\ OnePort => WantedBy(filter, Latest)

\* A sequence without its last element, and back.
LEMMA FrontAndLast ==
  ASSUME NEW S, NEW s \in Seq(S), s # <<>>
  PROVE  /\ SubSeq(s, 1, Len(s) - 1) \in Seq(S) /\ s[Len(s)] \in S
         /\ Append(SubSeq(s, 1, Len(s) - 1), s[Len(s)]) = s
<1> DEFINE t == SubSeq(s, 1, Len(s) - 1)
           u == Append(t, s[Len(s)])
<1>1. Len(s) \in Nat \ {0} /\ s[Len(s)] \in S
  BY EmptySeq
<1>2. t \in Seq(S) /\ Len(t) = Len(s) - 1 /\ \A i \in 1 .. Len(s) - 1 : t[i] = s[i]
  <2>1. t = [i \in 1 .. Len(s) - 1 |-> s[i]]
    BY <1>1, SMT
  <2>2. Len(s) - 1 \in Nat /\ \A i \in 1 .. Len(s) - 1 : s[i] \in S
    BY <1>1
  <2> HIDE DEF t
  <2> QED
    BY <2>1, <2>2
<1> HIDE DEF t
<1>3. u \in Seq(S) /\ Len(u) = Len(s) /\ \A i \in 1 .. Len(s) : u[i] = s[i]
  BY <1>1, <1>2
<1> HIDE DEF u
<1>4. u = s
  BY <1>3, SeqEqual, Zenon
<1> QED
  BY <1>1, <1>2, <1>4 DEF t, u

\* An element appended and taken off again.
LEMMA FrontOfAppend ==
  ASSUME NEW S, NEW s \in Seq(S), NEW e \in S
  PROVE  SubSeq(Append(s, e), 1, Len(Append(s, e)) - 1) = s
<1> DEFINE a == Append(s, e)
           t == SubSeq(a, 1, Len(a) - 1)
<1>1. a \in Seq(S) /\ Len(s) \in Nat /\ Len(a) = Len(s) + 1
      /\ \A i \in 1 .. Len(s) : a[i] = s[i]
  OBVIOUS
<1> HIDE DEF a
<1>2. t \in Seq(S) /\ Len(t) = Len(s) /\ \A i \in 1 .. Len(s) : t[i] = s[i]
  BY <1>1
<1> HIDE DEF t
<1>3. t = s
  BY <1>2, SeqEqual, Zenon
<1> QED
  BY <1>3 DEF t, a

\* With at most one port given, a packet passes the filter and is answered
\* exactly if it is wanted.
LEMMA FilterIsExact ==
  ASSUME OnePort, NEW p
  PROVE  (p.net # "malformed" /\ FilterMatch(p) /\ Answerable(p)) <=> WantedBy(filter, p)
BY DEF OnePort, FilterMatch, IpMatch, TransportMatch, Answerable, WantedBy, Given

\* A generated reply answers its packet.
LEMMA SynackAnswers == ASSUME NEW p PROVE Answers(GenerateSynack(p), p)
BY DEF Answers, GenerateSynack

\* Before the first packet there is nothing to match.
LEMMA MatchedAtStart == ASSUME NEW f PROVE Matched(<<>>, <<>>, f)
<1> DEFINE of == [i \in {} |-> i]
<1>1. of \in [DOMAIN <<>> -> DOMAIN <<>>]
  OBVIOUS
<1>2. Matches(of, <<>>, <<>>, f)
  BY DEF Matches
<1> QED
  BY <1>1, <1>2, Zenon DEF Matched

\* A packet that is not wanted leaves the replies matched.
LEMMA MatchedUnwanted ==
  ASSUME NEW f, NEW rs \in Seq(Replies), NEW ps \in Seq(Packets), NEW p \in Packets,
         ~WantedBy(f, p), Matched(rs, ps, f)
  PROVE  Matched(rs, Append(ps, p), f)
<1>1. PICK of \in [DOMAIN rs -> DOMAIN ps] : Matches(of, rs, ps, f)
  BY DEF Matched
<1> DEFINE qs == Append(ps, p)
<1>2. /\ Len(ps) \in Nat /\ DOMAIN ps = 1 .. Len(ps) /\ DOMAIN qs = 1 .. Len(ps) + 1
      /\ \A k \in 1 .. Len(ps) : qs[k] = ps[k]
      /\ qs[Len(ps) + 1] = p
  OBVIOUS
<1> HIDE DEF qs
<1>3. of \in [DOMAIN rs -> DOMAIN qs]
  BY <1>2
<1>4. \A i \in DOMAIN rs : of[i] \in DOMAIN ps /\ qs[of[i]] = ps[of[i]]
  BY <1>2
<1>5. ASSUME NEW k \in DOMAIN qs, WantedBy(f, qs[k])
      PROVE  k \in DOMAIN ps /\ WantedBy(f, ps[k])
  BY <1>2, <1>5
<1>6. Matches(of, rs, qs, f)
  BY <1>1, <1>3, <1>4, <1>5, ZenonT(30) DEF Matches
<1> QED
  BY <1>3, <1>6 DEF Matched, qs

\* A wanted packet and its answer extend the match.
LEMMA MatchedAnswered ==
  ASSUME NEW f, NEW rs \in Seq(Replies), NEW ps \in Seq(Packets), NEW p \in Packets,
         WantedBy(f, p), Matched(rs, ps, f)
  PROVE  Matched(Append(rs, GenerateSynack(p)), Append(ps, p), f)
<1>1. PICK of \in [DOMAIN rs -> DOMAIN ps] : Matches(of, rs, ps, f)
  BY DEF Matched
<1> DEFINE qs == Append(ps, p)
           ts == Append(rs, GenerateSynack(p))
           og == [i \in DOMAIN ts |-> IF i = Len(rs) + 1 THEN Len(ps) + 1 ELSE of[i]]
<1>2. /\ Len(ps) \in Nat /\ DOMAIN ps = 1 .. Len(ps) /\ DOMAIN qs = 1 .. Len(ps) + 1
      /\ \A k \in 1 .. Len(ps) : qs[k] = ps[k]
      /\ qs[Len(ps) + 1] = p
  OBVIOUS
<1>3. GenerateSynack(p) \in Replies
  BY DEF Replies
<1>4. /\ Len(rs) \in Nat /\ DOMAIN rs = 1 .. Len(rs) /\ DOMAIN ts = 1 .. Len(rs) + 1
      /\ \A i \in 1 .. Len(rs) : ts[i] = rs[i]
      /\ ts[Len(rs) + 1] = GenerateSynack(p)
  BY <1>3
<1> HIDE DEF qs, ts
<1>5. /\ DOMAIN og = DOMAIN ts /\ og[Len(rs) + 1] = Len(ps) + 1
      /\ \A i \in 1 .. Len(rs) : og[i] = of[i] /\ of[i] \in 1 .. Len(ps)
  <2>1. Len(rs) + 1 \in DOMAIN ts
    BY <1>4
  <2>2. \A i \in 1 .. Len(rs) : i \in DOMAIN ts /\ i # Len(rs) + 1
    BY <1>4
  <2>3. \A i \in 1 .. Len(rs) : of[i] \in 1 .. Len(ps)
    BY <1>2, <1>4
  <2> QED
    BY <2>1, <2>2, <2>3, Zenon
<1> HIDE DEF og
<1>6. ASSUME NEW i \in DOMAIN ts PROVE og[i] \in DOMAIN qs
  <2>1. CASE i = Len(rs) + 1
    BY <2>1, <1>2, <1>5
  <2>2. CASE i \in 1 .. Len(rs)
    BY <2>2, <1>2, <1>5
  <2> QED
    BY <2>1, <2>2, <1>4
<1>7. ASSUME NEW i \in DOMAIN ts
      PROVE  og[i] \in DOMAIN qs /\ WantedBy(f, qs[og[i]]) /\ Answers(ts[i], qs[og[i]])
  <2>1. CASE i = Len(rs) + 1
    BY <2>1, <1>2, <1>4, <1>5, SynackAnswers
  <2>2. CASE i \in 1 .. Len(rs)
    BY <2>2, <1>1, <1>2, <1>4, <1>5 DEF Matches
  <2> QED
    BY <2>1, <2>2, <1>4
<1>8. ASSUME NEW k \in DOMAIN qs, WantedBy(f, qs[k])
      PROVE  \E i \in DOMAIN ts : og[i] = k
  <2>1. CASE k = Len(ps) + 1
    BY <2>1, <1>4, <1>5
  <2>2. CASE k \in 1 .. Len(ps)
    <3>1. PICK i \in DOMAIN rs : of[i] = k
      BY <2>2, <1>1, <1>2, <1>8, ZenonT(30) DEF Matches
    <3> QED
      BY <3>1, <1>4, <1>5
  <2> QED
    BY <2>1, <2>2, <1>2
<1>9. ASSUME NEW i \in DOMAIN ts, NEW j \in DOMAIN ts, i < j
      PROVE  og[i] < og[j]
  <2>1. CASE j = Len(rs) + 1
    BY <2>1, <1>9, <1>2, <1>4, <1>5
  <2>2. CASE j \in 1 .. Len(rs)
    <3>1. i \in 1 .. Len(rs)
      BY <2>2, <1>9, <1>4
    <3> QED
      BY <3>1, <2>2, <1>9, <1>1, <1>4, <1>5 DEF Matches
  <2> QED
    BY <2>1, <2>2, <1>4
<1>10. Matches(og, ts, qs, f)
  BY <1>5, <1>7, <1>8, <1>9 DEF Matches
<1>11. og \in [DOMAIN ts -> DOMAIN qs]
  BY <1>6 DEF og
<1> QED
  BY <1>10, <1>11, ZenonT(30) DEF Matched, qs, ts

\* SynInv states what AnswersExact does.
LEMMA SynInvAnswers == SynInv => AnswersExact
<1> SUFFICES ASSUME SynInv, OnePort
             PROVE  \E of \in [DOMAIN SentReplies ->
                                {k \in DOMAIN Handled : Wanted(Handled[k])}] :
                      /\ \A k \in {h \in DOMAIN Handled : Wanted(Handled[h])} :
                           \E i \in DOMAIN SentReplies : of[i] = k
                      /\ \A i, j \in DOMAIN SentReplies : i < j => of[i] < of[j]
                      /\ \A i \in DOMAIN SentReplies :
                           Answers(SentReplies[i], Handled[of[i]])
  BY Zenon DEF AnswersExact, OnePort, SentReplies
<1>1. Matched(SentReplies, Handled, filter)
  <2>1. CASE syn_pc = "send"
    <3>1. /\ received \in Seq(Packets) /\ received # <<>> /\ replies \in Seq(Replies)
          /\ synack = GenerateSynack(Latest) /\ WantedBy(filter, Latest)
          /\ Matched(replies, Settled, filter)
      BY <2>1, Zenon DEF SynInv
    <3>2. Settled = SubSeq(received, 1, Len(received) - 1) /\ Handled = received
          /\ SentReplies = Append(replies, synack)
      BY <2>1 DEF Settled, Handled, SentReplies
    <3>3. Settled \in Seq(Packets) /\ Latest \in Packets /\ Append(Settled, Latest) = received
      BY <3>1, <3>2, FrontAndLast, Zenon DEF Latest
    <3>4. Matched(Append(replies, GenerateSynack(Latest)), Append(Settled, Latest), filter)
      BY <3>1, <3>3, MatchedAnswered, Zenon
    <3> QED
      BY <3>1, <3>2, <3>3, <3>4, Zenon
  <2>2. CASE syn_pc # "send"
    BY <2>2, Zenon DEF SynInv, Settled, Handled, SentReplies
  <2> QED
    BY <2>1, <2>2
<1>2. PICK of \in [DOMAIN SentReplies -> DOMAIN Handled] :
        Matches(of, SentReplies, Handled, filter)
  BY <1>1 DEF Matched
<1>3. \A k : Wanted(Handled[k]) <=> WantedBy(filter, Handled[k])
  BY DEF Wanted, WantedBy
<1> HIDE DEF SentReplies, Handled
<1>4. of \in [DOMAIN SentReplies -> {k \in DOMAIN Handled : Wanted(Handled[k])}]
  BY <1>2, <1>3 DEF Matches
<1> QED
  BY <1>2, <1>3, <1>4 DEF Matches

\* The options do not change once they are parsed, and nothing is matched
\* before.
LEMMA SynStarts == SynInv /\ SynStart => SynInv'
<1> SUFFICES ASSUME SynInv, SynStart PROVE SynInv'
  OBVIOUS
<1>1. syn_pc' \in {"loop", "panic"} /\ received = <<>> /\ replies = <<>>
  BY DEF SynInv, SynStart
<1>2. /\ received' = received /\ syn_waiting' = syn_waiting /\ replies' = replies
      /\ Settled' = received
  BY <1>1 DEF SynStart, Settled
<1>3. Matched(replies, Settled, filter)'
  BY <1>1, <1>2, MatchedAtStart
<1> QED
  BY <1>1, <1>2, <1>3 DEF SynInv

\* A handled packet: passed over, answered, or the end of the program.
LEMMA SynHandles == SynInv /\ Handle => SynInv'
<1> SUFFICES ASSUME SynInv, Handle PROVE SynInv'
  OBVIOUS
<1> DEFINE p == Head(syn_waiting)
           answer == p.net # "malformed" /\ FilterMatch(p) /\ Answerable(p)
<1>1. /\ syn_pc = "loop" /\ syn_waiting # <<>> /\ syn_waiting' = Tail(syn_waiting)
      /\ received' = Append(received, p) /\ replies' = replies /\ filter' = filter
  BY DEF Handle
<1>2. \/ ~answer /\ syn_pc' = syn_pc /\ synack' = synack
      \/ answer /\ synack' = GenerateSynack(p) /\ syn_pc' = "send"
      \/ syn_pc' = "answer_panic"
  BY Zenon DEF Handle
<1>3. p \in Packets /\ Tail(syn_waiting) \in Seq(Packets)
  BY <1>1 DEF SynInv
<1>4. Settled = received /\ replies \in Seq(Replies) /\ received \in Seq(Packets)
  BY <1>1 DEF SynInv, Settled
<1>5. OnePort' <=> OnePort
  BY <1>1 DEF OnePort
<1>6. OnePort => Matched(replies, received, filter)
  BY <1>1, <1>4 DEF SynInv
<1> HIDE DEF p
<1>7. received' \in Seq(Packets) /\ syn_waiting' \in Seq(Packets) /\ replies' \in Seq(Replies)
  BY <1>1, <1>3, <1>4
<1>8. syn_pc' \in {"send", "answer_panic"} => Settled' = received
  BY <1>1, <1>3, <1>4, FrontOfAppend, Zenon DEF Settled
<1>9. CASE ~answer /\ syn_pc' = syn_pc /\ synack' = synack
  <2>1. Settled' = Append(received, p)
    BY <1>1, <1>9 DEF Settled
  <2>2. OnePort => ~WantedBy(filter, p)
    BY <1>9, FilterIsExact
  <2>3. OnePort => Matched(replies, Append(received, p), filter)
    BY <2>2, <1>3, <1>4, <1>6, MatchedUnwanted
  <2> QED
    BY <2>1, <2>3, <1>1, <1>5, <1>7, <1>9 DEF SynInv
<1>10. CASE answer /\ synack' = GenerateSynack(p) /\ syn_pc' = "send"
  <2>1. OnePort => WantedBy(filter, p)
    BY <1>10, FilterIsExact
  <2>2. received' # <<>> /\ Latest' = p
    BY <1>1, <1>3, <1>4 DEF Latest
  <2> QED
    BY <2>1, <2>2, <1>1, <1>5, <1>6, <1>7, <1>8, <1>10 DEF SynInv
<1>11. CASE syn_pc' = "answer_panic"
  BY <1>11, <1>1, <1>5, <1>6, <1>7, <1>8 DEF SynInv
<1> QED
  BY <1>2, <1>9, <1>10, <1>11

\* The reply that is accepted is the one that was being sent; a panic leaves
\* its packet unanswered.
LEMMA SynSends == SynInv /\ SendSynack => SynInv'
<1> SUFFICES ASSUME SynInv, SendSynack PROVE SynInv'
  OBVIOUS
<1>1. /\ syn_pc = "send"
      /\ received' = received /\ syn_waiting' = syn_waiting /\ filter' = filter
  BY DEF SendSynack
<1>2. \/ syn_pc' = "loop" /\ replies' = Append(replies, synack)
      \/ syn_pc' = "answer_panic" /\ replies' = replies
  BY DEF SendSynack
<1>3. /\ received \in Seq(Packets) /\ syn_waiting \in Seq(Packets) /\ replies \in Seq(Replies)
      /\ received # <<>> /\ synack = GenerateSynack(Latest)
      /\ OnePort => WantedBy(filter, Latest) /\ Matched(replies, Settled, filter)
  BY <1>1, Zenon DEF SynInv
<1>4. OnePort' <=> OnePort
  BY <1>1 DEF OnePort
<1>5. CASE syn_pc' = "loop" /\ replies' = Append(replies, synack)
  <2>1. Settled = SubSeq(received, 1, Len(received) - 1) /\ Settled' = received
    BY <1>1, <1>5 DEF Settled
  <2>2. Settled \in Seq(Packets) /\ Latest \in Packets /\ Append(Settled, Latest) = received
    BY <2>1, <1>3, FrontAndLast, Zenon DEF Latest
  <2>3. OnePort =>
          Matched(Append(replies, GenerateSynack(Latest)), Append(Settled, Latest), filter)
    BY <2>2, <1>3, MatchedAnswered, Zenon
  <2>4. OnePort' => Matched(replies', Settled', filter')
    BY <2>1, <2>2, <2>3, <1>1, <1>3, <1>4, <1>5, Zenon
  <2>5. GenerateSynack(Latest) \in Replies
    BY <2>2 DEF Replies
  <2>6. replies' \in Seq(Replies)
    BY <2>5, <1>3, <1>5
  <2> QED
    BY <2>4, <2>6, <1>1, <1>3, <1>5 DEF SynInv
<1>6. CASE syn_pc' = "answer_panic" /\ replies' = replies
  <2>1. Settled' = Settled
    BY <1>1, <1>6 DEF Settled
  <2> QED
    BY <2>1, <1>1, <1>3, <1>4, <1>6 DEF SynInv
<1> QED
  BY <1>2, <1>5, <1>6

\* The other steps leave the packets and the replies alone.
LEMMA SynOthers ==
  ASSUME SynInv, received' = received, replies' = replies, filter' = filter,
         synack' = synack, syn_waiting' \in Seq(Packets),
         syn_pc' = syn_pc \/ (syn_pc = "loop" /\ syn_pc' \in {"done", "panic"})
  PROVE  SynInv'
<1>1. Settled' = Settled /\ Latest' = Latest
  BY DEF Settled, Latest
<1>2. OnePort' <=> OnePort
  BY DEF OnePort
<1> QED
  BY <1>1, <1>2 DEF SynInv

\* SynInv holds in every reachable state.
LEMMA SynInvariant == SynSpec => []SynInv
<1>1. SynInit => SynInv
  <2> SUFFICES ASSUME SynInit PROVE SynInv
    OBVIOUS
  <2>1. filter = None
    BY DEF SynInit
  <2> QED
    BY <2>1 DEF SynInit, SynInv, OnePort
<1>2. SynInv /\ [SynNext]_synVars => SynInv'
  <2> SUFFICES ASSUME SynInv, [SynNext]_synVars PROVE SynInv'
    OBVIOUS
  <2>1. CASE SynStart
    BY <2>1, SynStarts
  <2>2. CASE Handle
    BY <2>2, SynHandles
  <2>3. CASE SendSynack
    BY <2>3, SynSends
  <2>4. CASE Leave
    BY <2>4, SynOthers DEF Leave, SynInv
  <2>5. CASE CtrlC
    BY <2>5, SynOthers DEF CtrlC, SynInv
  <2>6. CASE TimeOut
    BY <2>6, SynOthers DEF TimeOut, SynInv
  <2>7. CASE TransmitReply
    BY <2>7, SynOthers DEF TransmitReply, SynInv
  <2>8. ASSUME NEW p \in Packets, Arrive(p) PROVE SynInv'
    <3>1. syn_waiting' \in Seq(Packets)
      BY <2>8 DEF Arrive, SynInv
    <3> QED
      BY <3>1, <2>8, SynOthers DEF Arrive
  <2>9. CASE RecvPanics
    <3>1. syn_waiting' \in Seq(Packets)
      BY <2>9 DEF RecvPanics, SynInv
    <3> QED
      BY <3>1, <2>9, SynOthers DEF RecvPanics
  <2>10. CASE UNCHANGED synVars
    BY <2>10, SynOthers DEF synVars, SynInv
  <2> QED
    BY <2>1, <2>2, <2>3, <2>4, <2>5, <2>6, <2>7, <2>8, <2>9, <2>10 DEF SynNext, Thread
<1> QED
  BY <1>1, <1>2, PTL DEF SynSpec

\* "Respond to all packets that match a certain filter with a synack": for any
\* packets, any options that do not give both ports and any width of sequence
\* numbers, the replies answer the wanted packets among those received, each
\* once and in order, but for the one that was being answered when the program
\* panicked.
THEOREM SynackerAnswers == SynSpec => []AnswersExact
BY SynInvariant, SynInvAnswers, PTL
=============================================================================
