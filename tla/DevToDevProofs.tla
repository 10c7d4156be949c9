--------------------------- MODULE DevToDevProofs ---------------------------
(***************************************************************************)
(* Theorems about DevToDev, for any number of packets and queues: every    *)
(* packet is accounted for, and the statistics cover the run.              *)
(***************************************************************************)
EXTENDS DevToDev, FiniteSetTheorems, TLAPS

\* A leaf that names no prover is tried with SMT, with Zenon, and with SMT
\* again, given more time.
USE SMT, Zenon, SMTT(30), SMTT(40)

\* The types of the variables.
DevType ==
  /\ main \in [Modes -> {"start", "running", "done", "panic"}]
  /\ thread \in [Modes -> [Queues -> {"none", "build", "loop", "done", "panic"}]]
  /\ accepted \in [Queues -> SUBSET Numbers] /\ sent \in [Queues -> SUBSET Numbers]
  /\ waiting \in [Queues -> Seq(Numbers \cup {Foreign})]
  /\ recvd_nums \in [Queues -> SUBSET Numbers]
  /\ matched_recvd_pkts \in [Queues -> Nat] /\ n_missing \in [Queues -> Nat]
  /\ counter \in [Modes -> Nat] /\ stats \in [Modes -> Int]
  /\ lost \subseteq Numbers

\* The packets that have left the sender, and those that reached a receiver.
Left == {n \in Numbers : \E q \in Queues : n \in sent[q]}

OnSocket(n, q) == \E k \in 1 .. Len(waiting[q]) : waiting[q][k] = n

Arrived == {n \in Numbers : \E q \in Queues : n \in recvd_nums[q] \/ OnSocket(n, q)}

\* A queue sends its own packets only.
OwnPackets == \A q \in Queues : sent[q] \subseteq accepted[q] /\ accepted[q] \subseteq SplitPkts(q)

\* A packet that has left is lost, on a socket or seen, and only one of these,
\* on one socket, at one place.
OnePlace ==
  /\ \A n \in Left : n \in lost \/ n \in Arrived
  /\ lost \subseteq Left /\ Arrived \subseteq Left
  /\ \A n \in lost : n \notin Arrived
  /\ \A q, r \in Queues :
       /\ \A n \in recvd_nums[q] : ~OnSocket(n, r) /\ (q # r => n \notin recvd_nums[r])
       /\ \A i \in 1 .. Len(waiting[q]), j \in 1 .. Len(waiting[r]) :
            waiting[q][i] = waiting[r][j] /\ waiting[q][i] # Foreign => q = r /\ i = j

\* Nothing happens on a side before its program starts; a sending thread ends
\* when its packets have left, a program after its threads.
Progress ==
  /\ main["Tx"] = "start" =>
       \A q \in Queues : thread["Tx"][q] = "none" /\ accepted[q] = {}
  /\ main["Rx"] = "start" =>
       \A q \in Queues : thread["Rx"][q] = "none" /\ waiting[q] = <<>> /\ recvd_nums[q] = {}
  /\ \A q \in Queues : thread["Tx"][q] = "done" => sent[q] = SplitPkts(q)
  /\ \A m \in Modes : main[m] = "done" => \A q \in Queues : thread[m][q] = "done"

\* What the threads count.
Tally ==
  \A r \in Queues :
    /\ matched_recvd_pkts[r] = Cardinality(recvd_nums[r])
    /\ thread["Rx"][r] = "done" => n_missing[r] = NPkts - matched_recvd_pkts[r]

\* What the interfaces count while the programs run.
Covered ==
  /\ main["Tx"] = "running" => counter["Tx"] - stats["Tx"] >= Cardinality(Left)
  /\ main["Rx"] = "running" => counter["Rx"] - stats["Rx"] >= Cardinality(Arrived)
  /\ StatsCoverRun

DevInv == DevType /\ OwnPackets /\ OnePlace /\ Progress /\ Tally /\ Covered

\* A packet belongs to one queue.
LEMMA Owner ==
  ASSUME NEW n \in Numbers
  PROVE  /\ n % NQueues \in Queues
         /\ \A q \in Queues : n \in SplitPkts(q) <=> q = n % NQueues
BY DevConstants DEF Numbers, Queues, SplitPkts

\* There are NPkts numbers, and the sets of them are finite.
LEMMA NumbersFinite ==
  /\ IsFiniteSet(Numbers) /\ Cardinality(Numbers) = NPkts
  /\ Foreign \notin Numbers
  /\ \A S : S \subseteq Numbers =>
       IsFiniteSet(S) /\ Cardinality(S) \in Nat /\ Cardinality(S) <= NPkts
<1>1. 0 \in Int /\ NPkts - 1 \in Int
  BY DevConstants
<1>2. IsFiniteSet(0 .. NPkts - 1)
      /\ Cardinality(0 .. NPkts - 1) = IF 0 > NPkts - 1 THEN 0 ELSE (NPkts - 1) - 0 + 1
  BY ONLY <1>1, FS_Interval, Zenon
<1>3. IsFiniteSet(Numbers) /\ Cardinality(Numbers) = NPkts
  BY <1>2, DevConstants DEF Numbers
<1>4. ASSUME NEW S, S \subseteq Numbers
      PROVE  IsFiniteSet(S) /\ Cardinality(S) \in Nat /\ Cardinality(S) <= NPkts
  <2>1. IsFiniteSet(S) /\ Cardinality(S) <= Cardinality(Numbers)
    BY <1>3, <1>4, FS_Subset
  <2>2. Cardinality(S) \in Nat
    BY <2>1, FS_CardinalityType
  <2> QED
    BY <2>1, <2>2, <1>3
<1>5. Foreign \notin Numbers
  BY DEF Foreign, Numbers
<1> QED
  BY <1>3, <1>4, <1>5

\* A packet that has not left is with its sender; one that has is where
\* OnePlace has it.
LEMMA PlacesExclusive ==
  ASSUME DevType, OwnPackets, OnePlace, NEW n \in Numbers
  PROVE  Cardinality(Whereabouts(n)) = 1
<1> DEFINE A == {<<"sender", q>> : q \in {p \in Queues : n \in SplitPkts(p) \ sent[p]}}
           S(q) == {i \in DOMAIN waiting[q] : waiting[q][i] = n}
           B == UNION {{<<"socket", q, k>> : k \in S(q)} : q \in Queues}
           C == {<<"seen", q>> : q \in {p \in Queues : n \in recvd_nums[p]}}
           D == {<<"lost", x>> : x \in {n} \cap lost}
<1>1. Whereabouts(n) = A \cup B \cup C \cup D
  BY Zenon DEF Whereabouts
<1>2. \A x : Cardinality({x}) = 1
  BY FS_Singleton, Zenon
<1>3. n # Foreign
  BY NumbersFinite
<1>4. \A q \in Queues : DOMAIN waiting[q] = 1 .. Len(waiting[q])
  BY DEF DevType
<1>5. \A q \in Queues : OnSocket(n, q) <=> S(q) # {}
  BY <1>4 DEF OnSocket
<1>6. n \in Left <=> n \in sent[n % NQueues]
  BY Owner DEF Left, OwnPackets
<1>7. n \in Left => A = {}
  <2>1. ASSUME n \in Left, NEW q \in Queues PROVE n \notin SplitPkts(q) \ sent[q]
    BY <2>1, <1>6, Owner
  <2> QED
    BY <2>1
<1>8. n \notin Left => A = {<<"sender", n % NQueues>>}
  <2>1. ASSUME n \notin Left, NEW q \in Queues
        PROVE  n \in SplitPkts(q) \ sent[q] <=> q = n % NQueues
    BY <2>1, <1>6, Owner
  <2>2. ASSUME n \notin Left
        PROVE  {p \in Queues : n \in SplitPkts(p) \ sent[p]} = {n % NQueues}
    BY <2>1, <2>2, Owner
  <2> QED
    BY <2>2
<1>9. n \in Arrived <=> \E q \in Queues : n \in recvd_nums[q] \/ S(q) # {}
  BY <1>5 DEF Arrived
<1>10. n \notin Arrived => B = {} /\ C = {}
  <2>1. n \notin Arrived => \A q \in Queues : S(q) = {} /\ n \notin recvd_nums[q]
    BY <1>9
  <2> HIDE DEF S
  <2> QED
    BY <2>1
<1>11. n \notin lost => D = {}
  OBVIOUS
<1>12. CASE n \notin Left
  <2>1. n \notin lost /\ n \notin Arrived
    BY <1>12 DEF OnePlace
  <2>2. Whereabouts(n) = {<<"sender", n % NQueues>>}
    BY <2>1, <1>1, <1>8, <1>10, <1>11, <1>12, Zenon
  <2> QED
    BY <2>2, <1>2, Zenon
<1>13. CASE n \in lost
  <2>1. n \in Left /\ n \notin Arrived
    BY <1>13 DEF OnePlace
  <2>2. D = {<<"lost", n>>}
    BY <1>13
  <2> HIDE DEF A, B, C, D
  <2>3. Whereabouts(n) = {<<"lost", n>>}
    BY <2>1, <2>2, <1>1, <1>7, <1>10
  <2> QED
    BY <2>3, <1>2, Zenon
<1>14. ASSUME n \in Left, n \notin lost, NEW q \in Queues, n \in recvd_nums[q]
       PROVE  Cardinality(Whereabouts(n)) = 1
  <2>1. \A r \in Queues : S(r) = {} /\ (n \in recvd_nums[r] <=> r = q)
    BY <1>5, <1>14 DEF OnePlace
  <2>2. {p \in Queues : n \in recvd_nums[p]} = {q}
    BY <2>1
  <2>3. C = {<<"seen", q>>}
    BY <2>2
  <2> HIDE DEF S
  <2>4. B = {}
    BY <2>1
  <2> HIDE DEF A, B, C, D
  <2>5. Whereabouts(n) = {<<"seen", q>>}
    BY <2>3, <2>4, <1>1, <1>7, <1>11, <1>14
  <2> QED
    BY <2>5, <1>2, Zenon
<1>15. ASSUME n \in Left, n \notin lost, NEW q \in Queues, NEW k \in S(q)
       PROVE  Cardinality(Whereabouts(n)) = 1
  <2>1. k \in 1 .. Len(waiting[q]) /\ waiting[q][k] = n /\ OnSocket(n, q)
    BY <1>4, <1>15 DEF OnSocket
  <2>2. \A r \in Queues : n \notin recvd_nums[r]
    BY <2>1 DEF OnePlace
  <2>3. C = {}
    BY <2>2
  <2>4. ASSUME NEW r \in Queues, NEW i \in S(r) PROVE r = q /\ i = k
    BY <2>1, <2>4, <1>3, <1>4 DEF OnePlace
  <2>5. S(q) = {k}
    BY <2>4, <1>15
  <2>6. \A r \in Queues : r # q => S(r) = {}
    BY <2>4
  <2> HIDE DEF S
  <2>7. B = {<<"socket", q, k>>}
    BY <2>5, <2>6
  <2> HIDE DEF A, B, C, D
  <2>8. Whereabouts(n) = {<<"socket", q, k>>}
    BY <2>3, <2>7, <1>1, <1>7, <1>11, <1>15
  <2> QED
    BY <2>8, <1>2, Zenon
<1>16. ASSUME n \in Left, n \notin lost PROVE Cardinality(Whereabouts(n)) = 1
  <2>1. PICK q \in Queues : n \in recvd_nums[q] \/ S(q) # {}
    BY <1>9, <1>16 DEF OnePlace
  <2>2. CASE n \in recvd_nums[q]
    BY <2>2, <1>14, <1>16
  <2>3. CASE S(q) # {}
    BY <2>3, <1>15, <1>16, Zenon
  <2> QED
    BY <2>1, <2>2, <2>3
<1> QED
  BY <1>12, <1>13, <1>16

\* A packet has one place on one socket.
LEMMA OnePlaceOf ==
  ASSUME OnePlace, NEW p \in Queues, NEW q \in Queues,
         NEW i \in 1 .. Len(waiting[p]), NEW j \in 1 .. Len(waiting[q]),
         waiting[p][i] = waiting[q][j], waiting[p][i] # Foreign
  PROVE  p = q /\ i = j
BY DEF OnePlace

\* What has left changes only with what was sent.
LEMMA SentSame ==
  ASSUME OwnPackets, UNCHANGED <<accepted, sent>> PROVE OwnPackets' /\ Left' = Left
<1>1. OwnPackets'
  BY DEF OwnPackets, SplitPkts
<1>2. Left' = Left
  BY DEF Left
<1> QED
  BY <1>1, <1>2

\* A packet that was seen is on no socket, and no other receiver saw it.
LEMMA SeenOnce ==
  ASSUME OnePlace, NEW p \in Queues, NEW q \in Queues, NEW n \in recvd_nums[p]
  PROVE  ~OnSocket(n, q) /\ (p # q => n \notin recvd_nums[q])
BY DEF OnePlace

\* So DevInv states what PacketsAccounted does.
LEMMA DevInvAccounts == DevInv => PacketsAccounted
BY PlacesExclusive DEF DevInv, Tally, PacketsAccounted

\* The places depend on the packets alone.
LEMMA SamePlaces ==
  ASSUME UNCHANGED <<accepted, sent, waiting, recvd_nums, lost>>
  PROVE  /\ Left' = Left /\ Arrived' = Arrived
         /\ OwnPackets' <=> OwnPackets
         /\ OnePlace' <=> OnePlace
<1>1. Left' = Left
  BY DEF Left
<1>2. \A n, q : OnSocket(n, q)' <=> OnSocket(n, q)
  BY DEF OnSocket
<1>3. Arrived' = Arrived
  BY <1>2 DEF Arrived
<1>4. OwnPackets' <=> OwnPackets
  BY DEF OwnPackets
<1>5. OnePlace' <=> OnePlace
  BY <1>1, <1>2, <1>3 DEF OnePlace
<1> QED
  BY <1>1, <1>3, <1>4, <1>5

\* Before a program starts none of its packets has left or arrived.
LEMMA NoneBefore ==
  ASSUME DevInv
  PROVE  /\ main["Tx"] = "start" => Cardinality(Left) = 0
         /\ main["Rx"] = "start" => Cardinality(Arrived) = 0
<1>1. Cardinality({}) = 0
  BY FS_EmptySet
<1>2. main["Tx"] = "start" => Left = {}
  BY DEF DevInv, Progress, OwnPackets, Left
<1>3. main["Rx"] = "start" => Arrived = {}
  BY DEF DevInv, Progress, Arrived, OnSocket
<1> QED
  BY <1>1, <1>2, <1>3

\* A program starts: the statistics it reads are the counters so far.
LEMMA SpawnInv == ASSUME DevInv, NEW m \in Modes, Spawn(m) PROVE DevInv'
<1>1. /\ UNCHANGED <<accepted, sent, waiting, recvd_nums, lost>>
      /\ UNCHANGED <<matched_recvd_pkts, n_missing, counter>>
      /\ main[m] = "start"
  BY DEF Spawn, txVars, rxVars, netVars
<1>2. Left' = Left /\ Arrived' = Arrived /\ OwnPackets' /\ OnePlace'
  BY <1>1, SamePlaces DEF DevInv
<1>3. \/ /\ main' = [main EXCEPT ![m] = "running"]
         /\ stats' = [stats EXCEPT ![m] = counter[m]]
         /\ thread' = [thread EXCEPT ![m] = [q \in Queues |-> "build"]]
      \/ main' = [main EXCEPT ![m] = "panic"] /\ stats' = stats /\ thread' = thread
  BY DEF Spawn, InterfaceStats, InterfaceStatsTx, InterfaceStatsRx, Modes
<1>4. DevType
  BY DEF DevInv
<1>5. DevType'
  <2>1. counter[m] \in Int
    BY <1>4 DEF DevType
  <2>2. /\ main' \in [Modes -> {"start", "running", "done", "panic"}]
        /\ stats' \in [Modes -> Int]
    BY <2>1, <1>3, <1>4, Zenon DEF DevType
  <2> DEFINE T == [Queues -> {"none", "build", "loop", "done", "panic"}]
             all == [q \in Queues |-> "build"]
  <2>3. all \in T /\ thread \in [Modes -> T]
    BY <1>4 DEF DevType
  <2>4. thread' = [thread EXCEPT ![m] = all] \/ thread' = thread
    BY <1>3
  <2> HIDE DEF T, all
  <2>5. thread' \in [Modes -> T]
    BY <2>3, <2>4
  <2> QED
    BY <2>2, <2>5, <1>1, <1>4 DEF DevType, T
<1>6. Progress'
  <2>1. \A x \in Modes : main'[x] = IF x = m THEN main'[m] ELSE main[x]
    BY <1>3, <1>4 DEF DevType
  <2>2. main'[m] \in {"running", "panic"}
    BY <1>3, <1>4 DEF DevType
  <2>3. \A x \in Modes, q \in Queues :
          thread'[x][q] = thread[x][q] \/ (x = m /\ thread'[x][q] = "build")
    BY <1>3, <1>4 DEF DevType
  <2> QED
    BY <2>1, <2>2, <2>3, <1>1 DEF DevInv, Progress, Modes
<1>7. Tally'
  <2>1. \A q \in Queues : thread'["Rx"][q] = "done" => thread["Rx"][q] = "done"
    BY <1>3, <1>4 DEF DevType, Modes
  <2> QED
    BY <2>1, <1>1 DEF DevInv, Tally
<1>8. Covered'
  <2>1. \A x \in Modes : x # m => main'[x] = main[x] /\ stats'[x] = stats[x]
    BY <1>3, <1>4 DEF DevType
  <2>2. (main'[m] = "running" /\ stats'[m] = counter[m]) \/ main'[m] = "panic"
    BY <1>3, <1>4 DEF DevType
  <2>3. counter["Tx"] \in Nat /\ counter["Rx"] \in Nat
    BY <1>4 DEF DevType, Modes
  <2>4. Covered
    BY DEF DevInv
  <2>5. CASE m = "Tx"
    <3>1. Cardinality(Left) = 0
      BY <2>5, <1>1, NoneBefore
    <3> QED
      BY <3>1, <2>1, <2>2, <2>3, <2>4, <2>5, <1>1, <1>2 DEF Covered, StatsCoverRun, Modes
  <2>6. CASE m = "Rx"
    <3>1. Cardinality(Arrived) = 0
      BY <2>6, <1>1, NoneBefore
    <3> QED
      BY <3>1, <2>1, <2>2, <2>3, <2>4, <2>6, <1>1, <1>2 DEF Covered, StatsCoverRun, Modes
  <2> QED
    BY <2>5, <2>6 DEF Modes
<1> QED
  BY <1>2, <1>5, <1>6, <1>7, <1>8 DEF DevInv

\* A step of the threads of one side, which ends none of them, and of their
\* program, which does not end well.
LEMMA ControlInv ==
  ASSUME DevInv, UNCHANGED <<accepted, sent, waiting, recvd_nums, lost>>,
         UNCHANGED <<matched_recvd_pkts, n_missing, counter, stats>>,
         NEW m \in Modes,
         main' = main \/ main' = [main EXCEPT ![m] = "panic"],
         thread' \in [Modes -> [Queues -> {"none", "build", "loop", "done", "panic"}]],
         \A x \in Modes, q \in Queues : thread'[x][q] = "done" => thread[x][q] = "done",
         \A x \in Modes : main'[x] \in {"start", "done"} => thread'[x] = thread[x]
  PROVE  DevInv'
<1>1. Left' = Left /\ Arrived' = Arrived /\ OwnPackets' /\ OnePlace'
  BY SamePlaces DEF DevInv
<1>2. DevType
  BY DEF DevInv
<1>3. DevType'
  BY <1>2, ZenonT(30) DEF DevType
<1>4. \A x \in Modes : main'[x] = main[x] \/ main'[x] = "panic"
  BY <1>2 DEF DevType
<1>5. Progress'
  BY <1>4 DEF DevInv, Progress, Modes
<1>6. Tally'
  BY DEF DevInv, Tally, Modes
<1>7. Covered'
  BY <1>1, <1>4 DEF DevInv, Covered, StatsCoverRun, Modes
<1> QED
  BY <1>1, <1>3, <1>5, <1>6, <1>7 DEF DevInv

\* A thread builds its socket or panics.
LEMMA BuildInv == ASSUME DevInv, NEW m \in Modes, NEW q \in Queues, Build(m, q) PROVE DevInv'
<1>1. /\ UNCHANGED <<accepted, sent, waiting, recvd_nums, lost>>
      /\ UNCHANGED <<matched_recvd_pkts, n_missing, counter, stats>>
      /\ main' = main /\ thread[m][q] = "build"
  BY DEF Build, txVars, rxVars, netVars
<1>2. DevType /\ Progress
  BY DEF DevInv
<1>3. \/ thread' = [thread EXCEPT ![m][q] = "loop"]
      \/ thread' = [thread EXCEPT ![m][q] = "panic"]
  BY DEF Build, SetThread
<1>4. /\ thread' \in [Modes -> [Queues -> {"none", "build", "loop", "done", "panic"}]]
      /\ \A x \in Modes, p \in Queues : thread'[x][p] = "done" => thread[x][p] = "done"
      /\ \A x \in Modes : x # m => thread'[x] = thread[x]
  <2>1. CASE thread' = [thread EXCEPT ![m][q] = "loop"]
    BY <2>1, <1>2 DEF DevType
  <2>2. CASE thread' = [thread EXCEPT ![m][q] = "panic"]
    BY <2>2, <1>2 DEF DevType
  <2> QED
    BY <2>1, <2>2, <1>3
<1>5. main[m] \notin {"start", "done"}
  BY <1>1, <1>2 DEF Progress, Modes
<1> QED
  BY <1>1, <1>4, <1>5, ControlInv

\* A program ends by the panic of a thread.
LEMMA JoinPanicInv == ASSUME DevInv, NEW m \in Modes, JoinPanic(m) PROVE DevInv'
<1> DEFINE T == [Queues -> {"none", "build", "loop", "done", "panic"}]
           none == [q \in Queues |-> "none"]
<1>1. /\ UNCHANGED <<accepted, sent, waiting, recvd_nums, lost>>
      /\ UNCHANGED <<matched_recvd_pkts, n_missing, counter, stats>>
      /\ main' = [main EXCEPT ![m] = "panic"] /\ thread' = [thread EXCEPT ![m] = none]
  BY Zenon DEF JoinPanic, txVars, rxVars, netVars
<1>2. DevType
  BY DEF DevInv
<1>3. none \in T /\ (\A q \in Queues : none[q] = "none") /\ thread \in [Modes -> T]
  BY <1>2 DEF DevType
<1> HIDE DEF T, none
<1>4. /\ thread' \in [Modes -> T] /\ thread'[m] = none
      /\ \A x \in Modes : x # m => thread'[x] = thread[x]
  BY <1>1, <1>3
<1>5. main'[m] = "panic"
  BY <1>1, <1>2 DEF DevType
<1>6. \A x \in Modes, q \in Queues : thread'[x][q] = "done" => thread[x][q] = "done"
  BY <1>3, <1>4
<1>7. \A x \in Modes : main'[x] \in {"start", "done"} => thread'[x] = thread[x]
  BY <1>4, <1>5
<1> QED
  BY <1>1, <1>4, <1>6, <1>7, ControlInv, Zenon DEF T

\* A thread of a program goes on or panics.
Survives(m, q) == thread' = thread \/ thread' = [thread EXCEPT ![m][q] = "panic"]

\* Neither ends a thread, nor starts one.
LEMMA ThreadSurvives ==
  ASSUME DevType, NEW m \in Modes, NEW q \in Queues, thread[m][q] = "loop", Survives(m, q)
  PROVE  /\ thread' \in [Modes -> [Queues -> {"none", "build", "loop", "done", "panic"}]]
         /\ \A x \in Modes : x # m => thread'[x] = thread[x]
         /\ \A x \in Modes, p \in Queues :
              /\ thread'[x][p] = "done" <=> thread[x][p] = "done"
              /\ thread[x][p] = "none" => thread'[x][p] = "none"
<1>1. CASE thread' = thread
  BY <1>1 DEF DevType
<1>2. CASE thread' = [thread EXCEPT ![m][q] = "panic"]
  BY <1>2 DEF DevType
<1> QED
  BY <1>1, <1>2 DEF Survives

\* put_batch_on_tx_queue touches no packet.
LEMMA PutBatchSurvives ==
  ASSUME NEW q, NEW k, NEW n, PutBatch(q, k, n) PROVE Survives("Tx", q)
BY Zenon DEF PutBatch, SetThread, Survives

\* Nor does drain when it submits the rest of a batch.
LEMMA DrainSubmitsInv == ASSUME DevInv, NEW q \in Queues, DrainSubmits(q) PROVE DevInv'
<1>1. /\ UNCHANGED <<accepted, sent, waiting, recvd_nums, lost>>
      /\ UNCHANGED <<main, matched_recvd_pkts, n_missing, counter, stats>>
      /\ thread["Tx"][q] = "loop"
  BY DEF DrainSubmits, rxVars, netVars
<1>2. Survives("Tx", q)
  BY PutBatchSurvives, Zenon DEF DrainSubmits
<1>3. DevType /\ Progress /\ "Tx" \in Modes
  BY DEF DevInv, Modes
<1>4. /\ thread' \in [Modes -> [Queues -> {"none", "build", "loop", "done", "panic"}]]
      /\ \A x \in Modes : x # "Tx" => thread'[x] = thread[x]
      /\ \A x \in Modes, p \in Queues : thread'[x][p] = "done" => thread[x][p] = "done"
  BY <1>1, <1>2, <1>3, ThreadSurvives, ZenonT(30)
<1>5. main["Tx"] \notin {"start", "done"}
  BY <1>1, <1>3 DEF Progress
<1> QED
  BY <1>1, <1>3, <1>4, <1>5, ControlInv

\* When all sending threads are done, every packet has left.
LEMMA AllLeft ==
  ASSUME DevInv, \A q \in Queues : thread["Tx"][q] = "done"
  PROVE  Cardinality(Left) = NPkts
<1>1. ASSUME NEW n \in Numbers PROVE n \in Left
  BY Owner DEF DevInv, Progress, Left
<1>2. Left = Numbers
  BY <1>1 DEF Left
<1> QED
  BY <1>2, NumbersFinite

\* The packets seen are among those that arrived.
LEMMA SeenArrived ==
  ASSUME DevType
  PROVE  /\ Cardinality(UNION {recvd_nums[r] : r \in Queues}) \in Nat
         /\ Cardinality(Arrived) \in Nat
         /\ Cardinality(UNION {recvd_nums[r] : r \in Queues}) <= Cardinality(Arrived)
<1> DEFINE U == UNION {recvd_nums[r] : r \in Queues}
<1>1. U \subseteq Arrived
  BY DEF DevType, Arrived
<1> HIDE DEF U
<1>2. Arrived \subseteq Numbers
  BY DEF Arrived
<1>3. IsFiniteSet(Arrived) /\ Cardinality(Arrived) \in Nat
  BY <1>2, NumbersFinite
<1>4. IsFiniteSet(U) /\ Cardinality(U) <= Cardinality(Arrived)
  BY <1>1, <1>3, FS_Subset
<1>5. Cardinality(U) \in Nat
  BY <1>4, FS_CardinalityType
<1> QED
  BY <1>3, <1>4, <1>5 DEF U

\* A program ends well: its threads have seen or sent what it reports.
LEMMA JoinInv == ASSUME DevInv, NEW m \in Modes, Join(m) PROVE DevInv'
<1>1. /\ UNCHANGED <<accepted, sent, waiting, recvd_nums, lost>>
      /\ UNCHANGED <<matched_recvd_pkts, n_missing, counter, thread>>
      /\ main[m] = "running" /\ \A q \in Queues : thread[m][q] = "done"
  BY DEF Join, txVars, rxVars, netVars
<1>2. \/ /\ main' = [main EXCEPT ![m] = "done"]
         /\ stats' = [stats EXCEPT ![m] = counter[m] - stats[m]]
      \/ main' = [main EXCEPT ![m] = "panic"] /\ stats' = stats
  BY DEF Join, StatsDiff, InterfaceStats, InterfaceStatsTx, InterfaceStatsRx, Modes
<1>3. DevType /\ Progress /\ Covered
  BY DEF DevInv
<1>4. Left' = Left /\ Arrived' = Arrived /\ OwnPackets' /\ OnePlace'
  BY <1>1, SamePlaces DEF DevInv
<1>5. counter[m] \in Nat /\ stats[m] \in Int /\ counter[m] - stats[m] \in Int
  BY <1>3 DEF DevType
<1>6. /\ main' \in [Modes -> {"start", "running", "done", "panic"}]
      /\ stats' \in [Modes -> Int]
  BY <1>2, <1>3, <1>5, ZenonT(30) DEF DevType
<1>7. DevType'
  BY <1>1, <1>3, <1>6 DEF DevType
<1>8. /\ \A x \in Modes : x # m => main'[x] = main[x] /\ stats'[x] = stats[x]
      /\ \/ main'[m] = "done" /\ stats'[m] = counter[m] - stats[m]
         \/ main'[m] = "panic"
  BY <1>2, <1>3 DEF DevType
<1>9. Progress'
  BY <1>1, <1>3, <1>8 DEF Progress, Modes
<1>10. Tally'
  BY <1>1 DEF DevInv, Tally
<1>11. Covered'
  <2>1. CASE m = "Tx"
    <3>1. Cardinality(Left) = NPkts
      BY <2>1, <1>1, AllLeft
    <3>2. main'["Tx"] = "done" => stats'["Tx"] >= NPkts
      BY <3>1, <2>1, <1>1, <1>3, <1>8 DEF Covered
    <3> QED
      BY <3>2, <2>1, <1>1, <1>3, <1>4, <1>8 DEF Covered, StatsCoverRun, Modes
  <2>2. CASE m = "Rx"
    <3>1. main'["Rx"] = "done" => stats'["Rx"] >= Cardinality(Arrived)
      BY <2>2, <1>1, <1>3, <1>8 DEF Covered
    <3>2. stats'["Rx"] \in Int
      BY <1>6 DEF Modes
    <3>3. main'["Rx"] = "done" => stats'["Rx"] >= Cardinality(UNION {recvd_nums[r] : r \in Queues})
      BY <3>1, <3>2, <1>3, SeenArrived
    <3> QED
      BY <3>3, <2>2, <1>1, <1>3, <1>4, <1>8 DEF Covered, StatsCoverRun, Modes
  <2> QED
    BY <2>1, <2>2 DEF Modes
<1> QED
  BY <1>4, <1>7, <1>9, <1>10, <1>11 DEF DevInv

\* A packet is accepted by its own queue.
LEMMA SendAppliedInv == ASSUME DevInv, NEW q \in Queues, SendApplied(q) PROVE DevInv'
<1>1. /\ UNCHANGED <<sent, waiting, recvd_nums, lost>>
      /\ UNCHANGED <<main, matched_recvd_pkts, n_missing, counter, stats>>
      /\ thread["Tx"][q] = "loop"
  BY DEF SendApplied, rxVars, netVars
<1>2. PICK i \in SplitPkts(q) : accepted' = [accepted EXCEPT ![q] = @ \cup {i}]
  BY Zenon DEF SendApplied
<1>3. DevType /\ OwnPackets /\ OnePlace /\ Progress /\ Tally /\ Covered
  BY DEF DevInv
<1>4. Survives("Tx", q)
  <2>1. PutBatch(q, Cardinality(accepted[q]) + 1, BatchSize) \/ UNCHANGED thread
    BY Zenon DEF SendApplied
  <2> QED
    BY <2>1, PutBatchSurvives, Zenon DEF Survives
<1>5. "Tx" \in Modes /\ "Rx" \in Modes
  BY DEF Modes
<1>6. /\ thread' \in [Modes -> [Queues -> {"none", "build", "loop", "done", "panic"}]]
       /\ \A x \in Modes, p \in Queues :
            /\ thread'[x][p] = "done" <=> thread[x][p] = "done"
            /\ thread[x][p] = "none" => thread'[x][p] = "none"
  BY <1>1, <1>3, <1>4, <1>5, ThreadSurvives, ZenonT(30)
<1>7. i \in Numbers /\ accepted' \in [Queues -> SUBSET Numbers]
  BY <1>2, <1>3 DEF DevType, SplitPkts
<1>8. \A p \in Queues : accepted'[p] = IF p = q THEN accepted[p] \cup {i} ELSE accepted[p]
  BY <1>2, <1>3, Zenon DEF DevType
<1>9. DevType'
  BY <1>1, <1>3, <1>7, <1>6, ZenonT(30) DEF DevType
<1>10. OwnPackets'
  <2>1. ASSUME NEW p \in Queues
        PROVE  sent'[p] \subseteq accepted'[p] /\ accepted'[p] \subseteq SplitPkts(p)
    <3>1. sent[p] \subseteq accepted[p] /\ accepted[p] \subseteq SplitPkts(p)
      BY <1>3 DEF OwnPackets
    <3> QED
      BY <3>1, <1>1, <1>2, <1>8
  <2> QED
    BY <2>1 DEF OwnPackets, SplitPkts
<1>11. Left' = Left
  BY <1>1 DEF Left
<1>12. \A n, p : OnSocket(n, p)' <=> OnSocket(n, p)
  BY <1>1 DEF OnSocket
<1>13. Arrived' = Arrived
  BY <1>1, <1>12 DEF Arrived
<1>14. OnePlace'
  BY <1>1, <1>3, <1>11, <1>12, <1>13 DEF OnePlace
<1>15. main["Tx"] # "start"
  BY <1>1, <1>3 DEF Progress
<1>16. Progress'
  BY <1>1, <1>3, <1>15, <1>5, <1>6 DEF Progress, SplitPkts
<1>17. Tally' /\ Covered'
  BY <1>1, <1>3, <1>11, <1>13, <1>5, <1>6 DEF Tally, Covered, StatsCoverRun
<1> QED
  BY <1>9, <1>10, <1>14, <1>16, <1>17, ZenonT(30) DEF DevInv

\* A sending thread ends when all that it accepted has left.
LEMMA DrainReturnsInv == ASSUME DevInv, NEW q \in Queues, DrainReturns(q) PROVE DevInv'
<1>1. /\ UNCHANGED <<accepted, sent, waiting, recvd_nums, lost>>
      /\ UNCHANGED <<main, matched_recvd_pkts, n_missing, counter, stats>>
      /\ thread["Tx"][q] = "loop" /\ sent[q] = SplitPkts(q)
      /\ thread' = [thread EXCEPT !["Tx"][q] = "done"]
  BY DEF DrainReturns, Drained, SetThread, txVars, rxVars, netVars
<1>2. DevType /\ Progress /\ Tally /\ Covered
  BY DEF DevInv
<1>3. Left' = Left /\ Arrived' = Arrived /\ OwnPackets' /\ OnePlace'
  BY <1>1, SamePlaces DEF DevInv
<1>4. /\ thread' \in [Modes -> [Queues -> {"none", "build", "loop", "done", "panic"}]]
      /\ thread'["Rx"] = thread["Rx"]
      /\ \A p \in Queues : thread'["Tx"][p] = IF p = q THEN "done" ELSE thread["Tx"][p]
  BY <1>1, <1>2 DEF DevType, Modes
<1>5. DevType'
  BY <1>1, <1>2, <1>4 DEF DevType
<1>6. Progress'
  <2>1. main["Tx"] # "start"
    BY <1>1, <1>2 DEF Progress
  <2>2. \A p \in Queues : thread'["Tx"][p] = "done" => sent[p] = SplitPkts(p)
    BY <1>1, <1>2, <1>4 DEF Progress
  <2>3. \A m \in Modes : main[m] = "done" => \A p \in Queues : thread'[m][p] = "done"
    BY <1>2, <1>4 DEF Progress, Modes
  <2> QED
    BY <2>1, <2>2, <2>3, <1>1, <1>2, <1>4 DEF Progress, SplitPkts
<1>7. Tally'
  BY <1>1, <1>2, <1>4 DEF Tally
<1>8. Covered'
  BY <1>1, <1>2, <1>3 DEF Covered, StatsCoverRun
<1> QED
  BY <1>3, <1>5, <1>6, <1>7, <1>8 DEF DevInv

\* A receiving thread counts the numbers it has not seen.
LEMMA CountMissingInv ==
  ASSUME DevInv, NEW r \in Queues, thread["Rx"][r] = "loop", CountMissing(r)
  PROVE  DevInv'
<1>1. /\ UNCHANGED <<accepted, sent, waiting, recvd_nums, lost>>
      /\ UNCHANGED <<main, matched_recvd_pkts, counter, stats>>
      /\ n_missing' = [n_missing EXCEPT ![r] = Cardinality(Numbers \ recvd_nums[r])]
      /\ thread' = [thread EXCEPT !["Rx"][r] = "done"]
  BY DEF CountMissing, SetThread, txVars, netVars
<1>2. DevType /\ Progress /\ Tally /\ Covered
  BY DEF DevInv
<1>3. Left' = Left /\ Arrived' = Arrived /\ OwnPackets' /\ OnePlace'
  BY <1>1, SamePlaces DEF DevInv
<1>4. /\ thread' \in [Modes -> [Queues -> {"none", "build", "loop", "done", "panic"}]]
      /\ thread'["Tx"] = thread["Tx"]
      /\ \A p \in Queues : thread'["Rx"][p] = IF p = r THEN "done" ELSE thread["Rx"][p]
  BY <1>1, <1>2 DEF DevType, Modes
<1>5. /\ Cardinality(Numbers \ recvd_nums[r]) = NPkts - Cardinality(recvd_nums[r])
      /\ Cardinality(Numbers \ recvd_nums[r]) \in Nat
  <2>1. recvd_nums[r] \subseteq Numbers
    BY <1>2 DEF DevType
  <2>2. Numbers \cap recvd_nums[r] = recvd_nums[r]
    BY <2>1
  <2>3. Cardinality(Numbers \ recvd_nums[r])
          = Cardinality(Numbers) - Cardinality(Numbers \cap recvd_nums[r])
    BY NumbersFinite, FS_Difference, Zenon
  <2>4. Cardinality(Numbers \ recvd_nums[r]) \in Nat
    BY NumbersFinite
  <2> QED
    BY <2>2, <2>3, <2>4, NumbersFinite
<1>6. /\ n_missing' \in [Queues -> Nat]
      /\ \A p \in Queues : n_missing'[p] = IF p = r THEN NPkts - Cardinality(recvd_nums[r])
                                                    ELSE n_missing[p]
  BY <1>1, <1>2, <1>5, Zenon DEF DevType
<1>7. DevType'
  BY <1>1, <1>2, <1>4, <1>6 DEF DevType
<1>8. Progress'
  <2>1. main["Rx"] # "start"
    BY <1>2 DEF Progress
  <2> QED
    BY <2>1, <1>1, <1>2, <1>4 DEF Progress, Modes, SplitPkts
<1>9. Tally'
  <2> SUFFICES ASSUME NEW p \in Queues
               PROVE  /\ matched_recvd_pkts'[p] = Cardinality(recvd_nums'[p])
                      /\ thread'["Rx"][p] = "done" =>
                           n_missing'[p] = NPkts - matched_recvd_pkts'[p]
    BY DEF Tally
  <2>1. matched_recvd_pkts'[p] = Cardinality(recvd_nums[p]) /\ recvd_nums' = recvd_nums
    BY <1>1, <1>2 DEF Tally
  <2>2. CASE p = r
    BY <2>1, <2>2, <1>6
  <2>3. CASE p # r
    BY <2>1, <2>3, <1>1, <1>2, <1>4, <1>6, ZenonT(30) DEF Tally
  <2> QED
    BY <2>2, <2>3
<1>10. Covered'
  BY <1>1, <1>2, <1>3 DEF Covered, StatsCoverRun
<1> QED
  BY <1>3, <1>7, <1>8, <1>9, <1>10 DEF DevInv

\* What is on the sockets after a packet arrives on socket r.
LEMMA SocketAppend ==
  ASSUME DevType, NEW r \in Queues, NEW n \in Numbers \cup {Foreign},
         waiting' = [waiting EXCEPT ![r] = Append(@, n)]
  PROVE  /\ waiting' \in [Queues -> Seq(Numbers \cup {Foreign})]
         /\ \A q \in Queues : q # r => waiting'[q] = waiting[q]
         /\ Len(waiting[r]) \in Nat /\ Len(waiting'[r]) = Len(waiting[r]) + 1
         /\ \A k \in 1 .. Len(waiting[r]) : waiting'[r][k] = waiting[r][k]
         /\ waiting'[r][Len(waiting[r]) + 1] = n
         /\ \A x, q : q \in Queues =>
              (OnSocket(x, q)' <=> (OnSocket(x, q) \/ (q = r /\ x = n)))
<1> DEFINE w == waiting[r]
<1>1. w \in Seq(Numbers \cup {Foreign}) /\ waiting \in [Queues -> Seq(Numbers \cup {Foreign})]
  BY DEF DevType
<1>2. /\ waiting'[r] = Append(w, n) /\ \A q \in Queues : q # r => waiting'[q] = waiting[q]
      /\ waiting' = [waiting EXCEPT ![r] = Append(w, n)]
  BY <1>1
<1>3. /\ Len(w) \in Nat /\ Len(Append(w, n)) = Len(w) + 1
      /\ Append(w, n) \in Seq(Numbers \cup {Foreign})
      /\ \A k \in 1 .. Len(w) : Append(w, n)[k] = w[k]
      /\ Append(w, n)[Len(w) + 1] = n
  BY <1>1
<1> HIDE DEF w
<1>4. waiting' \in [Queues -> Seq(Numbers \cup {Foreign})]
  BY <1>1, <1>2, <1>3
<1>5. ASSUME NEW x, NEW q \in Queues
      PROVE  OnSocket(x, q)' <=> (OnSocket(x, q) \/ (q = r /\ x = n))
  <2>1. CASE q # r
    BY <2>1, <1>2 DEF OnSocket
  <2>2. CASE q = r
    <3>1. OnSocket(x, q)' <=> \E k \in 1 .. Len(w) + 1 : Append(w, n)[k] = x
      BY <2>2, <1>2, <1>3, ZenonT(30) DEF OnSocket
    <3>2. OnSocket(x, q) <=> \E k \in 1 .. Len(w) : w[k] = x
      BY <2>2 DEF OnSocket, w
    <3> QED
      BY <3>1, <3>2, <2>2, <1>3
  <2> QED
    BY <2>1, <2>2
<1> QED
  BY <1>2, <1>3, <1>4, <1>5 DEF w

\* Other traffic takes a place on a socket and no number.
LEMMA ForeignArrivesInv == ASSUME DevInv, NEW r \in Queues, ForeignArrives(r) PROVE DevInv'
<1>1. /\ UNCHANGED <<accepted, sent, recvd_nums, lost>>
      /\ UNCHANGED <<main, thread, matched_recvd_pkts, n_missing, stats>>
      /\ thread["Rx"][r] = "loop"
      /\ waiting' = [waiting EXCEPT ![r] = Append(@, Foreign)]
      /\ counter' = [counter EXCEPT !["Rx"] = @ + 1]
  BY DEF ForeignArrives, Listening, txVars, rxVars
<1>2. DevType /\ OwnPackets /\ OnePlace /\ Progress /\ Tally /\ Covered
  BY DEF DevInv
<1>3. Foreign \in Numbers \cup {Foreign} /\ Foreign \notin Numbers
  BY NumbersFinite
<1>4. /\ waiting' \in [Queues -> Seq(Numbers \cup {Foreign})]
      /\ \A q \in Queues : q # r => waiting'[q] = waiting[q]
      /\ Len(waiting[r]) \in Nat /\ Len(waiting'[r]) = Len(waiting[r]) + 1
      /\ \A k \in 1 .. Len(waiting[r]) : waiting'[r][k] = waiting[r][k]
      /\ waiting'[r][Len(waiting[r]) + 1] = Foreign
  BY <1>1, <1>2, <1>3, SocketAppend, Zenon
<1>5. \A x, q : q \in Queues => (OnSocket(x, q)' <=> (OnSocket(x, q) \/ (q = r /\ x = Foreign)))
  BY <1>1, <1>2, <1>3, SocketAppend, Zenon
<1>6. counter["Rx"] \in Nat /\ counter' \in [Modes -> Nat]
      /\ counter'["Rx"] = counter["Rx"] + 1 /\ counter'["Tx"] = counter["Tx"]
  BY <1>1, <1>2 DEF DevType, Modes
<1>7. DevType'
  BY <1>1, <1>2, <1>4, <1>6 DEF DevType
<1>8. OwnPackets' /\ Left' = Left
  BY <1>1, <1>2, SentSame
<1>9. Arrived' = Arrived
  BY <1>1, <1>3, <1>5 DEF Arrived
<1>10. OnePlace'
  <2>1. ASSUME NEW p \in Queues, NEW q \in Queues, NEW n \in recvd_nums'[p]
        PROVE  ~OnSocket(n, q)' /\ (p # q => n \notin recvd_nums'[q])
    <3>1. n \in Numbers /\ n \in recvd_nums[p]
      BY <1>1, <1>2, <2>1 DEF DevType
    <3> QED
      BY <3>1, <1>1, <1>2, <1>3, <1>5, SeenOnce
  <2>2. ASSUME NEW q \in Queues, NEW i \in 1 .. Len(waiting'[q]), waiting'[q][i] # Foreign
        PROVE  i \in 1 .. Len(waiting[q]) /\ waiting'[q][i] = waiting[q][i]
    BY <2>2, <1>4
  <2>3. ASSUME NEW p \in Queues, NEW q \in Queues,
               NEW i \in 1 .. Len(waiting'[p]), NEW j \in 1 .. Len(waiting'[q]),
               waiting'[p][i] = waiting'[q][j], waiting'[p][i] # Foreign
        PROVE  p = q /\ i = j
    <3>1. i \in 1 .. Len(waiting[p]) /\ waiting'[p][i] = waiting[p][i]
      BY <2>2, <2>3
    <3>2. j \in 1 .. Len(waiting[q]) /\ waiting'[q][j] = waiting[q][j]
      BY <2>2, <2>3
    <3>3. waiting[p][i] = waiting[q][j] /\ waiting[p][i] # Foreign
      BY <3>1, <3>2, <2>3
    <3> QED
      BY <3>1, <3>2, <3>3, <1>2, OnePlaceOf
  <2>4. /\ \A n \in Left' : n \in lost' \/ n \in Arrived'
        /\ lost' \subseteq Left' /\ Arrived' \subseteq Left'
        /\ \A n \in lost' : n \notin Arrived'
    BY <1>1, <1>2, <1>8, <1>9 DEF OnePlace
  <2> QED
    BY <2>1, <2>3, <2>4 DEF OnePlace
<1>11. main["Rx"] # "start"
  BY <1>1, <1>2 DEF Progress
<1>12. Progress' /\ Tally'
  BY <1>1, <1>2, <1>11 DEF Progress, Tally, SplitPkts
<1>13. Covered'
  <2>1. stats["Rx"] \in Int /\ Cardinality(Arrived) \in Nat
    BY <1>2, SeenArrived DEF DevType, Modes
  <2> QED
    BY <2>1, <1>1, <1>2, <1>6, <1>8, <1>9 DEF Covered, StatsCoverRun
<1> QED
  BY <1>7, <1>8, <1>10, <1>12, <1>13 DEF DevInv

\* A packet that leaves has not left before and is nowhere else.
LEMMA Departure ==
  ASSUME DevInv, NEW q \in Queues, NEW n \in accepted[q] \ sent[q],
         sent' = [sent EXCEPT ![q] = @ \cup {n}], UNCHANGED accepted
  PROVE  /\ n \in Numbers /\ n \notin Left /\ n \notin lost /\ n \notin Arrived
         /\ sent' \in [Queues -> SUBSET Numbers] /\ OwnPackets'
         /\ Left' = Left \cup {n} /\ Cardinality(Left') = Cardinality(Left) + 1
         /\ Cardinality(Left) \in Nat
         /\ \A p \in Queues : thread["Tx"][p] = "done" => sent'[p] = SplitPkts(p)
<1>1. DevType /\ OwnPackets /\ OnePlace /\ Progress
  BY DEF DevInv
<1>2. n \in Numbers /\ n \in SplitPkts(q)
  BY <1>1 DEF DevType, OwnPackets
<1>3. /\ sent' \in [Queues -> SUBSET Numbers]
      /\ \A p \in Queues : sent'[p] = IF p = q THEN sent[p] \cup {n} ELSE sent[p]
  BY <1>1, <1>2, Zenon DEF DevType
<1>4. n \notin Left
  <2>1. ASSUME NEW p \in Queues, n \in sent[p] PROVE FALSE
    <3>1. n \in SplitPkts(p)
      BY <2>1, <1>1 DEF OwnPackets
    <3> QED
      BY <3>1, <2>1, <1>2, Owner
  <2> QED
    BY <2>1, Zenon DEF Left
<1>5. n \notin lost /\ n \notin Arrived
  BY <1>1, <1>4 DEF OnePlace
<1>6. OwnPackets'
  BY <1>1, <1>3 DEF OwnPackets, SplitPkts
<1>7. Left' = Left \cup {n}
  BY <1>2, <1>3 DEF Left, Numbers
<1>8. IsFiniteSet(Left) /\ Cardinality(Left) \in Nat
  BY NumbersFinite DEF Left
<1>9. Cardinality(Left \cup {n}) = Cardinality(Left) + 1
  BY <1>4, <1>8, FS_AddElement, Zenon
<1>10. ASSUME NEW p \in Queues, thread["Tx"][p] = "done" PROVE sent'[p] = SplitPkts(p)
  <2>1. sent[p] = SplitPkts(p)
    BY <1>1, <1>10 DEF Progress
  <2>2. p # q
    BY <2>1, <1>2
  <2> QED
    BY <2>1, <2>2, <1>3
<1> QED
  BY <1>2, <1>3, <1>4, <1>5, <1>6, <1>7, <1>8, <1>9, <1>10, ZenonT(30)

\* A packet is lost.
LEMMA LostInv ==
  ASSUME DevInv, NEW q \in Queues, NEW n \in accepted[q] \ sent[q],
         sent' = [sent EXCEPT ![q] = @ \cup {n}], lost' = lost \cup {n},
         counter' \in [Modes -> Nat], counter'["Tx"] = counter["Tx"] + 1,
         counter'["Rx"] \in {counter["Rx"], counter["Rx"] + 1},
         UNCHANGED <<accepted, waiting, recvd_nums, main, thread, stats>>,
         UNCHANGED <<matched_recvd_pkts, n_missing>>
  PROVE  DevInv'
<1>1. DevType /\ OwnPackets /\ OnePlace /\ Progress /\ Tally /\ Covered
  BY DEF DevInv
<1>2. n \in Numbers /\ n \notin Left /\ n \notin lost /\ n \notin Arrived
  BY Departure, Zenon
<1>3. sent' \in [Queues -> SUBSET Numbers] /\ OwnPackets'
      /\ \A p \in Queues : thread["Tx"][p] = "done" => sent'[p] = SplitPkts(p)
  BY Departure, Zenon
<1>4. /\ Left' = Left \cup {n} /\ Cardinality(Left') = Cardinality(Left) + 1
      /\ Cardinality(Left) \in Nat
  BY Departure, Zenon
<1>5. DevType'
  BY <1>1, <1>2, <1>3, ZenonT(30) DEF DevType
<1>6. \A x, p : OnSocket(x, p)' <=> OnSocket(x, p)
  BY ZenonT(30) DEF OnSocket
<1>7. Arrived' = Arrived
  BY <1>6, ZenonT(30) DEF Arrived
<1>8. OnePlace'
  <2>1. /\ \A x \in Left' : x \in lost' \/ x \in Arrived'
        /\ lost' \subseteq Left' /\ Arrived' \subseteq Left'
        /\ \A x \in lost' : x \notin Arrived'
    BY <1>1, <1>2, <1>4, <1>7, Zenon DEF OnePlace
  <2> QED
    BY <2>1, <1>1, <1>6 DEF OnePlace
<1>9. Progress'
  BY <1>1, <1>3 DEF Progress, SplitPkts
<1>10. Tally'
  BY <1>1, ZenonT(30) DEF Tally
<1>11. Covered'
  <2>1. /\ stats["Tx"] \in Int /\ stats["Rx"] \in Int /\ Cardinality(Arrived) \in Nat
        /\ counter["Tx"] \in Nat /\ counter["Rx"] \in Nat
    BY <1>1, SeenArrived, ZenonT(30) DEF DevType, Modes
  <2> QED
    BY <2>1, <1>1, <1>4, <1>7 DEF Covered, StatsCoverRun
<1> QED
  BY <1>3, <1>5, <1>8, <1>9, <1>10, <1>11 DEF DevInv

\* A packet arrives on socket r.
LEMMA ArrivalInv ==
  ASSUME DevInv, NEW q \in Queues, NEW n \in accepted[q] \ sent[q], NEW r \in Queues,
         thread["Rx"][r] = "loop",
         sent' = [sent EXCEPT ![q] = @ \cup {n}],
         waiting' = [waiting EXCEPT ![r] = Append(@, n)],
         counter' = [m \in Modes |-> counter[m] + 1],
         UNCHANGED <<accepted, lost, recvd_nums, main, thread, stats>>,
         UNCHANGED <<matched_recvd_pkts, n_missing>>
  PROVE  DevInv'
<1>1. DevType /\ OwnPackets /\ OnePlace /\ Progress /\ Tally /\ Covered
  BY ZenonT(30) DEF DevInv
<1>2. n \in Numbers /\ n \notin Left /\ n \notin lost /\ n \notin Arrived
  BY Departure, Zenon
<1>3. sent' \in [Queues -> SUBSET Numbers] /\ OwnPackets'
      /\ \A p \in Queues : thread["Tx"][p] = "done" => sent'[p] = SplitPkts(p)
  BY Departure, Zenon
<1>4. /\ Left' = Left \cup {n} /\ Cardinality(Left') = Cardinality(Left) + 1
      /\ Cardinality(Left) \in Nat
  BY Departure, Zenon
<1>5. /\ waiting' \in [Queues -> Seq(Numbers \cup {Foreign})]
      /\ \A p \in Queues : p # r => waiting'[p] = waiting[p]
      /\ Len(waiting[r]) \in Nat /\ Len(waiting'[r]) = Len(waiting[r]) + 1
      /\ \A k \in 1 .. Len(waiting[r]) : waiting'[r][k] = waiting[r][k]
      /\ waiting'[r][Len(waiting[r]) + 1] = n
  BY <1>1, <1>2, SocketAppend, ZenonT(30)
<1>6. \A x, p : p \in Queues => (OnSocket(x, p)' <=> (OnSocket(x, p) \/ (p = r /\ x = n)))
  BY <1>1, <1>2, SocketAppend, ZenonT(30)
<1>7. /\ counter["Rx"] \in Nat /\ counter["Tx"] \in Nat /\ counter' \in [Modes -> Nat]
      /\ counter'["Rx"] = counter["Rx"] + 1 /\ counter'["Tx"] = counter["Tx"] + 1
  BY <1>1 DEF DevType, Modes
<1>8. DevType'
  BY <1>1, <1>3, <1>5, <1>7, Zenon DEF DevType
<1>9. Arrived' = Arrived \cup {n}
  BY <1>2, <1>6, ZenonT(30) DEF Arrived
<1>10. \A p \in Queues : n \notin recvd_nums[p] /\ ~OnSocket(n, p)
  BY <1>2 DEF Arrived
<1>11. OnePlace'
  <2>1. ASSUME NEW s \in Queues, NEW p \in Queues, NEW x \in recvd_nums'[s]
        PROVE  ~OnSocket(x, p)' /\ (s # p => x \notin recvd_nums'[p])
    <3>1. x \in recvd_nums[s] /\ x # n
      BY <2>1, <1>10, ZenonT(30)
    <3>2. ~OnSocket(x, p) /\ (s # p => x \notin recvd_nums[p])
      BY <3>1, <1>1, SeenOnce, ZenonT(30)
    <3> QED
      BY <3>1, <3>2, <1>6
  <2>2. ASSUME NEW p \in Queues, NEW i \in 1 .. Len(waiting'[p])
        PROVE  \/ /\ i \in 1 .. Len(waiting[p]) /\ waiting'[p][i] = waiting[p][i]
                  /\ waiting'[p][i] # n
               \/ p = r /\ i = Len(waiting[r]) + 1 /\ waiting'[p][i] = n
    <3>1. ASSUME i \in 1 .. Len(waiting[p]) PROVE waiting[p][i] # n
      BY <3>1, <1>10 DEF OnSocket
    <3>2. CASE p = r
      <4>1. i \in 1 .. Len(waiting[r]) \/ i = Len(waiting[r]) + 1
        BY <3>2, <1>5
      <4> QED
        BY <4>1, <3>1, <3>2, <1>5
    <3>3. CASE p # r
      BY <3>1, <3>3, <1>5
    <3> QED
      BY <3>2, <3>3
  <2>3. ASSUME NEW s \in Queues, NEW p \in Queues,
               NEW i \in 1 .. Len(waiting'[s]), NEW j \in 1 .. Len(waiting'[p]),
               waiting'[s][i] = waiting'[p][j], waiting'[s][i] # Foreign
        PROVE  s = p /\ i = j
    <3>1. CASE waiting'[s][i] = n
      BY <3>1, <2>2, <2>3
    <3>2. CASE waiting'[s][i] # n
      <4>1. i \in 1 .. Len(waiting[s]) /\ waiting'[s][i] = waiting[s][i]
        BY <3>2, <2>2, <2>3, ZenonT(30)
      <4>2. j \in 1 .. Len(waiting[p]) /\ waiting'[p][j] = waiting[p][j]
        BY <3>2, <2>2, <2>3
      <4>3. waiting[s][i] = waiting[p][j] /\ waiting[s][i] # Foreign
        BY <4>1, <4>2, <2>3
      <4> QED
        BY <4>1, <4>2, <4>3, <1>1, OnePlaceOf
    <3> QED
      BY <3>1, <3>2
  <2>4. /\ \A x \in Left' : x \in lost' \/ x \in Arrived'
        /\ lost' \subseteq Left' /\ Arrived' \subseteq Left'
        /\ \A x \in lost' : x \notin Arrived'
    BY <1>1, <1>2, <1>4, <1>9, ZenonT(30) DEF OnePlace
  <2> QED
    BY <2>1, <2>3, <2>4 DEF OnePlace
<1>12. main["Rx"] # "start"
  BY <1>1 DEF Progress
<1>13. Progress'
  BY <1>1, <1>3, <1>12 DEF Progress, SplitPkts
<1>14. Tally'
  BY <1>1, ZenonT(30) DEF Tally
<1>15. Covered'
  <2>1. /\ stats["Tx"] \in Int /\ stats["Rx"] \in Int /\ Cardinality(Arrived) \in Nat
    BY <1>1, SeenArrived, ZenonT(30) DEF DevType, Modes
  <2>2. IsFiniteSet(Arrived)
    BY NumbersFinite, Zenon DEF Arrived
  <2>3. Cardinality(Arrived \cup {n}) = Cardinality(Arrived) + 1
    BY <2>2, <1>2, FS_AddElement, Zenon
  <2>4. main'["Tx"] = "running" => counter'["Tx"] - stats'["Tx"] >= Cardinality(Left')
    BY <2>1, <1>1, <1>4, <1>7 DEF Covered
  <2>5. main'["Rx"] = "running" => counter'["Rx"] - stats'["Rx"] >= Cardinality(Arrived')
    BY <2>1, <2>3, <1>1, <1>7, <1>9 DEF Covered
  <2>6. StatsCoverRun'
    BY <1>1 DEF Covered, StatsCoverRun
  <2> QED
    BY <2>4, <2>5, <2>6 DEF Covered
<1> QED
  BY <1>3, <1>8, <1>11, <1>13, <1>14, <1>15, ZenonT(30) DEF DevInv

\* A transmitted packet arrives or is lost.
LEMMA TransmitInv ==
  ASSUME DevInv, NEW q \in Queues, NEW r \in Queues, Transmit(q, r) PROVE DevInv'
<1>1. PICK n \in accepted[q] \ sent[q] :
        /\ sent' = [sent EXCEPT ![q] = @ \cup {n}]
        /\ \/ /\ Listening(r)
              /\ waiting' = [waiting EXCEPT ![r] = Append(@, n)]
              /\ counter' = [m \in Modes |-> counter[m] + 1]
              /\ UNCHANGED lost
           \/ /\ lost' = lost \cup {n}
              /\ \/ counter' = [counter EXCEPT !["Tx"] = @ + 1]
                 \/ counter' = [m \in Modes |-> counter[m] + 1]
              /\ UNCHANGED waiting
        /\ UNCHANGED <<main, thread, accepted, rxVars, foreign, stats>>
  BY Zenon DEF Transmit
<1>2. UNCHANGED <<main, thread, accepted, recvd_nums, matched_recvd_pkts, n_missing, stats>>
  BY <1>1 DEF rxVars
<1>3. CASE /\ Listening(r)
           /\ waiting' = [waiting EXCEPT ![r] = Append(@, n)]
           /\ counter' = [m \in Modes |-> counter[m] + 1]
           /\ UNCHANGED lost
  BY <1>1, <1>2, <1>3, ArrivalInv, ZenonT(30) DEF Listening
<1>4. CASE /\ lost' = lost \cup {n}
           /\ \/ counter' = [counter EXCEPT !["Tx"] = @ + 1]
              \/ counter' = [m \in Modes |-> counter[m] + 1]
           /\ UNCHANGED waiting
  <2>1. counter \in [Modes -> Nat]
    BY DEF DevInv, DevType
  <2>2. /\ counter' \in [Modes -> Nat] /\ counter'["Tx"] = counter["Tx"] + 1
        /\ counter'["Rx"] \in {counter["Rx"], counter["Rx"] + 1}
    BY <2>1, <1>4 DEF Modes
  <2> QED
    BY <2>2, <1>1, <1>2, <1>4, LostInv, Zenon
<1> QED
  BY <1>1, <1>3, <1>4, Zenon

\* What a receiver counts is what it sees for the first time.
LEMMA MatchingCounts ==
  ASSUME DevType, OnePlace, NEW r \in Queues, NEW k \in 0 .. Len(waiting[r])
  PROVE  LET new == {waiting[r][i] : i \in Matching(r, k)} IN
         /\ new \subseteq Numbers /\ IsFiniteSet(Matching(r, k))
         /\ Cardinality(Matching(r, k)) \in Nat
         /\ Cardinality(recvd_nums[r] \cup new)
              = Cardinality(recvd_nums[r]) + Cardinality(Matching(r, k))
<1> DEFINE G == Matching(r, k)
           new == {waiting[r][i] : i \in G}
           f == [i \in G |-> waiting[r][i]]
<1>1. waiting[r] \in Seq(Numbers \cup {Foreign}) /\ Len(waiting[r]) \in Nat
  BY DEF DevType
<1>2. k \in Nat /\ G \subseteq 1 .. k /\ G \subseteq 1 .. Len(waiting[r])
  BY <1>1 DEF Matching
<1>3. \A i \in G : waiting[r][i] \in Numbers
  BY <1>1, <1>2 DEF Matching, FilterPkt
<1>4. IsFiniteSet(1 .. k)
  BY <1>2, FS_Interval
<1>5. IsFiniteSet(G) /\ Cardinality(G) \in Nat
  BY <1>2, <1>4, FS_Subset, FS_CardinalityType
<1>6. \A i, j \in G : waiting[r][i] = waiting[r][j] => i = j
  BY <1>2, <1>3, NumbersFinite, ZenonT(30) DEF OnePlace
<1>7. \A i \in G : waiting[r][i] \notin recvd_nums[r]
  BY <1>2 DEF OnePlace, OnSocket
<1> HIDE DEF G
<1>8. f \in Bijection(G, new)
  <2>1. f \in [G -> new] /\ \A i, j \in G : f[i] = f[j] => i = j
    BY <1>6
  <2>2. \A x \in new : \E i \in G : f[i] = x
    OBVIOUS
  <2> HIDE DEF f, new
  <2> QED
    BY <2>1, <2>2 DEF Bijection, Injection, Surjection, IsInjective
<1>9. Cardinality(new) = Cardinality(G) /\ IsFiniteSet(new)
  BY <1>5, <1>8, FS_Bijection DEF ExistsBijection
<1>10. new \subseteq Numbers
  BY <1>3
<1>11. recvd_nums[r] \cap new = {}
  BY <1>7
<1> HIDE DEF new
<1>12. IsFiniteSet(recvd_nums[r]) /\ Cardinality(recvd_nums[r]) \in Nat
  BY NumbersFinite DEF DevType
<1>13. Cardinality(recvd_nums[r] \cup new)
         = Cardinality(recvd_nums[r]) + Cardinality(new) - Cardinality(recvd_nums[r] \cap new)
  BY <1>9, <1>12, FS_Union
<1>14. Cardinality(recvd_nums[r] \cap new) = 0
  BY <1>11, FS_EmptySet, Zenon
<1>15. Cardinality(recvd_nums[r] \cup new) = Cardinality(recvd_nums[r]) + Cardinality(G)
  BY <1>5, <1>9, <1>12, <1>13, <1>14
<1> QED
  BY <1>5, <1>10, <1>15 DEF G, new

\* What is on the sockets after the first k packets of socket r are taken.
LEMMA SocketTaken ==
  ASSUME DevType, NEW r \in Queues, NEW k \in 0 .. Len(waiting[r]),
         waiting' = [waiting EXCEPT ![r] = SubSeq(@, k + 1, Len(@))]
  PROVE  /\ waiting' \in [Queues -> Seq(Numbers \cup {Foreign})]
         /\ \A q \in Queues : q # r => waiting'[q] = waiting[q]
         /\ Len(waiting[r]) \in Nat /\ Len(waiting'[r]) = Len(waiting[r]) - k
         /\ \A i \in 1 .. Len(waiting[r]) - k : waiting'[r][i] = waiting[r][i + k]
<1> DEFINE w == waiting[r]
           t == SubSeq(w, k + 1, Len(w))
<1>1. w \in Seq(Numbers \cup {Foreign}) /\ waiting \in [Queues -> Seq(Numbers \cup {Foreign})]
  BY DEF DevType
<1>2. /\ waiting'[r] = t /\ \A q \in Queues : q # r => waiting'[q] = waiting[q]
      /\ waiting' = [waiting EXCEPT ![r] = t]
  BY <1>1
<1>3. Len(w) \in Nat /\ k \in 0 .. Len(w)
  BY <1>1
<1> HIDE DEF w
<1>4. t = [i \in 1 .. Len(w) - k |-> w[i + k]]
  BY <1>1, <1>3, SMT
<1>5. Len(w) - k \in Nat /\ \A i \in 1 .. Len(w) - k : w[i + k] \in Numbers \cup {Foreign}
  BY <1>1, <1>3
<1> HIDE DEF t
<1>6. t \in Seq(Numbers \cup {Foreign}) /\ Len(t) = Len(w) - k
  BY <1>4, <1>5
<1>7. \A i \in 1 .. Len(w) - k : t[i] = w[i + k]
  BY <1>4
<1>8. waiting' \in [Queues -> Seq(Numbers \cup {Foreign})]
  BY <1>1, <1>2, <1>6
<1> QED
  BY <1>2, <1>3, <1>6, <1>7, <1>8 DEF w

\* A receiving thread takes the first packets of its socket, and goes on or
\* panics.
LEMMA RecvApplyInv ==
  ASSUME DevInv, NEW r \in Queues, NEW k, RecvApply(r, k), Survives("Rx", r)
  PROVE  DevInv'
<1> DEFINE new == {waiting[r][i] : i \in Matching(r, k)}
<1>1. /\ UNCHANGED <<accepted, sent, lost>>
      /\ UNCHANGED <<main, n_missing, counter, stats>>
      /\ thread["Rx"][r] = "loop" /\ k \in 0 .. Len(waiting[r])
      /\ recvd_nums' = [recvd_nums EXCEPT ![r] = @ \cup new]
      /\ matched_recvd_pkts' =
           [matched_recvd_pkts EXCEPT ![r] = @ + Cardinality(Matching(r, k))]
      /\ waiting' = [waiting EXCEPT ![r] = SubSeq(@, k + 1, Len(@))]
  BY DEF RecvApply, txVars
<1>2. DevType /\ OwnPackets /\ OnePlace /\ Progress /\ Tally /\ Covered
  BY DEF DevInv
<1>3. "Tx" \in Modes /\ "Rx" \in Modes
  BY DEF Modes
<1>4. /\ thread' \in [Modes -> [Queues -> {"none", "build", "loop", "done", "panic"}]]
       /\ \A x \in Modes, p \in Queues :
            /\ thread'[x][p] = "done" <=> thread[x][p] = "done"
            /\ thread[x][p] = "none" => thread'[x][p] = "none"
  BY <1>1, <1>2, <1>3, ThreadSurvives, ZenonT(30)
<1>5. /\ new \subseteq Numbers /\ Cardinality(Matching(r, k)) \in Nat
      /\ Cardinality(recvd_nums[r] \cup new)
           = Cardinality(recvd_nums[r]) + Cardinality(Matching(r, k))
  BY <1>1, <1>2, MatchingCounts, ZenonT(30)
<1>6. /\ waiting' \in [Queues -> Seq(Numbers \cup {Foreign})]
      /\ \A q \in Queues : q # r => waiting'[q] = waiting[q]
      /\ Len(waiting[r]) \in Nat /\ Len(waiting'[r]) = Len(waiting[r]) - k
      /\ \A i \in 1 .. Len(waiting[r]) - k : waiting'[r][i] = waiting[r][i + k]
  BY <1>1, <1>2, SocketTaken, Zenon
<1>7. \A x : x \in new <=> x # Foreign /\ \E i \in 1 .. k : waiting[r][i] = x
  BY DEF Matching, FilterPkt
<1> HIDE DEF new
<1>8. /\ recvd_nums' \in [Queues -> SUBSET Numbers]
      /\ recvd_nums'[r] = recvd_nums[r] \cup new
      /\ \A q \in Queues : q # r => recvd_nums'[q] = recvd_nums[q]
  BY <1>1, <1>2, <1>5 DEF DevType
<1>9. /\ matched_recvd_pkts' \in [Queues -> Nat]
      /\ matched_recvd_pkts'[r] = matched_recvd_pkts[r] + Cardinality(Matching(r, k))
      /\ \A q \in Queues : q # r => matched_recvd_pkts'[q] = matched_recvd_pkts[q]
  BY <1>1, <1>2, <1>5 DEF DevType
<1>10. DevType'
  BY <1>1, <1>2, <1>6, <1>8, <1>9, <1>4, ZenonT(30) DEF DevType
<1>11. OwnPackets' /\ Left' = Left
  BY <1>1, <1>2, SentSame, ZenonT(30)
\* An entry of a socket was there before, at a place of its own.
<1>12. ASSUME NEW q \in Queues, NEW i \in 1 .. Len(waiting'[q])
       PROVE  LET h == IF q = r THEN i + k ELSE i IN
              h \in 1 .. Len(waiting[q]) /\ waiting'[q][i] = waiting[q][h]
  <2>1. CASE q = r
    BY <2>1, <1>1, <1>6, <1>12
  <2>2. CASE q # r
    BY <2>2, <1>6, <1>12
  <2> QED
    BY <2>1, <2>2
<1>13. ASSUME NEW x, NEW q \in Queues PROVE OnSocket(x, q)' => OnSocket(x, q)
  BY <1>12 DEF OnSocket
<1>14. ASSUME NEW x, x # Foreign PROVE OnSocket(x, r) <=> (OnSocket(x, r)' \/ x \in new)
  <2>1. ASSUME NEW i \in 1 .. Len(waiting[r]), i \notin 1 .. k
        PROVE  i - k \in 1 .. Len(waiting'[r]) /\ waiting'[r][i - k] = waiting[r][i]
    <3>1. i - k \in 1 .. Len(waiting[r]) - k /\ (i - k) + k = i
      BY <2>1, <1>1, <1>6
    <3> QED
      BY <3>1, <1>6
  <2>2. OnSocket(x, r) => (OnSocket(x, r)' \/ x \in new)
    BY <2>1, <1>7, <1>14 DEF OnSocket
  <2>3. x \in new => OnSocket(x, r)
    BY <1>1, <1>6, <1>7 DEF OnSocket
  <2> QED
    BY <2>2, <2>3, <1>13
<1>15. ASSUME NEW q \in Queues, q # r, NEW x PROVE OnSocket(x, q)' <=> OnSocket(x, q)
  BY <1>6, <1>15 DEF OnSocket
<1>16. Arrived' = Arrived
  <2>1. ASSUME NEW x \in Numbers, NEW q \in Queues
        PROVE  (x \in recvd_nums[q] \/ OnSocket(x, q)) <=> (x \in recvd_nums'[q] \/ OnSocket(x, q)')
    <3>1. CASE q = r
      BY <3>1, <1>8, <1>14, NumbersFinite, ZenonT(30)
    <3>2. CASE q # r
      BY <3>2, <1>8, <1>15, Zenon
    <3> QED
      BY <3>1, <3>2
  <2> QED
    BY <2>1, ZenonT(30) DEF Arrived
<1>17. OnePlace'
  <2>1. ASSUME NEW q \in Queues, NEW i \in 1 .. Len(waiting'[q]), waiting'[q][i] # Foreign
        PROVE  waiting'[q][i] \notin new
    <3> DEFINE h == IF q = r THEN i + k ELSE i
    <3>1. h \in 1 .. Len(waiting[q]) /\ waiting'[q][i] = waiting[q][h]
      BY <1>12
    <3>2. ASSUME NEW j \in 1 .. k, waiting[r][j] = waiting[q][h] PROVE FALSE
      <4>1. j \in 1 .. Len(waiting[r])
        BY <1>1, <1>6
      <4>2. q = r /\ h = j
        BY <4>1, <3>1, <3>2, <2>1, <1>2 DEF OnePlace
      <4> QED
        BY <4>2, <1>1
    <3> QED
      BY <3>1, <3>2, <1>7
  <2>2. ASSUME NEW x \in new, NEW q \in Queues PROVE ~OnSocket(x, q)'
    <3>1. x # Foreign
      BY <1>7
    <3> QED
      BY <3>1, <2>1 DEF OnSocket
  <2>3. ASSUME NEW x \in new, NEW q \in Queues PROVE x \notin recvd_nums[q]
    <3>1. OnSocket(x, r)
      BY <1>7, <1>14
    <3> QED
      BY <3>1, <1>2 DEF OnePlace
  <2>4. ASSUME NEW p \in Queues, NEW q \in Queues, NEW x \in recvd_nums'[p]
        PROVE  ~OnSocket(x, q)' /\ (p # q => x \notin recvd_nums'[q])
    <3>1. CASE x \in recvd_nums[p]
      <4>1. ~OnSocket(x, q) /\ (p # q => x \notin recvd_nums[q])
        BY <3>1, <1>2 DEF OnePlace
      <4> QED
        BY <4>1, <3>1, <2>3, <1>8, <1>13
    <3>2. CASE x \in new /\ p = r
      BY <3>2, <2>2, <2>3, <1>8
    <3> QED
      BY <3>1, <3>2, <1>8, ZenonT(30)
  <2>5. ASSUME NEW p \in Queues, NEW q \in Queues,
               NEW i \in 1 .. Len(waiting'[p]), NEW j \in 1 .. Len(waiting'[q]),
               waiting'[p][i] = waiting'[q][j], waiting'[p][i] # Foreign
        PROVE  p = q /\ i = j
    <3> DEFINE g == IF p = r THEN i + k ELSE i
               h == IF q = r THEN j + k ELSE j
    <3>1. g \in 1 .. Len(waiting[p]) /\ waiting'[p][i] = waiting[p][g]
      BY <1>12
    <3>2. h \in 1 .. Len(waiting[q]) /\ waiting'[q][j] = waiting[q][h]
      BY <1>12
    <3> HIDE DEF g, h
    <3>3. p = q /\ g = h
      <4>1. waiting[p][g] = waiting[q][h] /\ waiting[p][g] # Foreign
        BY <3>1, <3>2, <2>5
      <4> QED
        BY <4>1, <3>1, <3>2, <1>2, OnePlaceOf
    <3>4. i \in Int /\ j \in Int /\ k \in Int
      BY <1>1
    <3> QED
      BY <3>3, <3>4 DEF g, h
  <2>6. /\ \A x \in Left' : x \in lost' \/ x \in Arrived'
        /\ lost' \subseteq Left' /\ Arrived' \subseteq Left'
        /\ \A x \in lost' : x \notin Arrived'
    BY <1>1, <1>2, <1>11, <1>16, ZenonT(30) DEF OnePlace
  <2> QED
    BY <2>4, <2>5, <2>6 DEF OnePlace
<1>18. main["Rx"] \notin {"start", "done"}
  BY <1>1, <1>2 DEF Progress, Modes
<1>19. Progress'
  BY <1>1, <1>2, <1>18, <1>3, <1>4, ZenonT(30) DEF Progress, SplitPkts
<1>20. Tally'
  <2> SUFFICES ASSUME NEW q \in Queues
               PROVE  /\ matched_recvd_pkts'[q] = Cardinality(recvd_nums'[q])
                      /\ thread'["Rx"][q] = "done" =>
                           n_missing'[q] = NPkts - matched_recvd_pkts'[q]
    BY DEF Tally
  <2>1. CASE q = r
    BY <2>1, <1>1, <1>2, <1>5, <1>8, <1>9, <1>3, <1>4, ZenonT(30) DEF Tally
  <2>2. CASE q # r
    BY <2>2, <1>1, <1>2, <1>8, <1>9, <1>3, <1>4, ZenonT(30) DEF Tally
  <2> QED
    BY <2>1, <2>2, ZenonT(30)
<1>21. Covered'
  BY <1>1, <1>2, <1>11, <1>16, <1>18, ZenonT(30) DEF Covered, StatsCoverRun
<1> QED
  BY <1>10, <1>11, <1>17, <1>19, <1>20, <1>21 DEF DevInv

\* Before the programs start nothing has happened.
LEMMA DevInitInv == DevInit => DevInv
<1> SUFFICES ASSUME DevInit PROVE DevInv
  OBVIOUS
<1>1. /\ \A m \in Modes : main[m] = "start" /\ counter[m] = 0 /\ stats[m] = 0
      /\ \A m \in Modes, q \in Queues : thread[m][q] = "none"
      /\ \A q \in Queues : /\ accepted[q] = {} /\ sent[q] = {} /\ waiting[q] = <<>>
                           /\ recvd_nums[q] = {} /\ matched_recvd_pkts[q] = 0
      /\ lost = {}
  BY DEF DevInit
<1>2. DevType
  <2> DEFINE T == [Queues -> {"none", "build", "loop", "done", "panic"}]
             none == [q \in Queues |-> "none"]
  <2>1. none \in T /\ thread = [m \in Modes |-> none]
    BY DEF DevInit
  <2> HIDE DEF T, none
  <2>2. thread \in [Modes -> T]
    BY <2>1, ZenonT(30)
  <2> QED
    BY <2>2 DEF DevInit, DevType, T
<1>3. OwnPackets
  BY <1>1, ZenonT(30) DEF OwnPackets
<1>4. Left = {} /\ Arrived = {}
  BY <1>1 DEF Left, Arrived, OnSocket
<1>5. OnePlace
  BY <1>1, <1>4 DEF OnePlace
<1>6. Progress
  BY <1>1 DEF Progress, Modes
<1>7. Tally
  BY <1>1, FS_EmptySet, Zenon DEF Tally, Modes
<1>8. Covered
  BY <1>1 DEF Covered, StatsCoverRun, Modes
<1> QED
  BY <1>2, <1>3, <1>5, <1>6, <1>7, <1>8 DEF DevInv

\* DevInv holds in every reachable state.
LEMMA DevInvariant == DevSpec => []DevInv
<1>1. DevInv /\ [DevNext]_devVars => DevInv'
  <2> SUFFICES ASSUME DevInv, [DevNext]_devVars PROVE DevInv'
    OBVIOUS
  <2>1. ASSUME NEW m \in Modes, Spawn(m) \/ Program(m) PROVE DevInv'
    BY <2>1, SpawnInv, JoinInv, JoinPanicInv, BuildInv DEF Program
  <2>2. ASSUME NEW q \in Queues, Sender(q) PROVE DevInv'
    BY <2>2, SendAppliedInv, DrainSubmitsInv, DrainReturnsInv DEF Sender
  <2>3. ASSUME NEW q \in Queues, NEW r \in Queues, Transmit(q, r) PROVE DevInv'
    BY <2>3, TransmitInv
  <2>4. ASSUME NEW r \in Queues, Receiver(r) PROVE DevInv'
    BY <2>4, CountMissingInv DEF Receiver, AllMatched, LeaveOnTimeout
  <2>5. ASSUME NEW r \in Queues, ForeignArrives(r) PROVE DevInv'
    BY <2>5, ForeignArrivesInv
  <2>6. ASSUME NEW r \in Queues, NEW k, RxIteration(r, k) \/ RxPanics(r, k) PROVE DevInv'
    <3>1. RecvApply(r, k) /\ Survives("Rx", r)
      BY <2>6, Zenon DEF RxIteration, RxPanics, SetThread, Survives
    <3> QED
      BY <3>1, RecvApplyInv
  <2>7. CASE UNCHANGED devVars
    <3>1. /\ UNCHANGED <<accepted, sent, waiting, recvd_nums, lost>>
          /\ UNCHANGED <<main, thread, matched_recvd_pkts, n_missing, counter, stats>>
      BY <2>7 DEF devVars, txVars, rxVars, netVars
    <3>2. thread' \in [Modes -> [Queues -> {"none", "build", "loop", "done", "panic"}]]
      BY <3>1 DEF DevInv, DevType
    <3>3. "Tx" \in Modes
      BY DEF Modes
    <3> QED
      BY <3>1, <3>2, <3>3, ControlInv
  <2> QED
    BY <2>1, <2>2, <2>3, <2>4, <2>5, <2>7, <2>6 DEF DevNext
<1> QED
  BY <1>1, DevInitInv, PTL DEF DevSpec

\* For any number of queues, packets and frames: every packet is in one place,
\* a receiver counts the packets it sees, and reports missing the others.
THEOREM DevPacketsAccounted == DevSpec => []PacketsAccounted
BY DevInvariant, DevInvAccounts, PTL

\* The statistics the programs print cover their run, however much of the
\* traffic is lost or comes from elsewhere.
THEOREM DevStatsCoverRun == DevSpec => []StatsCoverRun
<1>1. DevInv => StatsCoverRun
  BY DEF DevInv, Covered
<1> QED
  BY <1>1, DevInvariant, PTL
=============================================================================
