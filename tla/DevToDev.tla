------------------------------ MODULE DevToDev ------------------------------
(***************************************************************************)
(* Two devices connected by a network: examples/dev_to_dev.rs runs with    *)
(* --mode tx on one and with --mode rx on the other, a thread and a socket *)
(* per queue on each side.                                                 *)
(*                                                                         *)
(* The sockets are used through what their halves promise: a sending       *)
(* socket is a TxChannel (accepted packets are transmitted once and in     *)
(* order, drain waits for all of them), a receiving one a RxChannel (what  *)
(* is not lost on arrival is delivered once and in order).  XskTx and      *)
(* XskRx implement them.  Whether accepted packets are transmitted at all  *)
(* is not promised: they wait for their batch to fill, and then for a      *)
(* kernel that is awake, as in XskTx.  The network loses packets and       *)
(* chooses the queue a packet arrives on.                                  *)
(***************************************************************************)
EXTENDS Integers, Sequences, FiniteSets

CONSTANTS
  NQueues,              \* opts.queues.len()
  NPkts,                \* opts.n_pkts
  TxFrames, RxFrames,   \* frames of a sending and of a receiving socket
  BatchSize,            \* opts.batch_size
  MaxForeign            \* bound: packets that arrive from elsewhere

ASSUME DevConstants ==
  /\ NQueues \in Nat \ {0} /\ TxFrames \in Nat \ {0} /\ RxFrames \in Nat \ {0}
  /\ NPkts \in Nat /\ MaxForeign \in Nat
  /\ BatchSize \in 1 .. TxFrames

VARIABLES
  main,                 \* the main thread of each program
  thread,               \* the threads it spawns
  accepted,             \* sending queues: packets accepted by send_apply
  sent,                 \* packets transmitted
  batched,              \* how many accepted ones are not on the tx ring yet
  awake,                \* the kernel works on the tx ring
  waiting,              \* receiving queues: packets on the socket
  recvd_nums,           \* the numbers seen, as a set
  matched_recvd_pkts,
  n_missing,
  counter,              \* statistics of each interface: tx_packets, rx_packets
  stats,                \* the counter at the start; at the end the difference
  lost, foreign         \* numbers the network lost, packets from elsewhere

txVars  == <<accepted, sent, batched, awake>>
rxVars  == <<recvd_nums, matched_recvd_pkts, n_missing>>
netVars == <<waiting, counter, lost, foreign>>
devVars == <<main, thread, txVars, rxVars, netVars, stats>>

Queues  == 0 .. NQueues - 1
Modes   == {"Tx", "Rx"}
Numbers == 0 .. NPkts - 1
Foreign == -1      \* a packet that filter_pkt rejects

\* split_pkts: the packets of each queue, which it yields in ascending order.
SplitPkts(q) == {i \in Numbers : i % NQueues = q}

First(i, pkts) == i \in pkts /\ \A j \in pkts : i <= j

DevInit ==
  /\ main = [m \in Modes |-> "start"]
  /\ thread = [m \in Modes |-> [q \in Queues |-> "none"]]
  /\ accepted = [q \in Queues |-> {}] /\ sent = [q \in Queues |-> {}]
  /\ batched = [q \in Queues |-> 0] /\ awake = [q \in Queues |-> FALSE]
  /\ waiting = [q \in Queues |-> <<>>]
  /\ recvd_nums = [q \in Queues |-> {}]
  /\ matched_recvd_pkts = [q \in Queues |-> 0]
  /\ n_missing = [q \in Queues |-> 0]
  /\ counter = [m \in Modes |-> 0] /\ stats = [m \in Modes |-> 0]
  /\ lost = {} /\ foreign = 0

SetThread(m, q, state) == thread' = [thread EXCEPT ![m][q] = state]

-----------------------------------------------------------------------------
(* spawn_threads                                                           *)

\* InterfaceStats::new reads both sets of statistics; each program prints one.
InterfaceStatsTx == counter["Tx"]
InterfaceStatsRx == counter["Rx"]
InterfaceStats(m) == IF m = "Tx" THEN InterfaceStatsTx ELSE InterfaceStatsRx
StatsDiff(end, start) == end - start

\* Reading the statistics or building the configurations, the same for every
\* queue, may fail before the first thread is spawned.
Spawn(m) ==
  /\ main[m] = "start"
  /\ \/ /\ main' = [main EXCEPT ![m] = "running"]
        /\ stats' = [stats EXCEPT ![m] = InterfaceStats(m)]
        /\ thread' = [thread EXCEPT ![m] = [q \in Queues |-> "build"]]
     \/ /\ main' = [main EXCEPT ![m] = "panic"]
        /\ UNCHANGED <<stats, thread>>
  /\ UNCHANGED <<txVars, rxVars, netVars>>

\* build_xsk and Filter::from_opts, then tx_pkts (its prefill) or rx_pkts; each
\* may fail and the thread panics.
Build(m, q) ==
  /\ thread[m][q] = "build"
  /\ SetThread(m, q, "loop") \/ SetThread(m, q, "panic")
  /\ UNCHANGED <<main, txVars, rxVars, netVars, stats>>

\* All threads have been joined: the difference of the statistics, if they can
\* be read.
Join(m) ==
  /\ main[m] = "running" /\ \A q \in Queues : thread[m][q] = "done"
  /\ \/ /\ main' = [main EXCEPT ![m] = "done"]
        /\ stats' = [stats EXCEPT ![m] = StatsDiff(InterfaceStats(m), @)]
     \/ /\ main' = [main EXCEPT ![m] = "panic"]
        /\ UNCHANGED stats
  /\ UNCHANGED <<thread, txVars, rxVars, netVars>>

\* The threads are joined in order; a panic ends the program, and with it the
\* threads that still run and their sockets.
JoinPanic(m) ==
  /\ main[m] = "running"
  /\ \E q \in Queues : /\ thread[m][q] = "panic"
                       /\ \A p \in 0 .. q - 1 : thread[m][p] = "done"
  /\ main' = [main EXCEPT ![m] = "panic"]
  /\ thread' = [thread EXCEPT ![m] = [q \in Queues |-> "none"]]
  /\ awake' = [q \in Queues |-> m = "Rx" /\ awake[q]]
  /\ UNCHANGED <<accepted, sent, batched, rxVars, netVars, stats>>

-----------------------------------------------------------------------------
(* tx_pkts: a send_apply per packet, repeated while it has no free frame,  *)
(* then drain.                                                             *)

\* A closed socket transmits nothing more.
CloseSocket(q) == awake' = [awake EXCEPT ![q] = FALSE]

\* The range of put_batch_on_tx_queue starts below zero: the last of the k
\* packets accepted so far, n of them, do not lie before the end of tx_frames.
RangePanics(k, n) ==
  LET cursor == k % TxFrames IN (IF cursor = 0 THEN TxFrames ELSE cursor) < n

\* put_batch_on_tx_queue.  The tx ring has a slot for every frame.  The sendto
\* wakes the kernel unless its error is one that counts as success; any other
\* error panics, with the batch on the ring, and unwinding closes the socket.
PutBatch(q, k, n) ==
  /\ batched' = [batched EXCEPT ![q] = IF RangePanics(k, n) THEN n ELSE 0]
  /\ \/ /\ ~RangePanics(k, n)
        /\ awake' \in {awake, [awake EXCEPT ![q] = TRUE]}
        /\ UNCHANGED thread
     \/ /\ SetThread("Tx", q, "panic")
        /\ CloseSocket(q)

SendApplied(q) ==
  /\ thread["Tx"][q] = "loop"
  /\ Cardinality(accepted[q] \ sent[q]) < TxFrames
  /\ \E i \in SplitPkts(q) \ accepted[q] :
       /\ First(i, SplitPkts(q) \ accepted[q])
       /\ accepted' = [accepted EXCEPT ![q] = @ \cup {i}]
  /\ \/ /\ batched[q] + 1 = BatchSize
        /\ PutBatch(q, Cardinality(accepted[q]) + 1, BatchSize)
     \/ /\ batched[q] + 1 # BatchSize
        /\ batched' = [batched EXCEPT ![q] = @ + 1]
        /\ UNCHANGED <<thread, awake>>
  /\ UNCHANGED <<main, sent, rxVars, netVars, stats>>

\* The first iteration of drain puts what is left of a batch on the ring.
DrainSubmits(q) ==
  /\ thread["Tx"][q] = "loop" /\ accepted[q] = SplitPkts(q) /\ batched[q] > 0
  /\ PutBatch(q, Cardinality(accepted[q]), batched[q])
  /\ UNCHANGED <<main, accepted, sent, rxVars, netVars, stats>>

Drained_Never(q) == TRUE                               \* mutant: no drain
Drained(q) == sent[q] = accepted[q]

DrainReturns(q) ==
  /\ thread["Tx"][q] = "loop" /\ accepted[q] = SplitPkts(q) /\ batched[q] = 0
  /\ Drained(q)
  /\ SetThread("Tx", q, "done") /\ CloseSocket(q)
  /\ UNCHANGED <<main, accepted, sent, batched, rxVars, netVars, stats>>

-----------------------------------------------------------------------------
(* The sending kernel and the network.                                     *)

Listening(r) == thread["Rx"][r] = "loop" /\ Len(waiting[r]) < RxFrames

\* The next packet on the tx ring of queue q leaves, and arrives on receiving
\* queue r or is lost: for want of a listening socket or of a frame there, or on
\* the way.
\* The kernel goes on, or sleeps: its budget is used up or the ring is empty.
Transmit(q, r) ==
  /\ awake[q] /\ Cardinality(accepted[q] \ sent[q]) > batched[q]
  /\ \E n \in accepted[q] \ sent[q] :
       /\ First(n, accepted[q] \ sent[q])
       /\ sent' = [sent EXCEPT ![q] = @ \cup {n}]
       /\ \/ /\ Listening(r)
             /\ waiting' = [waiting EXCEPT ![r] = Append(@, n)]
             /\ counter' = [m \in Modes |-> counter[m] + 1]
             /\ UNCHANGED lost
          \/ /\ ~Listening(r)
             /\ lost' = lost \cup {n}
             /\ counter' = [m \in Modes |-> counter[m] + 1]
             /\ UNCHANGED waiting
          \/ /\ lost' = lost \cup {n}
             /\ counter' = [counter EXCEPT !["Tx"] = @ + 1]
             /\ UNCHANGED waiting
  /\ awake' \in {awake, [awake EXCEPT ![q] = FALSE]}
  /\ UNCHANGED <<main, thread, accepted, batched, rxVars, foreign, stats>>

\* Other traffic on the receiving device.
ForeignArrives(r) ==
  /\ foreign < MaxForeign /\ Listening(r)
  /\ foreign' = foreign + 1
  /\ waiting' = [waiting EXCEPT ![r] = Append(@, Foreign)]
  /\ counter' = [counter EXCEPT !["Rx"] = @ + 1]
  /\ UNCHANGED <<main, thread, txVars, rxVars, lost, stats>>

-----------------------------------------------------------------------------
(* rx_pkts                                                                 *)

\* filter_pkt
FilterPkt_Any(p) == TRUE                               \* mutant
FilterPkt(p) == p # Foreign

\* Those of the first k packets on the socket that the closure counts.
Matching(r, k) == {i \in 1 .. k : FilterPkt(waiting[r][i])}

\* recv_apply calls the closure on the first k packets.
RecvApply(r, k) ==
  /\ thread["Rx"][r] = "loop" /\ matched_recvd_pkts[r] # NPkts
  /\ k \in 0 .. Len(waiting[r])
  /\ recvd_nums' = [recvd_nums EXCEPT ![r] = @ \cup {waiting[r][i] : i \in Matching(r, k)}]
  /\ matched_recvd_pkts' =
       [matched_recvd_pkts EXCEPT ![r] = @ + Cardinality(Matching(r, k))]
  /\ waiting' = [waiting EXCEPT ![r] = SubSeq(@, k + 1, Len(@))]
  /\ UNCHANGED <<main, txVars, n_missing, counter, lost, foreign, stats>>

\* One iteration, with some packets if there are any.
RxIteration(r, k) ==
  /\ k > 0 /\ RecvApply(r, k)
  /\ UNCHANGED thread

\* One that panics: poll fails, or after k packets the closure meets one that
\* passes the filter with a payload under eight bytes or a number that is not
\* below n_pkts.
RxPanics(r, k) == RecvApply(r, k) /\ SetThread("Rx", r, "panic")

\* The numbers never seen are counted after the loop.
CountMissing(r) ==
  /\ n_missing' = [n_missing EXCEPT ![r] = Cardinality(Numbers \ recvd_nums[r])]
  /\ SetThread("Rx", r, "done")
  /\ UNCHANGED <<main, txVars, recvd_nums, matched_recvd_pkts, netVars, stats>>

AllMatched(r) ==
  /\ thread["Rx"][r] = "loop" /\ matched_recvd_pkts[r] = NPkts
  /\ CountMissing(r)

\* Every 65,536th iteration looks at the clock, which may have passed the
\* timeout at any of them.
LeaveOnTimeout_Never(r) == FALSE                       \* mutant: no timeout
LeaveOnTimeout(r) ==
  /\ thread["Rx"][r] = "loop" /\ matched_recvd_pkts[r] # NPkts
  /\ CountMissing(r)

-----------------------------------------------------------------------------
Program(m) == Join(m) \/ JoinPanic(m) \/ \E q \in Queues : Build(m, q)
Sender(q)  == SendApplied(q) \/ DrainSubmits(q) \/ DrainReturns(q)
Receiver(r) == AllMatched(r) \/ LeaveOnTimeout(r)

DevNext ==
  \/ \E m \in Modes : Spawn(m) \/ Program(m)
  \/ \E q \in Queues : Sender(q) \/ (\E r \in Queues : Transmit(q, r))
  \/ \E r \in Queues :
       \/ Receiver(r) \/ ForeignArrives(r)
       \/ \E k \in 0 .. RxFrames : RxIteration(r, k) \/ RxPanics(r, k)

DevSpec == DevInit /\ [][DevNext]_devVars

\* A program that was started runs, its threads are scheduled, time passes
\* and the iterations reach a multiple of 65,536 again and again; a kernel that
\* is awake transmits what is on the ring.  Nothing says that it stays awake or
\* that a sendto wakes it.
DevFairness ==
  /\ \A m \in Modes : WF_devVars(Program(m))
  /\ \A q \in Queues :
       /\ WF_devVars(Sender(q)) /\ WF_devVars(Receiver(q))
       /\ WF_devVars(\E r \in Queues : Transmit(q, r))
-----------------------------------------------------------------------------
(* Properties                                                              *)

\* Where packet n is: yet to be transmitted, lost, on a receiving socket, or
\* seen by a receiver.
Whereabouts(n) ==
  {<<"sender", q>> : q \in {p \in Queues : n \in SplitPkts(p) \ sent[p]}}
  \cup (UNION {{<<"socket", q, k>> : k \in {i \in DOMAIN waiting[q] : waiting[q][i] = n}}
               : q \in Queues})
  \cup {<<"seen", q>> : q \in {p \in Queues : n \in recvd_nums[p]}}
  \cup {<<"lost", x>> : x \in {n} \cap lost}

\* Every packet is in one place, however the threads of the two programs and
\* the network interleave: split_pkts gives it to one sender, it is sent once,
\* and one receiver sees it unless it is lost.  So a receiver that counts
\* n_pkts matches has seen every number, and what it reports missing is what
\* did not reach it.
PacketsAccounted ==
  /\ \A n \in Numbers : Cardinality(Whereabouts(n)) = 1
  /\ \A r \in Queues :
       /\ matched_recvd_pkts[r] = Cardinality(recvd_nums[r])
       /\ thread["Rx"][r] = "done" => n_missing[r] = NPkts - matched_recvd_pkts[r]

\* The interface statistics printed at the end cover the run: the sender's all
\* of its packets, since it drains before the second reading, the receiver's
\* at least the packets its threads have seen.
StatsCoverRun ==
  /\ main["Tx"] = "done" => stats["Tx"] >= NPkts
  /\ main["Rx"] = "done" =>
       stats["Rx"] >= Cardinality(UNION {recvd_nums[r] : r \in Queues})

\* A queue whose packets stay where they are: the kernel sleeps, and its thread
\* repeats send_apply or the loop of drain, which do not wake it.
Asleep(q) == thread["Tx"][q] = "loop" /\ ~awake[q] /\ sent[q] # accepted[q]

\* Both programs end once started: the receiver by count, by its timeout or by
\* a panic, whatever the network loses and whichever queue it uses; the sender
\* when it has drained or by a panic, unless the kernel of a queue sleeps for
\* good on packets that were accepted.  Nothing else keeps them: not a batch
\* that does not fill, the panic of another thread or the order in which the
\* threads are joined.
ProgramsEnd ==
  /\ main["Rx"] = "running" ~> main["Rx"] \in {"done", "panic"}
  /\ (\A q \in Queues : []<>~Asleep(q)) =>
       (main["Tx"] = "running" ~> main["Tx"] \in {"done", "panic"})
=============================================================================
