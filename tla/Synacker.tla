------------------------------ MODULE Synacker ------------------------------
(***************************************************************************)
(* examples/synacker.rs: one thread that uses both halves of a socket.  It *)
(* receives packets, answers those that match a filter with a SYN-ACK, and *)
(* ends on Ctrl-C or after a timeout.                                      *)
(*                                                                         *)
(* The halves are used through their promises: recv yields the packets of  *)
(* a RxChannel in order, send is accepted when a TxChannel has a free      *)
(* frame.  The batch size is one: a reply is on the tx ring at once, where *)
(* it waits for a kernel that is awake, as in XskTx.  A packet is a record *)
(* of what the filter and the reply look at.                               *)
(***************************************************************************)
EXTENDS Integers, Sequences

CONSTANTS
  Packets,      \* the packets that may arrive: [net, proto, src_ip, dest_ip,
                \* src_port, dest_port, seq], net = "malformed" if unparsable
  Filters,      \* the options: [src_ip, dest_ip, src_port, dest_port], each a
                \* value or None
  None,
  SeqNumbers,   \* 2^32: sequence numbers wrap
  Builds,       \* "debug" (an overflow panics) or "release" (it wraps)
  SynTxFrames,  \* frames of the sending half
  MaxArrivals   \* bound: packets that arrive

ASSUME SynConstants ==
  /\ SeqNumbers \in Nat \ {0} /\ SynTxFrames \in Nat \ {0} /\ MaxArrivals \in Nat
  /\ Builds \subseteq {"debug", "release"}

VARIABLES
  syn_pc,           \* where the thread is
  build, filter,
  running,          \* cleared by the Ctrl-C handler
  timed_out,        \* start.elapsed() >= timeout
  synack,           \* the reply being sent
  syn_waiting,      \* packets on the socket
  received,         \* packets recv has returned
  replies,          \* replies send has accepted
  transmitting,     \* frames of replies not transmitted yet
  syn_awake,        \* the kernel works on the tx ring
  arrivals

synVars == <<syn_pc, build, filter, running, timed_out, synack, syn_waiting,
             received, replies, transmitting, syn_awake, arrivals>>

SynInit ==
  /\ syn_pc = "start" /\ build = None /\ filter = None
  /\ running = TRUE /\ timed_out = FALSE /\ synack = None
  /\ syn_waiting = <<>> /\ received = <<>> /\ replies = <<>>
  /\ transmitting = 0 /\ syn_awake = FALSE /\ arrivals = 0

-----------------------------------------------------------------------------
(* Filter::filter.  An option that is not given matches; addresses are     *)
(* compared in IPv4 packets only, ports in TCP segments only.              *)

Given(option, value) == option = None \/ option = value

IpMatch_LastWins(p) ==                    \* mutant: dest_ip overwrites src_ip
  p.net = "ipv4" =>
    IF filter.dest_ip # None THEN p.dest_ip = filter.dest_ip
                             ELSE Given(filter.src_ip, p.src_ip)
IpMatch(p) ==
  p.net = "ipv4" => Given(filter.src_ip, p.src_ip) /\ Given(filter.dest_ip, p.dest_ip)

\* The comparison of the destination port replaces that of the source port.
TransportMatch(p) ==
  p.proto = "tcp" =>
    IF filter.dest_port # None THEN p.dest_port = filter.dest_port
                               ELSE Given(filter.src_port, p.src_port)

FilterMatch(p) == IpMatch(p) /\ TransportMatch(p)

-----------------------------------------------------------------------------
(* generate_synack: none for anything but TCP over IPv4; addresses and     *)
(* ports are swapped and the next sequence number is acknowledged.         *)

Answerable(p) == p.net = "ipv4" /\ p.proto = "tcp"

GenerateSynack(p) ==
  [src_ip |-> p.dest_ip, dest_ip |-> p.src_ip,
   src_port |-> p.dest_port, dest_port |-> p.src_port,
   seq |-> p.seq, ack |-> (p.seq + 1) % SeqNumbers]

AckOverflows(p) == build = "debug" /\ p.seq + 1 = SeqNumbers

-----------------------------------------------------------------------------
(* main and spawn_rx                                                       *)

\* Building the socket or parsing the options may fail.
SynStart ==
  /\ syn_pc = "start"
  /\ build' \in Builds /\ filter' \in Filters
  /\ syn_pc' \in {"loop", "panic"}
  /\ UNCHANGED <<running, timed_out, synack, syn_waiting, received, replies,
                 transmitting, syn_awake, arrivals>>

Continue_NoClock == running                \* mutant
Continue == running /\ ~timed_out

\* recv returns a packet, which is parsed, filtered and perhaps answered.
Handle ==
  /\ syn_pc = "loop" /\ Continue /\ syn_waiting # <<>>
  /\ LET p == Head(syn_waiting)
         answer == p.net # "malformed" /\ FilterMatch(p) /\ Answerable(p)
     IN  /\ syn_waiting' = Tail(syn_waiting)
         /\ received' = Append(received, p)
         /\ \/ /\ ~answer
               /\ UNCHANGED <<syn_pc, synack>>
            \/ /\ answer /\ ~AckOverflows(p)
               /\ synack' = GenerateSynack(p) /\ syn_pc' = "send"
            \/ /\ answer /\ AckOverflows(p)
               /\ syn_pc' = "answer_panic" /\ UNCHANGED synack
  /\ UNCHANGED <<build, filter, running, timed_out, replies, transmitting, syn_awake,
                 arrivals>>

\* recv panics: poll fails, before a packet is taken from the ring or after, or
\* the packet is longer than the buffer.
RecvPanics ==
  /\ syn_pc = "loop" /\ Continue
  /\ \E k \in {1, 2} : syn_waiting' = SubSeq(syn_waiting, k, Len(syn_waiting))
  /\ syn_pc' = "panic"
  /\ UNCHANGED <<build, filter, running, timed_out, synack, received, replies,
                 transmitting, syn_awake, arrivals>>

\* The loop around send, which looks neither at the flag nor at the clock.
SendRoom == transmitting < SynTxFrames

\* The reply goes on the tx ring.  The sendto wakes the kernel unless its error
\* is one that counts as success; any other error panics.
SendSynack ==
  /\ syn_pc = "send" /\ SendRoom
  /\ transmitting' = transmitting + 1
  /\ \/ /\ replies' = Append(replies, synack)
        /\ syn_pc' = "loop" /\ syn_awake' \in {syn_awake, TRUE}
     \/ /\ syn_pc' = "answer_panic" /\ UNCHANGED <<replies, syn_awake>>
  /\ UNCHANGED <<build, filter, running, timed_out, synack, syn_waiting, received, arrivals>>

Leave ==
  /\ syn_pc = "loop" /\ ~Continue
  /\ syn_pc' = "done"
  /\ UNCHANGED <<build, filter, running, timed_out, synack, syn_waiting, received,
                 replies, transmitting, syn_awake, arrivals>>

-----------------------------------------------------------------------------
(* The signal handler, the clock, the network and the device.              *)

CtrlC ==
  /\ syn_pc \in {"loop", "send"} /\ running
  /\ running' = FALSE
  /\ UNCHANGED <<syn_pc, build, filter, timed_out, synack, syn_waiting, received,
                 replies, transmitting, syn_awake, arrivals>>

TimeOut ==
  /\ syn_pc \in {"loop", "send"} /\ ~timed_out
  /\ timed_out' = TRUE
  /\ UNCHANGED <<syn_pc, build, filter, running, synack, syn_waiting, received,
                 replies, transmitting, syn_awake, arrivals>>

Arrive(p) ==
  /\ syn_pc \in {"loop", "send"} /\ arrivals < MaxArrivals
  /\ arrivals' = arrivals + 1
  /\ syn_waiting' = Append(syn_waiting, p)
  /\ UNCHANGED <<syn_pc, build, filter, running, timed_out, synack, received,
                 replies, transmitting, syn_awake>>

\* The kernel goes on or sleeps.
TransmitReply ==
  /\ syn_awake /\ transmitting > 0
  /\ transmitting' = transmitting - 1
  /\ syn_awake' \in BOOLEAN
  /\ UNCHANGED <<syn_pc, build, filter, running, timed_out, synack, syn_waiting,
                 received, replies, arrivals>>

Thread == Handle \/ SendSynack \/ Leave

SynNext == SynStart \/ Thread \/ RecvPanics \/ CtrlC \/ TimeOut \/ TransmitReply
             \/ \E p \in Packets : Arrive(p)

SynSpec == SynInit /\ [][SynNext]_synVars

\* The thread is scheduled, time passes, and a kernel that is awake transmits
\* the replies on the ring.  Nothing says that a sendto wakes it.
SynFairness == WF_synVars(Thread) /\ WF_synVars(TimeOut) /\ WF_synVars(TransmitReply)
-----------------------------------------------------------------------------
(* Properties                                                              *)

\* What the options ask for: a TCP segment over IPv4 that agrees with every
\* option given.
Wanted(p) ==
  /\ Answerable(p)
  /\ Given(filter.src_ip, p.src_ip) /\ Given(filter.dest_ip, p.dest_ip)
  /\ Given(filter.src_port, p.src_port) /\ Given(filter.dest_port, p.dest_port)

Answers(reply, p) ==
  /\ reply.dest_ip = p.src_ip /\ reply.src_ip = p.dest_ip
  /\ reply.dest_port = p.src_port /\ reply.src_port = p.dest_port
  /\ reply.ack = (p.seq + 1) % SeqNumbers

\* The packets that are dealt with: a panic while it is answered leaves out the
\* last.
Handled ==
  IF syn_pc = "answer_panic" THEN SubSeq(received, 1, Len(received) - 1) ELSE received

\* "Respond to all packets that match a certain filter with a synack": the
\* replies, the one being sent included, answer the wanted packets among those
\* received, each once and in order, however often send has to be repeated and
\* also if the program panics, which leaves at most the packet it is answering
\* without a reply; as long as the options do not give both ports, of which the
\* source port is then not compared.
AnswersExact ==
  LET sent   == IF syn_pc = "send" THEN Append(replies, synack) ELSE replies
      wanted == {k \in DOMAIN Handled : Wanted(Handled[k])}
  IN  filter # None /\ None \in {filter.src_port, filter.dest_port} =>
        \E of \in [DOMAIN sent -> wanted] :
          /\ \A k \in wanted : \E i \in DOMAIN sent : of[i] = k
          /\ \A i, j \in DOMAIN sent : i < j => of[i] < of[j]
          /\ \A i \in DOMAIN sent : Answers(sent[i], Handled[of[i]])

\* The thread repeats a send for want of a frame and the kernel, which the send
\* does not wake, sleeps on the replies that hold the frames.
SendStuck == syn_pc = "send" /\ ~SendRoom /\ ~syn_awake

\* Ctrl-C and the timeout end the program, also while it repeats a send, unless
\* the kernel sleeps for good on replies that hold all frames.
SynackerEnds ==
  []<>~SendStuck =>
    ((syn_pc \in {"loop", "send"} /\ (~running \/ timed_out))
       ~> syn_pc \in {"done", "panic", "answer_panic"})
=============================================================================
