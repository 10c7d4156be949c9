----------------------------- MODULE MCExamples -----------------------------
(***************************************************************************)
(* The two example programs for TLC.  A queue of a device can be bound to  *)
(* one socket only, so one of the examples is run at a time.               *)
(***************************************************************************)
EXTENDS DevToDev, Synacker

Pkt(net, proto, src_ip, dest_ip, src_port, dest_port, seq) ==
  [net |-> net, proto |-> proto, src_ip |-> src_ip, dest_ip |-> dest_ip,
   src_port |-> src_port, dest_port |-> dest_port, seq |-> seq]

\* One that every filter below wants, one for each field in which a packet may
\* differ, and what cannot be answered.
MCPackets ==
  {Pkt("ipv4", "tcp", 1, 2, 3, 4, 0), Pkt("ipv4", "tcp", 9, 2, 3, 4, 1),
   Pkt("ipv4", "tcp", 1, 9, 3, 4, 1), Pkt("ipv4", "tcp", 1, 2, 9, 4, 0),
   Pkt("ipv4", "tcp", 1, 2, 3, 9, 0), Pkt("ipv4", "udp", 1, 2, 3, 4, 0),
   Pkt("ipv6", "tcp", 1, 2, 3, 4, 0), Pkt("malformed", "tcp", 1, 2, 3, 4, 0)}

Options(src_ip, dest_ip, src_port, dest_port) ==
  [src_ip |-> src_ip, dest_ip |-> dest_ip, src_port |-> src_port, dest_port |-> dest_port]

MCFilters ==
  {Options(None, None, None, None), Options(1, 2, None, None),
   Options(1, None, 3, None), Options(None, 2, None, 4), Options(1, 2, 3, 4)}

Init == DevInit /\ SynInit

DevIdle == main = [m \in Modes |-> "start"]
SynIdle == syn_pc = "start"

Next ==
  \/ SynIdle /\ DevNext /\ UNCHANGED synVars
  \/ DevIdle /\ SynNext /\ UNCHANGED devVars

Spec == Init /\ [][Next]_<<devVars, synVars>> /\ DevFairness /\ SynFairness
=============================================================================
