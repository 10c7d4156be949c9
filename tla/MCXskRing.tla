----------------------------- MODULE MCXskRing -----------------------------
(* XskRing for TLC: the configurations are in the cfg files.               *)
EXTENDS XskRing
=============================================================================
