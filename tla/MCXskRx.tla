------------------------------ MODULE MCXskRx ------------------------------
(* XskRx for TLC: the configurations are in the cfg files.                 *)
EXTENDS XskRxChannel
=============================================================================
