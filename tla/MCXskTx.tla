------------------------------ MODULE MCXskTx ------------------------------
(* XskTx for TLC: the configurations are in the cfg files.                 *)
EXTENDS XskTx
=============================================================================
