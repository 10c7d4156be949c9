--------------------------- MODULE MCXskLifecycle ---------------------------
(* XskLifecycle for TLC: the configuration is in the cfg file.             *)
EXTENDS XskLifecycle
=============================================================================
