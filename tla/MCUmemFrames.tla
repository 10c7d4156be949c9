---------------------------- MODULE MCUmemFrames ----------------------------
(* UmemFrames for TLC: the configuration is in the cfg file.               *)
EXTENDS UmemFrames
=============================================================================
