---------------------------- MODULE MCChainLookup ----------------------------
(* An instance of ChainLookup for TLC.                                      *)
EXTENDS ChainLookup
=============================================================================
