---------------------------- MODULE MCEventChain ----------------------------
(* EventChain with four blocks for both chains and three walks at a time.  *)
EXTENDS EventChain, TLC

Interchangeable == Permutations(Blocks)
=============================================================================
