----------------------------- MODULE MCCircList -----------------------------
(* CircList on four blocks and two data values. *)
EXTENDS CircList, TLC

Blocks == Permutations(Items)
=============================================================================
