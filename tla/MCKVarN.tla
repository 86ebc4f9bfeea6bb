------------------------------ MODULE MCKVarN ------------------------------
(* KVarN on a small instance. *)
EXTENDS KVarN, TLC

Symmetry == Permutations(Req) \cup Permutations(Pages)
=============================================================================
