---------------------------- MODULE MCKVarNDraft ----------------------------
(* KVarNDraft on a small instance. *)
EXTENDS KVarNDraft, TLC

Symmetry == Permutations(Req) \cup Permutations(Pages)
=============================================================================
