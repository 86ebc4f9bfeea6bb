--------------------------- MODULE MCKVarNBuffers ---------------------------
(* KVarNBuffers with two target layers and a draft layer of more heads. *)
EXTENDS KVarNBuffers

MCTarget == <<"t1", "t2">>
MCDraft == <<"d">>
MCRows == [l \in {"t1", "t2", "d"} |-> IF l = "d" THEN 2 ELSE 1]
MCNumBlocks == <<1, 2>>
=============================================================================
