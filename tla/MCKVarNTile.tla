---------------------------- MODULE MCKVarNTile -----------------------------
(* KVarNTile with the four presets scaled to groups of 4 and 16 tokens, heads *)
(* narrower than, as wide as and wider than the group, and batches of two    *)
(* blocks or two heads.                                                      *)
EXTENDS KVarNTile

MCPresets == {[key_bits |-> 4, value_bits |-> v, group |-> g] : v \in {2, 4}, g \in {4, 16}}
MCBatches == {<<1, 1>>, <<2, 1>>, <<1, 2>>}
=============================================================================
