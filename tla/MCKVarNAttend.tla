--------------------------- MODULE MCKVarNAttend ---------------------------
(* Batches of one to three requests on the deployments the switches allow. *)
EXTENDS KVarNAttend

Queries == {[cached |-> c, qlen |-> n] : c \in {0, 1, 4, 5}, n \in {1, 2, 3, 5}}
MCBatches ==
  UNION {[1 .. n -> Queries] : n \in 1 .. 2}
  \cup {<<[cached |-> 4, qlen |-> 1], [cached |-> c, qlen |-> 2], [cached |-> 0, qlen |-> n]>> :
           c \in {1, 5}, n \in {1, 5}}

Shipped == [num_spec |-> 2, window |-> 0, fused_verify |-> TRUE, maxq |-> 3,
            min_blocks |-> 3, flash |-> TRUE, fa_rows |-> 10, fused_decode |-> TRUE,
            split_k |-> "", kv_splits |-> 3, shared |-> FALSE, max_blocks |-> 16,
            sm |-> 2, mid_rows |-> 2]
MCConfigs == {
  Shipped,
  [Shipped EXCEPT !.kv_splits = 0, !.sm = 0],
  [Shipped EXCEPT !.max_blocks = 8],
  [Shipped EXCEPT !.max_blocks = 8, !.split_k = "1", !.window = 3],
  [Shipped EXCEPT !.split_k = "0", !.shared = TRUE, !.num_spec = 1],
  [Shipped EXCEPT !.max_blocks = 8, !.shared = TRUE, !.window = 3, !.num_spec = 1],
  [Shipped EXCEPT !.fused_decode = FALSE],
  [Shipped EXCEPT !.fused_verify = FALSE],
  [Shipped EXCEPT !.fused_verify = FALSE, !.flash = FALSE]}
=============================================================================
