------------------------------ MODULE MCPthfa ------------------------------
(* Layers with and without a window, causal or not, on servers of one and  *)
(* two requests; only the single-request one has the slab workspace.       *)
EXTENDS Pthfa

Layer(g, window, causal, target, seqs, slab) ==
  [g |-> g, window |-> window, causal |-> causal, target |-> target,
   seqs |-> seqs, slab |-> slab]
MCLayers == {
  Layer(2, 0, TRUE, 2, 2, FALSE),
  Layer(3, 0, TRUE, 4, 2, FALSE),
  Layer(3, 3, TRUE, 4, 2, FALSE),
  Layer(1, 2, FALSE, 4, 2, FALSE),
  Layer(2, 0, FALSE, 3, 2, FALSE),
  Layer(3, 0, TRUE, 2, 1, TRUE),
  Layer(3, 2, FALSE, 4, 1, FALSE)}
=============================================================================
