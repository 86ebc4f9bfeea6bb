------------------------------ MODULE KVarNTile ------------------------------
(***************************************************************************)
(* What a flush makes of full blocks: balanced tiles, quantised codes and  *)
(* scales, and one packed record per (block, head), which the decode       *)
(* kernels and the gather path take apart again by their own arithmetic.   *)
(*                                                                         *)
(* A number is a tag that says what it was computed from: an element of a  *)
(* tile is <<side, tile, token, channel>>, a scale names the first and the *)
(* last element of its row or column and the iteration it is from.  What   *)
(* a reader gets back can then be compared with what it is due.            *)
(***************************************************************************)
EXTENDS Integers, Sequences, SequencesExt, KVarNLayout

CONSTANTS
  Presets,     \* KVARN_PRESETS: records of key_bits, value_bits, group
  HeadDims,    \* head sizes of the models
  Batches,     \* flushes: <<blocks, KV heads>>
  ChunkTiles,  \* tiles of one launch (2048)
  Iters,       \* sinkhorn_iters
  Imbalances   \* the imbalances an iteration may give

ASSUME TileOK ==
  /\ \A p \in Presets : p.key_bits \in {2, 4} /\ p.value_bits \in {2, 4}
                        /\ p.group \in Nat \ {0}
  /\ HeadDims \subseteq Nat \ {0} /\ Iters \in Nat /\ ChunkTiles \in Nat \ {0}
  /\ Batches \subseteq (Nat \ {0}) \X (Nat \ {0}) /\ Imbalances \subseteq Nat

VARIABLES
  cfg,    \* KVarNConfig
  batch,  \* the blocks to flush, and the KV heads
  it,     \* iterations done; -1 once the records are written
  best,   \* side -> tile -> best imbalance, and the iterations of its scales
  cache   \* <<block, head>> -> record

vars == <<cfg, batch, it, best, cache>>

Sides == {"K", "V"}
NTiles == batch[1] * batch[2]
Tiles == 1 .. NTiles

\* Row-major numbering of the tiles of a batch: reshape(blocks * heads, ...).
TileOf(b, h) == (b - 1) * batch[2] + h

KVarNConfig(p, d, pow2) ==
  [D |-> d, G |-> p.group, kb |-> p.key_bits, vb |-> p.value_bits, pow2 |-> pow2]

Init ==
  /\ \E p \in Presets, d \in HeadDims, pow2 \in BOOLEAN :
       cfg = KVarNConfig(p, d, pow2)
  /\ batch \in Batches /\ it = 0
  /\ best = [s \in Sides |-> [t \in Tiles |-> [imb |-> 1, col |-> 0, row |-> 0]]]
  /\ cache = <<>>

-----------------------------------------------------------------------------
(* Balancing: alternating column and row passes; the scales returned are   *)
(* those of the least imbalance seen, the later one on a tie.              *)

Better(imb, old) == imb <= old.imb

Keep(old, imb) ==
  IF Better(imb, old) THEN [imb |-> imb, col |-> it + 1, row |-> it + 1] ELSE old

Balance ==
  /\ it \in 0 .. Iters - 1
  /\ \E imb \in [Sides -> [Tiles -> Imbalances]] :
       best' = [s \in Sides |-> [t \in Tiles |-> Keep(best[s][t], imb[s][t])]]
  /\ it' = it + 1
  /\ UNCHANGED <<cfg, batch, cache>>

-----------------------------------------------------------------------------
(* Quantisation and packing of one tile.                                   *)

Element(s, t, g, d) == <<s, t, g, d>>

\* The tiles are [D, group] for K and [group, D] for V.
Rows(s) == IF s = "K" THEN cfg.D ELSE cfg.G
Cols(s) == IF s = "K" THEN cfg.G ELSE cfg.D
Bits(s) == IF s = "K" THEN cfg.kb ELSE cfg.vb
At(s, t, r, c) == IF s = "K" THEN Element(s, t, c, r) ELSE Element(s, t, r, c)

Code(s, t, r, c) == <<At(s, t, r, c), best[s][t].col, best[s][t].row>>
\* The row scale and zero have the RTN's absorbed, the column scale is as is.
RowScale(s, t, r, kind) ==
  <<kind, At(s, t, r, 0), At(s, t, r, Cols(s) - 1), best[s][t].row>>
ColScale(s, t, c) == <<"col", At(s, t, 0, c), At(s, t, Rows(s) - 1, c), best[s][t].col>>

\* 8 \div bits codes a byte along the last dimension, the first one lowest.
Packed(s, t) ==
  LET pack == 8 \div Bits(s)
      width == Cols(s) \div pack
  IN [i \in 1 .. Rows(s) * width |->
        [j \in 0 .. pack - 1 |->
           Code(s, t, (i - 1) \div width, ((i - 1) % width) * pack + j)]]

Halves(v, n) == [i \in 1 .. 2 * n |-> <<v[(i - 1) \div 2], (i - 1) % 2>>]
RowHalves(s, t, kind) ==
  Halves([r \in 0 .. Rows(s) - 1 |-> RowScale(s, t, r, kind)], Rows(s))
ColHalves(s, t) == Halves([c \in 0 .. Cols(s) - 1 |-> ColScale(s, t, c)], Cols(s))

\* A launch over the tiles ts: K and V in one if their shape is the same.
Cut(ts) == [K |-> SubSeq(ts, 1, Len(ts) \div 2),
            V |-> SubSeq(ts, Len(ts) \div 2 + 1, Len(ts))]
Launch(ts) ==
  LET k == [i \in 1 .. Len(ts) |-> <<"K", ts[i]>>]
      v == [i \in 1 .. Len(ts) |-> <<"V", ts[i]>>]
  IN IF cfg.D = cfg.G THEN Cut(k \o v) ELSE [K |-> k, V |-> v]

KFields(x) == [kq |-> Packed(x[1], x[2]), kc |-> RowHalves(x[1], x[2], "scale"),
               kz |-> RowHalves(x[1], x[2], "zero"), kr |-> ColHalves(x[1], x[2])]
VFields(x) == [vq |-> Packed(x[1], x[2]), vc |-> ColHalves(x[1], x[2]),
               vr |-> RowHalves(x[1], x[2], "scale"), vz |-> RowHalves(x[1], x[2], "zero")]

-----------------------------------------------------------------------------
(* The two writers.                                                        *)

\* _batched_flush: the fields in the order of their offsets, then padding.
Concatenated(k, v) ==
  LET rec == k.kq \o k.kc \o k.kz \o k.kr \o v.vq \o v.vc \o v.vr \o v.vz
  IN rec \o [i \in 1 .. Aligned(cfg) - Len(rec) |-> <<>>]

\* _write_packed: each field at its offset of the flat row.
Placed(k, v) ==
  LET all == [f \in DOMAIN k \cup DOMAIN v |-> IF f \in DOMAIN k THEN k[f] ELSE v[f]]
      In(f, i) == Offset(cfg)[f] <= i /\ i < Offset(cfg)[f] + Size(cfg)[f]
      Of(i) == {f \in DOMAIN all : In(f, i)}
  IN [i \in 1 .. Aligned(cfg) |->
        IF Of(i - 1) = {} THEN <<>>
        ELSE LET f == CHOOSE f \in Of(i - 1) : TRUE IN all[f][i - Offset(cfg)[f]]]

\* The launches of a flush, and the tile of each position.
Chunk(n, size) == [c \in 1 .. (n + size - 1) \div size |->
                     [i \in 1 .. IF c * size > n THEN n - (c - 1) * size ELSE size |->
                        (c - 1) * size + i]]
Outputs(size) ==
  LET outs == [c \in DOMAIN Chunk(NTiles, size) |-> Launch(Chunk(NTiles, size)[c])]
  IN [K |-> FlattenSeq([c \in DOMAIN outs |-> outs[c].K]),
      V |-> FlattenSeq([c \in DOMAIN outs |-> outs[c].V])]

\* Whole blocks, one at least, in the tiles of a launch.
WholeBlocks(tiles) == batch[2] * IF tiles < batch[2] THEN 1 ELSE tiles \div batch[2]

FlushFast ==
  /\ it = Iters
  /\ LET out == Outputs(WholeBlocks(ChunkTiles))
     IN cache' = [bh \in (1 .. batch[1]) \X (1 .. batch[2]) |->
          Concatenated(KFields(out.K[TileOf(bh[1], bh[2])]),
                       VFields(out.V[TileOf(bh[1], bh[2])]))]
  /\ it' = -1
  /\ UNCHANGED <<cfg, batch, best>>

FlushLegacy ==
  /\ it = Iters
  /\ LET out == Outputs(batch[2] * ChunkTiles)
     IN cache' = [bh \in (1 .. batch[1]) \X (1 .. batch[2]) |->
          Placed(KFields(out.K[TileOf(bh[1], bh[2])]),
                 VFields(out.V[TileOf(bh[1], bh[2])]))]
  /\ it' = -1
  /\ UNCHANGED <<cfg, batch, best>>

Next == Balance \/ FlushFast \/ FlushLegacy

Spec == Init /\ [][Next]_vars

-----------------------------------------------------------------------------
(* The two readers: what they take for the element of a token and channel. *)

Byte(rec, o) == rec[o + 1]

\* A half word, if its two bytes belong together.
Half(rec, o) ==
  IF Len(Byte(rec, o)) = 2 /\ Len(Byte(rec, o + 1)) = 2
     /\ Byte(rec, o)[1] = Byte(rec, o + 1)[1] /\ Byte(rec, o)[2] = 0
  THEN Byte(rec, o)[1] ELSE <<>>

\* The kernels: one uint16 load per scale, at half the offset.
Load16(rec, o, i) == Half(rec, 2 * (o \div 2 + i))
KAddress_ByToken(o, g, d) == o.kq + g * (cfg.D \div (8 \div cfg.kb)) + d \div (8 \div cfg.kb)
KAddress(o, g, d) == o.kq + d * (cfg.G \div (8 \div cfg.kb)) + g \div (8 \div cfg.kb)
VAddress(o, g, d) == o.vq + g * (cfg.D \div (8 \div cfg.vb)) + d \div (8 \div cfg.vb)
Kernel(rec, g, d) ==
  LET o == Offset(cfg)
  IN [K |-> <<Byte(rec, KAddress(o, g, d))[g % (8 \div cfg.kb)],
              Load16(rec, o.kc, d), Load16(rec, o.kz, d), Load16(rec, o.kr, g)>>,
      V |-> <<Byte(rec, VAddress(o, g, d))[d % (8 \div cfg.vb)],
              Load16(rec, o.vr, g), Load16(rec, o.vz, g), Load16(rec, o.vc, d)>>]

\* _read_block_dequantized: a view of every field, unpacked to a matrix.
View(rec, f) == SubSeq(rec, Offset(cfg)[f] + 1, Offset(cfg)[f] + Size(cfg)[f])
Unpacked(bytes, bits, n, r, c) ==
  LET pack == 8 \div bits IN bytes[r * (n \div pack) + c \div pack + 1][c % pack]
Gather(rec, g, d) ==
  [K |-> <<Unpacked(View(rec, "kq"), cfg.kb, cfg.G, d, g), Half(View(rec, "kc"), 2 * d),
           Half(View(rec, "kz"), 2 * d), Half(View(rec, "kr"), 2 * g)>>,
   V |-> <<Unpacked(View(rec, "vq"), cfg.vb, cfg.D, g, d), Half(View(rec, "vr"), 2 * g),
           Half(View(rec, "vz"), 2 * g), Half(View(rec, "vc"), 2 * d)>>]

-----------------------------------------------------------------------------
(* Properties.                                                             *)

\* The code of that element, under the scales of the rows and columns it lies
\* in, all from one iteration: x = (code * scale + zero) * other scale.
Due(s, t, g, d) ==
  LET r == IF s = "K" THEN d ELSE g
      c == IF s = "K" THEN g ELSE d
      i == best[s][t].col
  IN <<<<Element(s, t, g, d), i, i>>,
       <<"scale", At(s, t, r, 0), At(s, t, r, Cols(s) - 1), i>>,
       <<"zero", At(s, t, r, 0), At(s, t, r, Cols(s) - 1), i>>,
       <<"col", At(s, t, 0, c), At(s, t, Rows(s) - 1, c), i>>>>

\* Whoever wrote a record, both readers get back every element of its block
\* and head, with its own scales.
ReadersGetTheirDue == \A bh \in DOMAIN cache :
  \A g \in 0 .. cfg.G - 1, d \in 0 .. cfg.D - 1 :
    LET t == TileOf(bh[1], bh[2])
        due == [s \in Sides |-> Due(s, t, g, d)]
    IN Kernel(cache[bh], g, d) = due /\ Gather(cache[bh], g, d) = due

\* The page the cache manager reserves, one slot per token and head, is the
\* records of the block's heads, to the byte.
PagesAreTiles ==
  cfg.G * batch[2] * (Aligned(cfg) \div cfg.G) = batch[2] * Aligned(cfg)
=============================================================================
