------------------------------ MODULE PthPlan ------------------------------
(***************************************************************************)
(* The arithmetic of the pthfa attention backend.                          *)
(*                                                                         *)
(* The host plans a launch from the padded batch descriptor alone: the     *)
(* warps, the grid's row tiles, the KV splits.  The kernel finds its       *)
(* request, its query tokens and its KV tiles from the device's lengths.   *)
(* A launch is the record the planner fills,                               *)
(*   [tokens, reqs, qmax, g, window, causal, wm, bq, splits]               *)
(* and dev the device's view of it, [qsl, seq]: query_start_loc (from 0)   *)
(* and the KV length of each request, new tokens included.                 *)
(***************************************************************************)
EXTENDS Integers, Sequences, FiniteSets

CONSTANTS
  RowsPerWarp,    \* MMA_ROWS_PER_WARP
  TileTokens,     \* KV_TILE_TOKENS
  SlabTokens,     \* SLAB_TOKENS of the FA2 workspace
  QueryCapacity   \* QUERY_CAPACITY of the FA2 workspace

ASSUME PlanOK ==
  /\ RowsPerWarp \in Nat \ {0} /\ TileTokens \in Nat \ {0}
  /\ SlabTokens \in Nat \ {0} /\ QueryCapacity \in Nat \ {0}
  /\ 2 * QueryCapacity <= SlabTokens

Least(x, y) == IF x <= y THEN x ELSE y
Most(x, y) == IF x >= y THEN x ELSE y
CeilDivide(a, b) == (a + b - 1) \div b

WarpChoices == {1, 2, 4}
MaxRows == 4 * RowsPerWarp

-----------------------------------------------------------------------------
(* The planner.                                                            *)

\* max_tokens_per_tile: the query tokens of one request a CTA holds.
MaxTokensPerTile(g) == MaxRows \div g

WmForRows(rows) ==
  CHOOSE wm \in WarpChoices :
    /\ rows <= RowsPerWarp * wm
    /\ \A v \in WarpChoices : rows <= RowsPerWarp * v => wm <= v

\* The KV tiles one row tile can touch at any alignment.
WindowCap_Aligned(window, qmax) == CeilDivide(window + qmax - 2, TileTokens)
WindowCap(window, qmax) == CeilDivide(window + qmax - 2, TileTokens) + 1

\* S_alone: the splits that let one row tile fill the GPU.
Alone(target, hkv) == CeilDivide(target, hkv)

\* W_ts: the token-splits of workspace reserved at load.
TokenSplits(seqs, qdec, target, hkv) ==
  Least(seqs, Alone(target, hkv)) * qdec * Alone(target, hkv)

\* plan_launch, without its checks (Refused): s_cap keeps S * T within the
\* workspace, and a window keeps S within the tiles it can touch.
NumSplits(want, reserve, tokens) == Most(1, Least(want, reserve \div tokens))

PlanLaunch(tokens, reqs, qmax, layer, prefill, target, hkv, reserve) ==
  LET bmax == MaxTokensPerTile(layer.g)
      tiles == CeilDivide(IF prefill THEN tokens ELSE qmax, bmax)
      wm == IF prefill THEN 4 ELSE WmForRows(CeilDivide(qmax, tiles) * layer.g)
      fill == NumSplits(CeilDivide(target, hkv * tiles), reserve, tokens)
  IN [tokens |-> tokens, reqs |-> reqs, qmax |-> qmax, g |-> layer.g,
      window |-> layer.window, causal |-> layer.causal, wm |-> wm,
      bq |-> (RowsPerWarp * wm) \div layer.g,
      splits |-> IF layer.window > 0 THEN Least(fill, WindowCap(layer.window, qmax))
                 ELSE fill]

\* What raises: the planner's range checks, the Impl's comparison with its
\* reservation, and the op's checks of the scalars.
Refused(l, reserved) ==
  \/ l.qmax > l.tokens \/ l.tokens > l.reqs * l.qmax
  \/ l.splits > 1 /\ l.splits * l.tokens > reserved
  \/ l.splits < 1 \/ l.g > RowsPerWarp * l.wm

-----------------------------------------------------------------------------
(* The kernel's geometry.  Requests count from 1, tiles and tokens from 0. *)

\* launch.cu tile_tokens: the row tile is as short as the longest request
\* when that keeps the planned warps.
TileHeight(l) ==
  LET capacity == (RowsPerWarp * l.wm) \div l.g
  IN IF l.qmax < capacity /\ WmForRows(l.qmax * l.g) = l.wm THEN l.qmax ELSE capacity

\* grid.x of the launch.
GridTiles_ByTokens(l, b) == CeilDivide(l.tokens, b)
GridTiles(l, b) == l.tokens \div b + l.reqs

FirstTile(dev, b, r) == dev.qsl[r] \div b + (r - 1)

\* find_request: the last request whose tiles start at or before x.
OwnsTile(dev, b, reqs, r, x) ==
  /\ FirstTile(dev, b, r) <= x
  /\ r < reqs => x < FirstTile(dev, b, r + 1)

QueryLen(dev, r) == dev.qsl[r + 1] - dev.qsl[r]

\* row_tile: the query tokens of tile x when request r owns it.
TileRows(dev, b, r, x) ==
  LET begin == (x - FirstTile(dev, b, r)) * b
  IN begin .. Least(begin + b, QueryLen(dev, r)) - 1

\* The inclusive range of keys row token i of request r sees.
KvLimit(dev, r, i) == dev.seq[r] - QueryLen(dev, r) + i
WindowLo(l, dev, r, i) ==
  IF l.window > 0 THEN Most(0, KvLimit(dev, r, i) - l.window + 1) ELSE 0
WindowHi(l, dev, r, i) ==
  IF l.causal THEN KvLimit(dev, r, i)
  ELSE IF l.window > 0 THEN Least(dev.seq[r] - 1, KvLimit(dev, r, i) + l.window - 1)
  ELSE dev.seq[r] - 1

\* split_tile_range: split s of n takes the tiles [s*T/n, (s+1)*T/n).
SplitRange(s, n, tiles) == (s * tiles) \div n .. ((s + 1) * tiles) \div n - 1

\* The KV tiles a row tile walks: from the first key of its first row to the
\* last key of its last row.
KvTiles(l, dev, r, rows) ==
  LET top == CHOOSE i \in rows : \A j \in rows : i <= j
      bottom == CHOOSE i \in rows : \A j \in rows : j <= i
  IN WindowLo(l, dev, r, top) \div TileTokens ..
       CeilDivide(WindowHi(l, dev, r, bottom) + 1, TileTokens) - 1

\* The keys split s of a row tile adds to row token i.
SplitKeys(l, dev, r, rows, s, i) ==
  LET tiles == KvTiles(l, dev, r, rows)
      first == CHOOSE t \in tiles : \A u \in tiles : t <= u
      mine == {first + t : t \in SplitRange(s, l.splits, Cardinality(tiles))}
  IN {k \in WindowLo(l, dev, r, i) .. WindowHi(l, dev, r, i) : k \div TileTokens \in mine}

-----------------------------------------------------------------------------
(* The slabs of the FA2 prefill.                                           *)

SlabCount(seq) == CeilDivide(seq, SlabTokens)

\* slabs(): the i-th slab ends where i balanced shares of the keys end; the
\* remainder goes to the first ones.
SlabEnd(seq, i) == i * (seq \div SlabCount(seq)) + Least(i, seq % SlabCount(seq))
SlabKeys(seq, i) == SlabEnd(seq, i - 1) .. SlabEnd(seq, i) - 1

\* FlashAttention over slab i of n: all of it, but the last slab is causal
\* with the diagonal at its bottom right corner.
SlabRowKeys(seq, qlen, i, tok) ==
  IF i = SlabCount(seq)
  THEN {k \in SlabKeys(seq, i) : k - SlabEnd(seq, i) <= tok - qlen}
  ELSE SlabKeys(seq, i)
=============================================================================
