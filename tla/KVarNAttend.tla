---------------------------- MODULE KVarNAttend ----------------------------
(***************************************************************************)
(* What each query row of a KVarN layer attends to.                        *)
(*                                                                         *)
(* build() turns a batch into metadata; forward() routes it to one of five *)
(* paths, which end in one of four kernels or in FlashAttention over a     *)
(* packed copy of the cache.  They split the context differently (by       *)
(* block, by chunk, by split-K slice, by query token) and read a block     *)
(* from its fp16 slot or its int4 tile.  A read is a record of the request *)
(* and position it fetches, the copy it comes from and the program that    *)
(* makes it; the result of a row is the set of its reads.                  *)
(***************************************************************************)
EXTENDS Integers, Sequences, FiniteSets, SequencesExt, FiniteSetsExt

CONSTANTS
  G,        \* tokens per tile (cfg.group)
  BlockN,   \* BLOCK_N: tokens per chunk of the kernels' inner loop
  Batches,  \* batches: sequences of [cached, qlen]
  Configs   \* deployments: see Config

\* The environment variables and sizes the routing depends on.
Config == [
  num_spec     : Nat,        \* draft tokens per step
  window       : Nat,        \* sliding window, 0 = none
  fused_verify : BOOLEAN,    \* KVARN_FUSED_VERIFY
  maxq         : Nat,        \* KVARN_FUSED_VERIFY_MAXQ
  min_blocks   : Nat,        \* KVARN_FUSED_VERIFY_MIN_BLOCKS
  flash        : BOOLEAN,    \* FlashAttention present and head_size <= 256
  fa_rows      : Nat,        \* rows of the shared packed K/V scratch
  fused_decode : BOOLEAN,    \* KVARN_FUSED_DECODE
  split_k      : {"", "0", "1"},  \* KVARN_SPLIT_K, "" = unset
  kv_splits    : Nat,        \* KVARN_NUM_KV_SPLITS, 0 = unset
  shared       : BOOLEAN,    \* KVARN_SHARED_VERIFY
  max_blocks   : Nat \ {0},  \* ceil(max_model_len / group)
  sm           : Nat,        \* B * Hk programs that fill the GPU, per head
  mid_rows     : Nat]        \* rows of the split-K partial buffer, per head

ASSUME AttendOK ==
  /\ G \in Nat \ {0} /\ BlockN \in 1 .. G /\ G % BlockN = 0
  /\ Batches \subseteq Seq([cached : Nat, qlen : Nat \ {0}]) \ {<<>>}
  /\ Configs \subseteq Config

VARIABLES
  cfg,       \* the deployment
  batch,     \* the step's requests, as the runner orders them
  pad,       \* padded requests behind them, when a captured graph is replayed
  causal,    \* CommonAttentionMetadata.causal
  resident,  \* <<request, block>> pairs that hold an fp16 slot
  md,        \* KVarNMetadata, <<>> before build
  route,     \* the path forward() took, "" before
  out        \* per query row, the reads behind its output

vars == <<cfg, batch, pad, causal, resident, md, route, out>>

Min2(x, y) == IF x <= y THEN x ELSE y
Max2(x, y) == IF x >= y THEN x ELSE y
CeilDiv(x, y) == (x + y - 1) \div y
PowersOf2 == {1, 2, 4, 8, 16}

SeqLen(q) == q.cached + q.qlen

\* reorder_batch_threshold: a verify step counts as decode if it may be fused.
Threshold == IF cfg.fused_verify THEN 1 + cfg.num_spec ELSE 1
Sum(q, n) == LET f[i \in 0 .. n] == IF i = 0 THEN 0 ELSE f[i - 1] + q[i] IN f[n]
Total(s) == Sum(s, Len(s))

\* Where request r keeps block k.
Copy(r, k) == IF <<r, k>> \in resident THEN "slot" ELSE "tile"

-----------------------------------------------------------------------------
(* build(): the metadata.                                                  *)

Requests == DOMAIN batch
QLens == [b \in 1 .. Len(batch) + pad |->
            IF b \in Requests THEN batch[b].qlen ELSE 0]
SeqLens == [b \in 1 .. Len(batch) + pad |->
              IF b \in Requests THEN SeqLen(batch[b]) ELSE 0]
MaxQ == Max({batch[b].qlen : b \in Requests})
MaxSeq == Max({SeqLen(batch[b]) : b \in Requests})

\* A replayed graph runs as many rows as it was captured with.
NumTokens == IF pad = 0 THEN Total(QLens) ELSE Len(QLens) * MaxQ

\* split_decodes_and_prefills: the requests before the first long query.
NumDecodes ==
  IF MaxQ <= Threshold THEN Len(QLens)
  ELSE Min({b \in Requests : batch[b].qlen > Threshold}) - 1
NumDecodeTokens ==
  IF MaxQ <= Threshold THEN NumTokens
  ELSE Total(SubSeq(QLens, 1, NumDecodes))

\* The verify plan: one kernel row per decode token, its request and the
\* length of the context it sees.  Padded rows see nothing.
PlanOf(b) == [j \in 1 .. QLens[b] |->
  [req |-> b, len |-> IF causal THEN SeqLens[b] - QLens[b] + j ELSE SeqLens[b]]]
FlatPlan == FlattenSeq([b \in 1 .. NumDecodes |-> PlanOf(b)])
Plan_StaleTail ==
  FlatPlan \o [i \in 1 .. NumDecodeTokens - Len(FlatPlan) |-> [req |-> 1, len |-> 1]]
Plan == FlatPlan \o
  [i \in 1 .. NumDecodeTokens - Len(FlatPlan) |-> [req |-> 1, len |-> 0]]

\* The decode portion's uniform query length, or 0.  A replayed graph took its
\* branch when it was captured, on a full batch.
UniformQLen ==
  IF /\ causal /\ QLens[1] >= 2
     /\ \A b \in 1 .. NumDecodes : QLens[b] = QLens[1] \/ (pad > 0 /\ QLens[b] = 0)
  THEN QLens[1] ELSE 0

HasCachedMultiquery_AnyLong == \E b \in Requests : batch[b].qlen > Threshold
                                                   /\ batch[b].cached > 0
HasCachedMultiquery ==
  \E b \in Requests : batch[b].qlen > 1 /\ batch[b].cached > 0

\* A slice of the batch: what a path is handed.
Slice(from, to, plan, qlen, maxq) ==
  [reqs |-> [i \in 1 .. to - from + 1 |->
               [id |-> from + i - 1, qlen |-> QLens[from + i - 1],
                seq |-> SeqLens[from + i - 1]]],
   maxq |-> maxq, plan |-> plan, vqlen |-> qlen]

\* What forward() is told of the step besides its tensors.
Metadata(plan, vqlen) ==
  [num_decodes |-> NumDecodes,
   decode_tokens |-> NumDecodeTokens,
   tokens |-> NumTokens,
   is_prefill |-> MaxQ > 1,
   cached_multiquery |-> HasCachedMultiquery,
   max_seq |-> MaxSeq,
   plan |-> plan,
   vqlen |-> vqlen]

\* Only a decode portion of several tokens per request has a verify plan.
Build ==
  /\ md = <<>>
  /\ md' = IF NumDecodes > 0 /\ NumDecodeTokens > NumDecodes
           THEN Metadata(Plan, UniformQLen) ELSE Metadata(<<>>, 0)
  /\ UNCHANGED <<cfg, batch, pad, causal, resident, route, out>>
-----------------------------------------------------------------------------
(* The kernels.  Blocks and positions count from 0.                        *)

\* Tokens of block k below a row's length.
TokensIn(len, k) == Min2(Max2(len - k * G, 0), G)

\* The loop every kernel shares: blocks lo .. hi - 1 of request r in chunks of
\* BlockN, masked by the row's length and its window.
Scan(r, lo, hi, len, from, split) ==
  {[req |-> r, pos |-> x[1] * G + x[2] * BlockN + x[3],
    copy |-> Copy(r, x[1]), split |-> split, chunk |-> x[2]] :
     x \in {x \in (lo .. hi - 1) \X (0 .. G \div BlockN - 1) \X (0 .. BlockN - 1) :
              LET col == x[2] * BlockN + x[3]
              IN /\ col < TokensIn(len, x[1])
                 /\ from <= x[1] * G + col}}

WindowStart(len) == IF cfg.window > 0 THEN Max2(len - cfg.window, 0) ELSE 0

\* _kvarn_fused_decode_kernel: one program walks the row's whole context.
FusedRow(r, len) ==
  Scan(r, WindowStart(len) \div G, CeilDiv(len, G), len, WindowStart(len), 0)

\* adaptive_num_kv_splits
NumSplits ==
  IF cfg.kv_splits > 0 THEN cfg.kv_splits
  ELSE IF cfg.max_blocks <= 256 THEN 32 ELSE 64

\* _kvarn_fused_decode_stage1: program `split` walks its slice of the blocks.
PerSplit(blocks, splits) == CeilDiv(blocks, splits)
SplitOf(r, len, from, splits, split) ==
  LET blocks == CeilDiv(len, G)
      lo == split * PerSplit(blocks, splits)
  IN Scan(r, lo, Min2(lo + PerSplit(blocks, splits), blocks), len, from, split)

\* _kvarn_fused_decode_stage2: the log-sum-exp of the partials weighs each
\* split by its own keys; an empty one has weight 0.
SplitRow(r, len) ==
  UNION {SplitOf(r, len, WindowStart(len), NumSplits, s) : s \in 0 .. NumSplits - 1}

\* _kvarn_fused_verify_stage1: the QLEN rows of a request share one walk over
\* its context, the last row's, and mask it each at its own limit.
SharedLimit(len, qlen, j) == len - qlen + j
SharedRow(r, len, qlen, j, splits) ==
  LET limit == SharedLimit(len, qlen, j)
  IN IF len <= 0 THEN {}
     ELSE {x \in UNION {SplitOf(r, len, WindowStart(limit), splits, s) :
                          s \in 0 .. splits - 1} : x.pos < limit}

\* _kvarn_build_packed_kv_kernel: block k of request b goes to rows
\* cu_seqlens[b] + k * G .. of the packed copy.  The scratch it packs into ends
\* after cfg.fa_rows; what is written behind it is no longer the copy's.
CuSeqLens(reqs, b) == Total([i \in 1 .. b - 1 |-> reqs[i].seq])
Packed(reqs) ==
  {p \in UNION {{[row |-> CuSeqLens(reqs, b) + x.pos, read |-> x] :
                   x \in Scan(reqs[b].id, 0, cfg.max_blocks, reqs[b].seq, 0, 0)} :
                b \in DOMAIN reqs} : p.row < cfg.fa_rows}

\* A read behind the scratch: undefined, whatever that memory holds.
Stray(row) == [req |-> 0, pos |-> row, copy |-> "stray", split |-> 0, chunk |-> 0]

\* flash_attn_varlen_func: row j of request b attends the packed rows between
\* cu_k[b] and cu_k[b + 1], up to the bottom-right diagonal if causal.
FlashRow(reqs, packed, diagonal, b, j) ==
  LET first == CuSeqLens(reqs, b)
      last == IF diagonal THEN first + reqs[b].seq - reqs[b].qlen + j
                          ELSE first + reqs[b].seq
  IN {p.read : p \in {p \in packed : first <= p.row /\ p.row < last}}
     \cup {Stray(row) : row \in Max2(first, cfg.fa_rows) .. last - 1}

\* One result per query token of a slice, in token order.
PerToken(reqs, Row(_, _)) ==
  FlattenSeq([b \in DOMAIN reqs |-> [j \in 1 .. reqs[b].qlen |-> Row(b, j)]])

-----------------------------------------------------------------------------
(* The drivers and the paths of forward().                                 *)

\* kvarn_decode_attention, one row per request.  Unfused, it packs whatever the
\* batch holds: nothing compares that with the scratch.
DecodeSplits(rows) ==
  /\ cfg.fused_decode /\ rows <= cfg.mid_rows
  /\ IF cfg.split_k # "" THEN cfg.split_k = "1"
     ELSE cfg.window = 0 /\ cfg.max_blocks >= 16 /\ rows <= cfg.sm
DecodeAttention(reqs) ==
  LET packed == Packed(reqs)
  IN [b \in DOMAIN reqs |->
        IF DecodeSplits(Len(reqs)) THEN SplitRow(reqs[b].id, reqs[b].seq)
        ELSE IF cfg.fused_decode THEN FusedRow(reqs[b].id, reqs[b].seq)
        ELSE FlashRow(reqs, packed, FALSE, b, 1)]

\* kvarn_verify_attention, one row per token of the plan.
VerifySplits == (cfg.window = 0 /\ cfg.max_blocks >= 16) \/ cfg.split_k = "1"
SharedVerify(plan, qlen) ==
  cfg.shared /\ qlen >= 2 /\ Len(plan) % qlen = 0 /\ qlen \in PowersOf2
VerifyAttention(reqs, plan, qlen) ==
  LET programs == Len(plan) \div Max2(qlen, 1)
      splits == IF cfg.max_blocks >= 16 /\ programs <= cfg.sm THEN NumSplits ELSE 1
  IN [t \in DOMAIN plan |->
        IF SharedVerify(plan, qlen)
        THEN LET b == (t - 1) \div qlen + 1
             IN SharedRow(reqs[b].id, plan[b * qlen].len, qlen,
                          ((t - 1) % qlen) + 1, splits)
        ELSE IF VerifySplits THEN SplitRow(reqs[plan[t].req].id, plan[t].len)
        ELSE FusedRow(reqs[plan[t].req].id, plan[t].len)]

\* _prefill_first_chunk: the step's own keys, before any cache.
FirstChunk(reqs) ==
  PerToken(reqs, LAMBDA b, j :
    {[req |-> reqs[b].id, pos |-> i, copy |-> "own", split |-> 0, chunk |-> 0] :
       i \in 0 .. (IF causal THEN j ELSE reqs[b].qlen) - 1})

\* _decode_path_slow over _gather_request_kv: a mask at the diagonal, always.
Gathered(r, len) ==
  {[req |-> r, pos |-> i, split |-> 0, chunk |-> 0,
    copy |-> IF i \div G >= len \div G /\ Copy(r, i \div G) = "tile"
             THEN "zeros" ELSE Copy(r, i \div G)] : i \in 0 .. len - 1}
SlowPath(reqs) ==
  PerToken(reqs, LAMBDA b, j :
    {x \in Gathered(reqs[b].id, reqs[b].seq) : x.pos < reqs[b].seq - reqs[b].qlen + j})

\* _fused_verify_path: a plan of its own, with the diagonal, never uniform.
FusedVerify(reqs) ==
  VerifyAttention(reqs,
    PerToken(reqs, LAMBDA b, j : [req |-> b, len |-> reqs[b].seq - reqs[b].qlen + j]), 0)

\* _cached_multiquery_path: fused, slow, or packed for FlashAttention.
TakesFused(s) ==
  /\ cfg.fused_verify /\ s.maxq <= cfg.maxq
  /\ CeilDiv(md.max_seq, G) >= cfg.min_blocks
PackedRows(reqs) == Total([b \in DOMAIN reqs |-> reqs[b].seq])
TakesSlow(s) == ~cfg.flash \/ PackedRows(s.reqs) > cfg.fa_rows
CachedMultiquery(s) ==
  IF TakesFused(s) THEN FusedVerify(s.reqs)
  ELSE IF TakesSlow(s) THEN SlowPath(s.reqs)
  ELSE LET packed == Packed(s.reqs)
       IN PerToken(s.reqs, LAMBDA b, j : FlashRow(s.reqs, packed, causal, b, j))

All == Slice(1, Len(QLens), md.plan, md.vqlen, MaxQ)
Decodes == Slice(1, md.num_decodes, md.plan, md.vqlen, 1)
Prefills == Slice(md.num_decodes + 1, Len(QLens), <<>>, 0, MaxQ)

DecodePortion(s) ==
  IF s.plan # <<>> THEN VerifyAttention(s.reqs, s.plan, s.vqlen)
  ELSE DecodeAttention(s.reqs)
PrefillPortion(s) ==
  IF md.cached_multiquery THEN CachedMultiquery(s) ELSE FirstChunk(s.reqs)

PureVerify == md.plan # <<>> /\ md.decode_tokens = md.tokens

\* forward(): one action per route.
Take(name, rows) ==
  /\ md # <<>> /\ route = ""
  /\ route' = name /\ out' = rows
  /\ UNCHANGED <<cfg, batch, pad, causal, resident, md>>

Decode   == /\ md # <<>> /\ ~md.is_prefill
            /\ Take("decode", DecodeAttention(All.reqs))
Verify   == /\ md # <<>> /\ md.is_prefill /\ PureVerify
            /\ Take("verify", VerifyAttention(All.reqs, md.plan, md.vqlen))
Prefill  == /\ md # <<>> /\ md.is_prefill /\ ~PureVerify /\ md.num_decodes = 0
            /\ Take("prefill", PrefillPortion(All))
Mixed    == /\ md # <<>> /\ md.is_prefill /\ ~PureVerify /\ md.num_decodes > 0
            /\ Take("mixed", DecodePortion(Decodes) \o PrefillPortion(Prefills))

-----------------------------------------------------------------------------
(* The steps.  The runner puts requests that continue with one token first *)
(* (another group of the model may order the rest differently).  Only a    *)
(* captured graph pads, and its batches are uniform and short.  Only the   *)
(* drafter runs bidirectional steps, of the same few tokens per request.   *)
(* The allocator keeps what the step writes in slots; blocks behind it,    *)
(* the first above all, may have one too.                                  *)

Ordered(s) == \A i, j \in DOMAIN s :
  s[j].qlen = 1 /\ s[j].cached > 0 /\ i < j => s[i].qlen = 1 /\ s[i].cached > 0
Uniform(s, n) == \A b \in DOMAIN s : s[b].qlen = s[1].qlen /\ s[b].qlen <= n
WrittenBlocks(s) ==
  UNION {{<<b, k>> : k \in s[b].cached \div G .. (SeqLen(s[b]) - 1) \div G} : b \in DOMAIN s}
OldBlocks(s) ==
  UNION {{<<b, k>> : k \in 0 .. s[b].cached \div G - 1} : b \in DOMAIN s}

Init ==
  /\ cfg \in Configs /\ batch \in Batches /\ Ordered(batch)
  /\ \A b \in DOMAIN batch : SeqLen(batch[b]) <= cfg.max_blocks * G
  /\ pad \in IF Uniform(batch, Threshold) THEN {0, 1} ELSE {0}
  /\ causal \in IF Uniform(batch, 1 + cfg.num_spec) THEN BOOLEAN ELSE {TRUE}
  /\ \E kept \in {{}, OldBlocks(batch), {x \in OldBlocks(batch) : x[2] = 0}} :
       resident = WrittenBlocks(batch) \cup kept
  /\ md = <<>> /\ route = "" /\ out = <<>>

Next == Build \/ Decode \/ Verify \/ Prefill \/ Mixed

Spec == Init /\ [][Next]_vars

-----------------------------------------------------------------------------
(* Properties.                                                             *)

\* The request and place in it of query row t; rows behind them are padding.
RowsOf == FlattenSeq([b \in Requests |-> [j \in 1 .. batch[b].qlen |-> <<b, j>>]])

\* The positions row j of request b is due.
Due(b, j) ==
  LET len == IF causal THEN batch[b].cached + j ELSE SeqLen(batch[b])
  IN WindowStart(len) .. len - 1

\* The copy that holds position i of request b; the step's own keys are also
\* at hand unquantized.
Holds(b, i, copy) ==
  copy = Copy(b, i \div G) \/ (copy = "own" /\ i >= batch[b].cached)

AttendsDue(t) ==
  LET b == RowsOf[t][1]
  IN /\ {x.pos : x \in out[t]} = Due(b, RowsOf[t][2])
     /\ Cardinality(out[t]) = Cardinality({x.pos : x \in out[t]})
     /\ \A x \in out[t] : x.req = b /\ Holds(b, x.pos, x.copy)

\* The paths that know neither the window nor the causal flag of the step.
Windowed == cfg.window > 0 /\ (~cfg.fused_decode \/ route \in {"prefill", "mixed"})
Diagonal == ~causal /\ route \in {"prefill", "mixed"}
              /\ md.cached_multiquery /\ (TakesFused(Prefills) \/ TakesSlow(Prefills))

\* A step whose decodes are packed and are more than the scratch has rows for.
Overruns == ~cfg.fused_decode /\ md.plan = <<>> /\ PackedRows(Decodes.reqs) > cfg.fa_rows

\* Every query row attends exactly the positions it is due, each once, in its
\* own request and from the copy that holds it, whichever route, kernel, split
\* and padding the step runs with.
RowsAttendTheirDue ==
  route # "" /\ ~Windowed /\ ~Diagonal /\ ~Overruns =>
    \A t \in DOMAIN RowsOf : AttendsDue(t)

\* A padded row of a replayed graph reads nothing: its block-table row is
\* whatever an earlier batch left there.
PaddedRowsReadNothing ==
  route # "" => \A t \in DOMAIN out : t > Len(RowsOf) => out[t] = {}
=============================================================================
