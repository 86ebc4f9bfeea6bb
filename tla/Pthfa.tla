------------------------------- MODULE Pthfa -------------------------------
(***************************************************************************)
(* A step of the pthfa attention backend: the builder splits the batch     *)
(* into a decode and a prefill launch, a decode launch may be captured in  *)
(* a CUDA graph and replayed on other lengths, and a long prefill of the   *)
(* only request may go through the FA2 slab workspace, which streams take  *)
(* over from one another.                                                  *)
(***************************************************************************)
EXTENDS PthPlan

CONSTANTS
  Layers,      \* [g, window, causal, target, seqs, slab]: layers and their server
  Hkv,         \* KV heads on this rank
  QDec,        \* 1 + num_speculative_tokens
  SlabFloor,   \* the shortest prefill that stays with the native kernel
  QLens,       \* query lengths a batch may hold
  SeqLens,     \* KV lengths a request may have
  Streams,     \* CUDA streams
  Loader       \* the stream that allocated the slab workspace

None == << >>

\* What a builder serves; it raises for any other group of layers.
Served == [g : 1 .. MaxRows, window : Nat, causal : BOOLEAN,
           target : Nat \ {0}, seqs : Nat \ {0}, slab : BOOLEAN]

ASSUME PthOK ==
  /\ Hkv \in Nat \ {0} /\ QDec \in Nat \ {0} /\ SlabFloor \in Nat
  /\ QLens \subseteq Nat \ {0} /\ SeqLens \subseteq Nat \ {0} /\ Loader \in Streams
  /\ None \notin Streams
  /\ Layers \subseteq Served
  /\ \A l \in Layers : l.slab => l.seqs = 1 /\ l.window = 0

VARIABLES
  layer,      \* the layer and the server it runs in
  graph,      \* the decode launch captured in a CUDA graph, or None
  step,       \* the launches of the current forward and the device's lengths
  owner,      \* owner_stream of the slab workspace, or None
  after,      \* after[s]: streams whose queued uses precede what s queues next
  used,       \* the streams that have queued a use of the workspace
  user        \* the last of them

vars == <<layer, graph, step, owner, after, used, user>>

\* reorder_batch_threshold: a full row tile, or the verify length.
Threshold == Most(MaxTokensPerTile(layer.g), QDec)

\* The Impl reserves and the builder clamps with the same function.
Reserved == TokenSplits(layer.seqs, QDec, layer.target, Hkv)
BuilderReserve_Threshold == TokenSplits(layer.seqs, Threshold, layer.target, Hkv)
BuilderReserve == TokenSplits(layer.seqs, QDec, layer.target, Hkv)

Sum(q, n) == LET f[i \in 0 .. n] == IF i = 0 THEN 0 ELSE f[i - 1] + q[i] IN f[n]
StartLoc(q) == [r \in 1 .. Len(q) + 1 |-> Sum(q, r - 1)]
Greatest(S) == CHOOSE x \in S : \A y \in S : y <= x

-----------------------------------------------------------------------------
(* The builder.                                                            *)

\* split_decodes_and_prefills: the requests before the first long one.
NumDecodes(q) ==
  Greatest({n \in 0 .. Len(q) : \A r \in 1 .. n : q[r] <= Threshold})

\* _slice: requests from .. to, their launch, and the device's lengths rebased
\* to the slice's first token.
Rebased(qsl) == [r \in DOMAIN qsl |-> qsl[r] - qsl[1]]
Slice(q, seq, from, to, qmax, prefill) ==
  LET tokens == Sum(q, to) - Sum(q, from - 1)
  IN [plan |-> PlanLaunch(tokens, to - from + 1, qmax, layer, prefill,
                          layer.target, Hkv, BuilderReserve),
      start |-> Sum(q, from - 1), from |-> from,
      dev |-> [qsl |-> Rebased(SubSeq(StartLoc(q), from, to + 1)),
               seq |-> SubSeq(seq, from, to)]]

\* build(): the decode launch is bounded by the longest decode, the prefill
\* launch by the longest request.
Build(q, seq) ==
  LET n == NumDecodes(q)
      longest == Greatest({q[r] : r \in DOMAIN q})
  IN (IF n = 0 THEN {}
      ELSE {Slice(q, seq, 1, n, Greatest({q[r] : r \in 1 .. n}), FALSE)})
     \cup
     (IF n = Len(q) THEN {} ELSE {Slice(q, seq, n + 1, Len(q), longest, TRUE)})

-----------------------------------------------------------------------------
\* The slab workspace as its allocation leaves it.
NewWorkspace ==
  /\ owner = None /\ used = {Loader} /\ user = Loader
  /\ after = [s \in Streams |-> {}]

\* The step's metadata: the lengths, and the launches of the path it takes.
Metadata(path, q, seq, launches) ==
  [path |-> path, q |-> q, seq |-> seq, launches |-> launches]

Init ==
  /\ layer \in Layers
  /\ graph = None /\ step = None
  /\ NewWorkspace

Batches(n) == {q \in [1 .. n -> QLens \X SeqLens] : \A r \in 1 .. n : q[r][1] <= q[r][2]}

Idle == step = None

\* A uniform decode batch is captured once; only its plan is kept, and the
\* warm-up launch runs with seq_lens = 1 and is not read.
Capture(n, len) ==
  /\ Idle /\ graph = None
  /\ n <= layer.seqs /\ len <= Threshold
  /\ LET q == [r \in 1 .. n |-> len]
     IN graph' = (CHOOSE s \in Build(q, q) : TRUE).plan
  /\ UNCHANGED <<layer, step, owner, after, used, user>>

\* An eager step: the native kernels run the batch's one or two launches.
SlabEligible(q) ==
  /\ layer.slab /\ layer.causal
  /\ Len(q) = 1 /\ NumDecodes(q) = 0
  /\ SlabFloor < q[1] /\ q[1] <= QueryCapacity

Native(batch) ==
  /\ Idle
  /\ LET q == [r \in DOMAIN batch |-> batch[r][1]]
         seq == [r \in DOMAIN batch |-> batch[r][2]]
     IN /\ Len(q) <= layer.seqs
        /\ ~SlabEligible(q)
        /\ step' = Metadata("native", q, seq, Build(q, seq))
  /\ UNCHANGED <<layer, graph, owner, after, used, user>>

\* A replay: the captured launch over the lengths the device holds now; a
\* request may have fewer tokens than the host planned (adaptive
\* verification), and padded requests have none.
Replay(q, seq) ==
  /\ Idle /\ graph # None
  /\ Len(q) = graph.reqs
  /\ \A r \in DOMAIN q : q[r] <= graph.qmax /\ q[r] <= seq[r]
  /\ step' = Metadata("replay", q, seq,
               {[plan |-> graph, start |-> 0, from |-> 1,
                 dev |-> [qsl |-> StartLoc(q), seq |-> seq]]})
  /\ UNCHANGED <<layer, graph, owner, after, used, user>>

\* claim_stream: the first user waits for the stream that allocated, a new
\* one for the stream before it.
WaitsFor_Loader(s) == IF owner = s THEN {} ELSE {Loader}
WaitsFor(s) == IF owner = None THEN {Loader} ELSE IF owner # s THEN {owner} ELSE {}

\* try_prefill: the workspace is claimed and the slabs are run on stream s.
SlabPrefill(batch, s) ==
  /\ Idle
  /\ LET q == <<batch[1][1]>>
         seq == <<batch[1][2]>>
     IN /\ SlabEligible(q)
        /\ step' = Metadata("slab", q, seq, {})
  /\ owner' = s /\ user' = s /\ used' = used \cup {s}
  /\ LET waits == WaitsFor(s) \ {s}
         behind == (after[s] \cup waits \cup UNION {after[t] : t \in waits}) \ {s}
     IN after' = [t \in Streams |-> IF t = s THEN behind ELSE after[t] \ {s}]
  /\ UNCHANGED <<layer, graph>>

Finish ==
  /\ step # None
  /\ step' = None
  /\ UNCHANGED <<layer, graph, owner, after, used, user>>

Next ==
  \/ \E n \in 1 .. layer.seqs, len \in QLens : Capture(n, len)
  \/ \E n \in 1 .. layer.seqs : \E batch \in Batches(n) : Native(batch)
  \/ graph # None /\ \E q \in [1 .. graph.reqs -> QLens \cup {0}],
                       seq \in [1 .. graph.reqs -> SeqLens] : Replay(q, seq)
  \/ \E batch \in Batches(1), s \in Streams : SlabPrefill(batch, s)
  \/ Finish

Spec == Init /\ [][Next]_vars

-----------------------------------------------------------------------------
(* Properties.                                                             *)

\* The keys token i of request r is due: those at or before it (all of them
\* for a non-causal layer) that its window reaches.
Due(r, i) ==
  LET p == step.seq[r] - step.q[r] + i
  IN {k \in 0 .. step.seq[r] - 1 :
        /\ layer.causal => k <= p
        /\ layer.window > 0 => p - k < layer.window /\ k - p < layer.window}

\* The row tiles that compute token i of request r, as <<launch, tile>>.
Computing(r, i) ==
  UNION {LET b == TileHeight(l.plan)
             mine == r - l.from + 1
         IN {<<l, x>> : x \in {y \in 0 .. GridTiles(l.plan, b) - 1 :
                /\ mine \in 1 .. l.plan.reqs
                /\ OwnsTile(l.dev, b, l.plan.reqs, mine, y)
                /\ i \in TileRows(l.dev, b, mine, y)}} : l \in step.launches}

\* The keys each part (a split, or a slab) adds to that row.
Parts(r, i) ==
  IF step.path = "slab"
  THEN [s \in 1 .. SlabCount(step.seq[1]) |-> SlabRowKeys(step.seq[1], step.q[1], s, i)]
  ELSE LET c == CHOOSE c \in Computing(r, i) : TRUE
           mine == r - c[1].from + 1
           rows == TileRows(c[1].dev, TileHeight(c[1].plan), mine, c[2])
       IN [s \in 1 .. c[1].plan.splits |-> SplitKeys(c[1].plan, c[1].dev, mine, rows, s - 1, i)]

\* Every query row is computed by exactly one row tile, and its splits or
\* slabs together give it each key it is due once and no other, on a fresh
\* plan as on a replayed one (planner.py:37-60, cache_geometry.cuh:310-313).
RowsSeeTheirDue ==
  step # None => \A r \in DOMAIN step.q : \A i \in 0 .. step.q[r] - 1 :
    /\ step.path # "slab" => Cardinality(Computing(r, i)) = 1
    /\ LET parts == Parts(r, i)
       IN /\ UNION {parts[s] : s \in DOMAIN parts} = Due(r, i)
          /\ \A s, t \in DOMAIN parts : s # t => parts[s] \cap parts[t] = {}

\* A window's cap removes only splits that would have been empty: no row tile
\* walks more KV tiles than the cap (planner.py:47-60).
CapLosesNothing ==
  step # None /\ layer.window > 0 => \A r \in DOMAIN step.q : \A i \in 0 .. step.q[r] - 1 :
    \A c \in Computing(r, i) :
      LET mine == r - c[1].from + 1
          rows == TileRows(c[1].dev, TileHeight(c[1].plan), mine, c[2])
      IN Cardinality(KvTiles(c[1].plan, c[1].dev, mine, rows))
           <= WindowCap(layer.window, c[1].plan.qmax)

\* No batch the scheduler can build is refused by the planner, the Impl or the
\* op once the server is up (vllm_backend.py:132-136, 684-692).
NeverRefused ==
  /\ step # None => \A l \in step.launches : ~Refused(l.plan, Reserved)
  /\ graph # None => ~Refused(graph, Reserved)

\* The last use of the slab workspace is queued behind every other stream's
\* uses, so no two streams are ever in it at once (fa2_slab.py:89-92).
SlabOrdered == used \ {user} \subseteq after[user]
=============================================================================
