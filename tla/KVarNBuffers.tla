---------------------------- MODULE KVarNBuffers ----------------------------
(***************************************************************************)
(* Who owns what in the KVarN backend, from model load to serving.         *)
(*                                                                         *)
(* The slot allocator, its GPU mirror and the scratch are class-level      *)
(* state shared by the layers.  Two builders, the target's and the         *)
(* drafter's, are created for each KV cache, first the profiling one and   *)
(* then the real one, and both are given the draft layer.  A captured CUDA *)
(* graph replays with the tensor addresses of its capture, and the GPU     *)
(* runs behind the host, in the order of its queue.  What a step needs of  *)
(* the allocator is in KVarN; here a step keeps and adds any blocks.       *)
(***************************************************************************)
EXTENDS Integers, Sequences, SequencesExt

CONSTANTS
  Target, Draft,  \* the layers, in order: sequences of names
  Rows,           \* layer -> rows it needs of the shared split-K scratch
  Slots,          \* fp16 slots of a pool
  NumBlocks,      \* <<blocks of the profiling cache, of the real one>>
  Floor,          \* least size of the block lookup (1024)
  Bounds,         \* _lookup_upper_bound: 0 where none can be derived
  MaxBatch,       \* rows of the largest step
  Headroom        \* rows of a plan buffer at least (257 and 4096)

AllLayers == Target \o Draft
Layers == ToSet(AllLayers)
Kinds == {"target", "draft"}

ASSUME BuffersOK ==
  /\ Target \in Seq(Layers) /\ Draft \in Seq(Layers)
  /\ AllLayers # <<>> /\ IsInjective(AllLayers)
  /\ Rows \in [Layers -> Nat] /\ Slots \in Nat \ {0}
  /\ NumBlocks \in [1 .. 2 -> Nat \ {0}] /\ Bounds \subseteq Nat
  /\ \A b \in Bounds : b = 0 \/ \A i \in 1 .. 2 : NumBlocks[i] <= b
  /\ Floor \in Nat /\ MaxBatch \in Nat \ {0} /\ Headroom \in Nat
  /\ MaxBatch <= Headroom  \* max_num_seqs < 257, verify tokens <= 4096

VARIABLES
  stage,    \* "load", "profiled", "half" (target builder made), "cache", "serve"
  gen,      \* the KV cache: 0 = none yet, 1 = profiling, 2 = real
  lookup,   \* _lookup_upper_bound
  owner,    \* _owner: layer -> the builder <<kind, gen>>
  claimed,  \* _impl_by_name of the newest builder of each kind
  heap,     \* the class-level state and the layers' pointers into it
  ref,      \* layer -> the KV cache in _kv_cache_ref, 0 = None
  plan,     \* kind -> its builder's persistent buffers
  graphs,   \* captured graphs, with the addresses they baked in
  warm,     \* kind -> batch of its last warmup step, 0 = none
  pending,  \* the step built and not yet launched, <<>> = none
  queue     \* GPU work enqueued and not yet executed

vars == <<stage, gen, lookup, owner, claimed, heap, ref, plan, graphs, warm,
          pending, queue>>

None == [id |-> 0, size |-> 0, map |-> {}]

\* A plan's buffers: their address, rows, and the builds since the one whose
\* plan the device copy holds.
NewPlan(id) == [id |-> id, cap |-> 0, age |-> 0]
Older(age) == IF age < 2 THEN age + 1 ELSE 2

Newest(kind) == <<kind, gen>>
LayersOf(kind) == IF kind = "target" THEN AllLayers ELSE Draft

\* The layers a forward pass of the target model, or of the drafter, runs.
Runs(kind) == IF kind = "target" THEN Target ELSE Draft

\* _owned_impls: the claimed layers nobody has taken over since.
Owned(kind) == {l \in ToSet(LayersOf(kind)) :
                  l \in claimed[kind] /\ owner[l] = Newest(kind)}
FirstOwned(kind) ==
  LET s == LayersOf(kind)
  IN s[CHOOSE i \in DOMAIN s : s[i] \in Owned(kind)
                               /\ \A j \in 1 .. i - 1 : s[j] \notin Owned(kind)]

\* _owner: a layer starts without a builder.
Unowned == [l \in Layers |-> <<>>]

\* The class-level state before anything ran.
EmptyHeap ==
  [key     |-> [l \in Layers |-> "proxy"],             \* impl._group_key
   map     |-> [k \in Kinds \cup {"proxy"} |-> {}],    \* _block_to_slot_dict
   born    |-> [k \in Kinds \cup {"proxy"} |-> 0],     \* cache of its entries
   known   |-> [k \in Kinds \cup {"proxy"} |-> 0],     \* _max_known_block_id
   mirror  |-> [k \in Kinds \cup {"proxy"} |-> None],  \* its copy on the GPU
   scratch |-> [id |-> 0, rows |-> 0],                 \* _shared_mid_o_buf
   ptr     |-> [l \in Layers |-> [mirror |-> 0, scratch |-> 0, rows |-> 0]],
   warmed  |-> {},                                     \* _kernel_warmed
   next    |-> 1]                                      \* next address

Init ==
  /\ stage = "load" /\ gen = 0 /\ lookup \in Bounds
  /\ owner = Unowned
  /\ claimed = [k \in Kinds |-> {}]
  /\ heap = EmptyHeap
  /\ ref = [l \in Layers |-> 0]
  /\ plan = [k \in Kinds |-> NewPlan(0)]
  /\ graphs = {} /\ warm = [k \in Kinds |-> 0]
  /\ pending = <<>> /\ queue = <<>>

-----------------------------------------------------------------------------
(* _ensure_pool, outside a capture: grow what is too small, then bind.     *)

MaxOf(S) == CHOOSE x \in S : \A y \in S : y <= x
Blocks(map) == {m[1] : m \in map}
Fitting(map, size) == {m \in map : m[1] < size}

LookupSize_Unbounded(h, k, hint) ==
  MaxOf({hint, h.known[k] + 1, Floor})
LookupSize(h, k, hint) ==
  MaxOf({hint, h.known[k] + 1, Floor, lookup})

\* A mirror that is too small is replaced, and filled from the dict.
GrowMirror_Empty(h, k, hint) ==
  IF h.mirror[k].id # 0 /\ h.mirror[k].size >= LookupSize(h, k, hint) THEN h
  ELSE [h EXCEPT !.mirror[k] = [id |-> h.next, size |-> LookupSize(h, k, hint), map |-> {}],
                 !.next = h.next + 1]
GrowMirror(h, k, hint) ==
  IF h.mirror[k].id # 0 /\ h.mirror[k].size >= LookupSize(h, k, hint) THEN h
  ELSE [h EXCEPT !.mirror[k] = [id |-> h.next, size |-> LookupSize(h, k, hint),
                                map |-> Fitting(h.map[k], LookupSize(h, k, hint))],
                 !.next = h.next + 1]

GrowScratch(h, l) ==
  IF h.scratch.id # 0 /\ h.scratch.rows >= Rows[l] THEN h
  ELSE [h EXCEPT !.scratch = [id |-> h.next, rows |-> Rows[l]], !.next = h.next + 1]

Bind(h, l) ==
  [h EXCEPT !.ptr[l] = [mirror |-> h.mirror[h.key[l]].id,
                        scratch |-> h.scratch.id, rows |-> h.scratch.rows]]

\* The decode kernels take the layer's shape and the lookup's size as constants.
Warm(h, l) ==
  [h EXCEPT !.warmed = @ \cup {<<Rows[l], h.mirror[h.key[l]].size>>}]

\* The allocator state of a key comes into being with the first call.
Ensure(h, l, hint) ==
  LET k == h.key[l]
      born == [h EXCEPT !.born[k] = IF @ = 0 THEN gen ELSE @]
  IN Bind(GrowScratch(Warm(GrowMirror(born, k, hint), l), l), l)
EnsureAll(h, ls, hint) ==
  LET after[i \in 0 .. Len(ls)] ==
        IF i = 0 THEN h ELSE Ensure(after[i - 1], ls[i], hint)
  IN after[Len(ls)]

\* profile_run: every layer's forward, with no metadata and an empty cache.
ProfileRun ==
  /\ stage = "load"
  /\ stage' = "profiled" /\ heap' = EnsureAll(heap, AllLayers, 0)
  /\ UNCHANGED <<gen, lookup, owner, claimed, ref, plan, graphs, warm, pending, queue>>

-----------------------------------------------------------------------------
(* The builders.                                                           *)

\* A layer is claimed if unowned, or if its owner has no fewer layers.
Claims_FewerOnly(kind, g) ==
  {l \in ToSet(LayersOf(kind)) :
     owner[l] = <<>> \/ Len(LayersOf(kind)) < Len(LayersOf(owner[l][1]))}
Claims(kind, g) ==
  {l \in ToSet(LayersOf(kind)) :
     owner[l] = <<>> \/ Len(LayersOf(kind)) <= Len(LayersOf(owner[l][1]))}

\* _reset_group_state: nothing of the cache before survives under the key.
ResetHeap_KeepsMap(h, kind, ls) ==
  [h EXCEPT !.mirror[kind] = None,
            !.key = [l \in Layers |-> IF l \in ls THEN kind ELSE h.key[l]]]
ResetHeap(h, kind, ls) ==
  [h EXCEPT !.map[kind] = {}, !.born[kind] = 0, !.known[kind] = 0, !.mirror[kind] = None,
            !.key = [l \in Layers |-> IF l \in ls THEN kind ELSE h.key[l]],
            !.ptr = [l \in Layers |-> IF l \in ls THEN [h.ptr[l] EXCEPT !.mirror = 0]
                                                  ELSE h.ptr[l]]]
ResetRef(ls) == [l \in Layers |-> IF l \in ls THEN 0 ELSE ref[l]]

NewBuilder(kind, g) ==
  LET mine == Claims(kind, g)
  IN /\ owner' = [l \in Layers |-> IF l \in mine THEN <<kind, g>> ELSE owner[l]]
     /\ claimed' = [claimed EXCEPT ![kind] = mine]
     /\ heap' = ResetHeap(heap, kind, mine)
     /\ ref' = ResetRef(mine)
     /\ plan' = [plan EXCEPT ![kind] = NewPlan(@.id)]
     /\ UNCHANGED <<lookup, graphs, pending, queue>>

\* initialize_kv_cache: the target's builder, then the drafter's.
InitTarget ==
  /\ stage = "profiled" /\ gen < 2
  /\ gen' = gen + 1 /\ stage' = IF Draft = <<>> THEN "cache" ELSE "half"
  /\ warm' = [k \in Kinds |-> 0]
  /\ NewBuilder("target", gen + 1)

InitDraft ==
  /\ stage = "half" /\ stage' = "cache"
  /\ NewBuilder("draft", gen)
  /\ UNCHANGED <<gen, warm>>

\* The profiling cache goes, and the graphs captured to estimate their memory.
Cleanup ==
  /\ stage = "cache" /\ gen = 1 /\ pending = <<>> /\ queue = <<>>
  /\ stage' = "profiled" /\ graphs' = {}
  /\ UNCHANGED <<gen, lookup, owner, claimed, heap, ref, plan, warm, pending, queue>>

StartServing ==
  /\ stage = "cache" /\ gen = 2 /\ pending = <<>> /\ stage' = "serve"
  /\ UNCHANGED <<gen, lookup, owner, claimed, heap, ref, plan, graphs, warm, pending, queue>>

-----------------------------------------------------------------------------
(* A step: build on the host, then the forward pass.                       *)

\* Free slots, any of them, for the blocks of the step that have none.
Assignments(kind, blocks, kept) ==
  LET free == (1 .. Slots) \ {m[2] : m \in {e \in heap.map[kind] : e[1] \in kept}}
  IN {{<<b, f[b]>> : b \in blocks \ kept} : f \in Injection(blocks \ kept, free)}

\* The lookup is grown for the step's blocks before any of them is entered; then
\* the dict and the mirror follow each block that goes and each that comes.
BuildHint(blocks) == MaxOf(blocks) + 1
Tagged(kind) ==
  [heap EXCEPT !.key = [l \in Layers |-> IF l \in Owned(kind) THEN kind ELSE @[l]]]
BuildHeap(kind, blocks, kept, new) ==
  LET h == Ensure(Tagged(kind), FirstOwned(kind), BuildHint(blocks))
      gone == Blocks(h.map[kind]) \ kept
  IN [h EXCEPT !.map[kind] = {m \in @ : m[1] \notin gone} \cup new,
               !.known[kind] = MaxOf({@} \cup Blocks(new)),
               !.mirror[kind].map = {m \in @ : m[1] \notin gone \cup Blocks(new)}
                                      \cup Fitting(new, h.mirror[kind].size)]

\* The plan goes to pinned memory, and from there by an asynchronous copy; the
\* buffers are replaced when the batch outgrows them.
FillPlan(kind, rows) ==
  IF plan[kind].cap >= rows THEN [plan[kind] EXCEPT !.age = Older(@)]
  ELSE [id |-> plan[kind].id + 1, cap |-> MaxOf({rows, Headroom}), age |-> 2]

\* What is queued for that builder is one build older.
Overtaken(kind) == [i \in DOMAIN queue |->
  IF queue[i].kind = kind /\ queue[i].op = "run" THEN [queue[i] EXCEPT !.age = Older(@)]
                                                 ELSE queue[i]]

\* block_table.cpu() waits for everything enqueued before it.
Synced_Never == TRUE
Synced == queue = <<>>

Build(kind, rows, blocks, kept) ==
  /\ stage \in {"cache", "serve"} /\ pending = <<>> /\ Owned(kind) # {}
  /\ Synced
  /\ kept \subseteq Blocks(heap.map[kind])
  /\ \E new \in Assignments(kind, blocks, kept) : heap' = BuildHeap(kind, blocks, kept, new)
  /\ plan' = [plan EXCEPT ![kind] = FillPlan(kind, rows)]
  /\ queue' = Append(Overtaken(kind), [op |-> "copy", kind |-> kind])
  /\ pending' = [kind |-> kind, rows |-> rows]
  /\ UNCHANGED <<stage, gen, lookup, owner, claimed, ref, graphs, warm>>

\* do_kv_cache_update and forward ensure the pool for the cache they are given.
ForwardHint_None == 0
ForwardHint == NumBlocks[gen]
RunItem(kind, address) ==
  [op |-> "run", kind |-> kind, plan |-> address, age |-> 0]

CachedRef_Skipped(ls) == ref
CachedRef(ls) == [l \in Layers |-> IF l \in ls THEN gen ELSE ref[l]]

Eager ==
  /\ pending # <<>>
  /\ LET k == pending.kind
     IN /\ heap' = EnsureAll(heap, Runs(k), ForwardHint)
        /\ ref' = CachedRef(ToSet(Runs(k)))
        /\ warm' = IF stage = "cache" THEN [warm EXCEPT ![k] = pending.rows] ELSE warm
        /\ queue' = Append(queue, RunItem(k, plan[k].id))
  /\ pending' = <<>>
  /\ UNCHANGED <<stage, gen, lookup, owner, claimed, plan, graphs>>

\* A capture, after a warmup of its size: _ensure_pool returns at once.
Capture ==
  /\ stage = "cache" /\ pending # <<>> /\ warm[pending.kind] = pending.rows
  /\ LET k == pending.kind
     IN graphs' = graphs \cup
          {[kind |-> k, rows |-> pending.rows, plan |-> plan[k].id,
            ptr |-> [l \in ToSet(Runs(k)) |-> heap.ptr[l]]]}
        /\ ref' = CachedRef(ToSet(Runs(k)))
  /\ pending' = <<>>
  /\ UNCHANGED <<stage, gen, lookup, owner, claimed, heap, plan, warm, queue>>

\* No Python of the layers runs in a replay.
Replay ==
  /\ stage = "serve" /\ pending # <<>>
  /\ \E g \in graphs :
       /\ g.kind = pending.kind /\ g.rows >= pending.rows
       /\ queue' = Append(queue, RunItem(g.kind, g.plan))
  /\ pending' = <<>>
  /\ UNCHANGED <<stage, gen, lookup, owner, claimed, heap, ref, plan, graphs, warm>>

\* The GPU takes the next item: a copy reads the pinned memory only now.
Gpu ==
  /\ queue # <<>>
  /\ LET k == Head(queue).kind
     IN plan' = IF Head(queue).op = "copy" THEN [plan EXCEPT ![k].age = 0] ELSE plan
  /\ queue' = Tail(queue)
  /\ UNCHANGED <<stage, gen, lookup, owner, claimed, heap, ref, graphs, warm, pending>>

\* The steps before serving are dummies: every block of theirs is block 0.
Step == \E kind \in Kinds, rows \in 1 .. MaxBatch :
          \E blocks \in SUBSET (IF stage = "cache" THEN {0} ELSE 0 .. NumBlocks[gen] - 1) :
            \E kept \in SUBSET Blocks(heap.map[kind]) :
              blocks # {} /\ Build(kind, rows, blocks, kept)

Next == ProfileRun \/ InitTarget \/ InitDraft \/ Cleanup \/ StartServing
        \/ (stage \in {"cache", "serve"} /\ Step) \/ Eager \/ Capture \/ Replay \/ Gpu

Spec == Init /\ [][Next]_vars

-----------------------------------------------------------------------------
(* Properties.                                                             *)

InUse == stage \in {"cache", "serve"}

\* Once a cache is set up, the builder of the pass that runs a layer owns it,
\* alone: no other builder flushes it from another slot map.
OneDriver == InUse =>
  \A k \in Kinds : Owned(k) = ToSet(Runs(k))
                   /\ \A l \in ToSet(Runs(k)) : heap.key[l] = k

\* After a build the GPU mirror says what the dict says, for every block.
MirrorAgrees == \A k \in Kinds :
  heap.mirror[k].id # 0 => heap.mirror[k].map = heap.map[k]

\* No slot, tile reference or mirror of an earlier KV cache is in use.
NothingStale == InUse =>
  /\ \A k \in Kinds : heap.born[k] \in {0, gen}
  /\ \A l \in Layers : ref[l] \in {0, gen}

\* A captured graph reads the mirror, scratch and plan that are current.
GraphsReadLive == \A g \in graphs :
  /\ g.plan = plan[g.kind].id
  /\ \A l \in DOMAIN g.ptr :
       /\ g.ptr[l].mirror = heap.mirror[g.kind].id
       /\ g.ptr[l].scratch = heap.ptr[l].scratch /\ g.ptr[l].rows >= Rows[l]

\* A plan on the GPU is the last one built for whoever runs on it: the copy
\* was not overtaken by the next build, nor the pinned rows rewritten under it.
OwnPlan == [][
  queue # <<>> /\ queue' = Tail(queue) /\ Head(queue).op = "run" =>
    /\ Head(queue).plan = plan[Head(queue).kind].id
    /\ Head(queue).age = plan[Head(queue).kind].age]_vars

\* With a bound derived, every decode kernel is compiled by the end of the
\* profiling pass: the size it was compiled for never moves again.
NothingCompiledLate == [][
  stage # "load" /\ lookup > 0 => heap'.warmed = heap.warmed]_vars

\* Whoever loses a slot in a build was written to the tiles of every layer of
\* the group: no layer's cache reference is missing, or of another cache.
FlushReachesAll == [][\A k \in Kinds :
  pending = <<>> /\ pending' # <<>> /\ ~(heap.map[k] \subseteq heap'.map[k])
    => \A l \in ToSet(Runs(k)) : ref[l] = gen]_vars
=============================================================================
