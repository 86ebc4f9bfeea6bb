# Verification of qwen38-27b-rtx3090

TLA+ models of the stateful parts of this repository, the TLC runs that check
them on small instances, and TLAPS proofs about them for every instance.
Paths are relative to the repository. Six abbreviations:
`kvarn_attn.py` is `kvarn/files/vllm/v1/attention/backends/kvarn_attn.py`,
`config.py` is `kvarn/files/vllm/model_executor/layers/quantization/kvarn/config.py`,
`triton_kvarn_decode.py` is `kvarn/files/vllm/v1/attention/ops/triton_kvarn_decode.py`,
`prepare.sh` is `docker/prepare.sh`, and `pthfa/` and `lsa/` stand for
`pthfa/python/pth_flash_attn/` and `lsa/python/hyperqwen_lsa/`.

## 1. The system

The repository serves one 27B hybrid model (attention + GDN/Mamba layers) on one
24 GB GPU. It prepares the checkpoint, patches a pinned vLLM, adds its own
KV-cache backend (KVarN) and launches the server.

| Component | State it keeps | Operations | What makes it correct | Module |
|---|---|---|---|---|
| KVarN slot allocator (`kvarn_attn.py`, metadata builder) | per layer group: block->slot map, free list, sinks, retired sinks, fill counts, recycled pages, the fp16 pool and the int4 tiles | `build` once per step; `note_scheduled_blocks` before it; `do_kv_cache_update` in the forward pass; `_batched_flush`; `build_for_drafting` | every due token reads back; slots are conserved; a page of another group is never written; the pool runs dry only on real demand; a proposal is never frozen | `KVarN`, `KVarNDraft` |
| KVarN buffers (`kvarn_attn.py`, class-level state) | owner registry, dictionaries and their GPU mirrors, shared scratch, plan buffers, captured graphs, compiled kernels | builder creation, `_reset_group_state`, `_ensure_pool`, `_warm_decode_kernels`, profiling, capture, replay | one builder per layer; mirror = dictionary; graphs read live tensors; no plan overtaken; nothing compiled while serving | `KVarNBuffers` |
| KVarN pool sizing (`config.py`, platform hook in `kvarn/kvarn-0.32.0.patch`) | the capped `max_num_seqs`, the pool size | `estimate_weight_bytes`, `pool_budget_bytes`, `pool_slots`, `max_supported_seqs`, `check_and_update_config`, `_ensure_pool` | weights and pool fit the card; the pool covers any batch | `KVarNPool`, `KVarNBudget` |
| KVarN attention (`forward` and `triton_kvarn_decode.py`) | none of its own | five routes, four kernels, FlashAttention over a packed copy | each row attends exactly its due positions, from the copy that holds them | `KVarNAttend` |
| KVarN records (flush, store, dequantize) | the packed int4 cache | balance, quantize, pack, write; kernel read, gather | writer and reader agree to the byte | `KVarNLayout`, `KVarNTile` |
| Model preparation (`prepare.sh`, `prepare/`) | the model directory on a shared volume, its backups, the lock file | download, five steps, two template rewrites, an optional drafter | crash anywhere, restart, converge; never a torn or untruthful file; originals kept | `Prepare`, `PrepareSteps` |
| Self-distillation generation (`drafter/gen_data.py`, `generation_state.py`) | `gen.jsonl`, its lock | lock, repair the tail, skip what is done, append | no prompt twice, nothing lost, readable at all times | `Generation` |
| pthfa attention backend (`pthfa/`) | the captured plans, the reserved workspace, the FA2 slab workspace and its owner stream | plan, split, capture, replay, native launch, slab prefill | every row sees its keys once, on any replay; nothing is refused at run time; one stream at a time in the slabs | `PthPlan`, `Pthfa` |
| D-LSA sparse attention (`lsa/`) | index keys and bucket rows in the KV slots | write keys, bucket closed blocks, score, top-p, expand, read | buckets of final keys only; a sound read list; exact below the budget | `LsaSelect`, `Lsa` |
| vLLM patch series (`patches/`) | scheduler, offload tier, API server | about 60 patches | each its own | not modelled, three planned |
| Launchers (`single-user/`, `batch/`, `*.sh`) | none | resolve profile, context, draft length, flags | valid combinations only | planned as a table |
| fa2, xgrammar, draft-model tooling, benches, verifier, port scripts | - | numeric kernels, one-shot scripts, developer tools | - | not modelled |

How they interact. The scheduler of vLLM decides each step's batch, hands out
cache pages and keeps the prefix-cache hashes; the KVarN builder sees only the
block table, the sequence lengths and (through `note_scheduled_blocks`) the pages
other KV-cache groups took. Requests share pages through the prefix cache, and
one block pool serves the attention group and the Mamba groups, so a page can
change hands while the builder still holds a slot for it. `prepare.sh` runs at
every container start and by hand, on one volume; the server opens what it left.
The attention
backends are alternatives: KVarN, pthfa or the stock one, D-LSA on top of the
latter. They all see the host's metadata one step ahead of the device, and their
decode steps run as replays of CUDA graphs captured on other batches.
Container restarts (`docker-compose.yml:102`, `restart: unless-stopped`) are the
only retry there is.

What is hard here, and what the properties aim at:

* blocks whose data moves (slot -> tile) while pages are shared, evicted,
  preempted, paused, speculatively written and recycled by other groups;
* a pool at its limit: eviction must free exactly what is missing, lose nothing,
  and never report exhaustion that a retired block could cover;
* a kill between any two file operations of a long preparation, then a restart,
  possibly of another container, from whatever is on the disk;
* several parties that compute the same thing from different facts: a plan made
  on the host and the lengths on the device, a record's writers and its readers,
  the drivers of one attention and the rows they are due;
* buffers that outlive the step, the cache or the stream they were made for;
* appending to a file through a buffer that a kill can cut at any byte.

`PROJECT.json` lists every hazard at its line.

## 2. Modules

### KVarN, the slot allocator

`Build` is `KVarNMetadataBuilder.build` for a target pass (`kvarn_attn.py`
700-1010), section by section in its own order: (0) drop slots of recycled pages,
(1) mark sinks and the needed blocks, re-adopt retired sinks, (2) walk back from
the committed boundary and flush, (2b) sweep what the step does not name, (3)
allocate, evicting retired sinks if the free list is short, and write all tiles.
One `Build` step is atomic because it runs on the engine thread between the
scheduler and the forward pass. `Forward` is `do_kv_cache_update` and the
sampler: `acc` of the `q` tokens are accepted, and the bytes at a rejected draft's
position are wrong until they are written again.

The scheduler is the environment. It is modelled as permissively as vLLM's
contract allows: `Admit` (with the cached prefix), `Schedule` (prefill chunk or
verify step), `Leave` (finish or preempt), `ForeignAlloc`/`ForeignFree` (another
group takes a page, gives it back). Two facts about it are assumptions: a hit on
a page that another request is writing in the same step is deferred
(`BeingWritten`), and a running request is left out of a step only at a page
boundary, if at all (`IdleAllowed`). The second one matters: the sweep discards a
half-written block that a step does not name, so a request paused in mid-block
would lose it. No property can see that case, and `LiveReadable` and
`TailKeepsSlot` hold on the condition that the scheduler never does it.

Data. `pool[b]` and `tile[b]` are the positions whose bytes are what the present
owner of `b` is due to read; a page that gets a new owner is emptied. So
`LiveReadable` says that every committed token of a running request can be read
where the kernels read it, and `CachedReadable` that every page the prefix cache
may hand out reads back whole.

`Lookahead` is the number of slots the scheduler reserves behind a request's
tokens for the drafter (0 in the target's group). Slots are counted, not named:
no code depends on which slot a block gets.

### KVarNDraft, the drafter's passes

`KVarNDraft` extends `KVarN` with the draft group's life within one engine step:
the first pass has the target's metadata (`Build`, `Forward`), each `LaterPass` is
`build_for_drafting` with `draft_index >= 1`: it allocates, may evict retired
sinks, and flushes and reclaims nothing, and then writes a proposal that the next
step may reject. The invariants of `KVarN` are checked and proved over both.

### KVarNBuffers, who owns what from load to serving

One process: profiling run, the builders of the profiling cache, of the real
cache, capture, serving. `heap` is the class-level state, a tensor is its address
(`id`), and a replaced tensor has a new one. `Build` and `Eager` call
`_ensure_pool` through `Ensure`; `Capture` records the addresses; `Replay` runs no
Python. The GPU takes its `queue` in order and later; an asynchronous copy reads
the pinned plan when it runs, which is why `Synced` (`block_table.cpu()`,
`kvarn_attn.py:686`) matters. Any blocks stay, any are added, and in any free slots:
what a step needs is `KVarN`'s business. The dict and the mirror are updated entry by
entry as in the code, so that they agree only if the mirror was large enough; `known`
is `_max_known_block_id`, which is raised and, but for a reset, never lowered.

Assumed: the largest batch fits the plan buffers' headroom (257 rows, 4096 verify
tokens); a derived lookup bound is at least the number of blocks, or 0 when it
cannot be derived; no layer is listed twice; all layers of a group share head size and KV heads, so that
the query scratch may be sized by the first one.

### KVarNAttend, what a row attends to

`Build` is the metadata part of `build` (verify plan, flags), then `Decode`,
`Verify`, `Prefill` or `Mixed` is `forward`'s routing, each through its drivers:
fused decode, split-K with its two stages, per-token and shared verify,
FlashAttention over a packed copy, first-chunk prefill, and the slow path over
`_gather_request_kv`. A read is a record of request, position, copy and program.
The packed copy ends after `fa_rows` rows of the scratch: what is packed behind
them is lost, and a read there is a `Stray`, due to nobody. Only the drivers of
cached multi-token queries compare the two (`TakesSlow`); the unfused decode packs
whatever the batch holds (`Overruns`).
Block skipping, chunk loops, split ranges, window starts and the empty slices are
the code's; sums and softmax are left out. `Config` holds the environment switches.

### KVarNLayout and KVarNTile, the packed record

Numbers are tags that say what they were computed from, so `ReadersGetTheirDue`
compares what a reader takes apart with what a writer put together: tile
orientation, the two halves of K and V in one launch, chunks of tiles, packing of
2- and 4-bit codes, field offsets, the fast and the legacy flush, the kernel's own
address arithmetic and the gather path's view. `Balance` keeps the scales of the
best iteration.

### KVarNPool, the pool size

The allocator module shows that only a batch's own needed blocks can exhaust the
pool. This one asks whether they ever do: `Init` caps `max_num_seqs` as the
platform hook does, then requests join a batch one at a time (`Decode`,
`FirstChunk`, `NextChunk`) under the token budget, and `demand` adds up the slots
`build` will need. Block offsets and token counts are free. `KVarNBudget`
adds the bytes: the weights' size read off the checkpoint's files
(`EstimateWeightBytes`: a manifest whose shards are all there, else a single file,
else everything), the share of what they leave, the layers counted, the bytes of a
slot.

### Prepare and PrepareSteps, the model directory

`disk` maps every path (file, backup suffix, `.tmp`) to absent, torn or whole,
with marks for what matters of the contents: which parts a shard holds packed,
which `config.json` declares, which the index points at, which rewrites a
template has had. `state()` is `NeedsDownload` and `Pending`; each script is the
list of file operations it will perform, computed from the files as it reads
them, and `WriteTemp`, `Publish`, `HardLink`, `SkipBackup` perform them one at a
time, so a crash falls between any two and inside any write. A crash, a full
disk and a lost connection are all `Crash`: `set -e` ends the script and the lock
goes with the process. `Acquire`/`GiveUp` are `flock -w`.

`PrepareSteps` is the promise to the launcher: one download, then the parts land
one after another, in order, and none is ever taken back. `Prepare` is checked
to implement it with `landed` = what the index points at, once the volume is
usable (`Usable`: intact and not being downloaded).

### Generation, resumable output

`lines` is the file. A record reaches it in pieces (a part, all but the newline,
the newline), so `Kill` leaves every kind of tail; `Resume` is `load_completed`,
with its repairs and its refusal of a bad line before the last.

### PthPlan and Pthfa, the pthfa backend

`PthPlan` is the planner and the arithmetic on both sides of a launch: what the
host plans from the padded descriptor alone, and how a CTA finds its request, its
query tokens and its KV tiles from the device's lengths (`launch.cu`,
`cache_geometry.cuh`). `Pthfa` is the backend around it: `Native` steps,
`Capture` and `Replay` with any lengths that fit the descriptor, and `SlabPrefill`
on the shared FA2 workspace. `after[s]` is what stream `s` has waited for.
Assumed: an eager batch's host and device `query_start_loc` agree, and
`max_seq_len` is exact for the single request of a slab prefill.
`split_decodes_and_prefills` is vLLM's.

### LsaSelect and Lsa, sparse attention

`LsaSelect` is the pure part: Ward buckets of a closed block by mutual cheapest
pairs, radix select of the top-p over parallel parts with its tie counting, the
read list (`SlotList`), and the split read. `Lsa` is a conversation: `Start` with a
prefix hit, `Step` (a chunk, or a verify step with rejected drafts; both bucket
what they close), `Finish`. Keys, rows and the prefix cache live in pages, so a
freed page brings its old rows to the next owner. The host's context is an upper
bound: `slack` is how far. One request runs per step; requests meet only in the
tables. The projection of index keys, their scores (any order) and the read's
sums are not modelled, nor is the storage identity check of `_lsa_setup`.

The properties speak of settled buckets (`Settled`). Nobody buckets the block at
the end of a page whose owner stopped within `DecodeQ` tokens of it, except the
prefill that continues a hit on that page. A hit of several pages may join this one
with the next page of another request that held a duplicate of the first: the
prefill then starts a page later and leaves the block as it is. `backend.py:20-22`
says the prefill rule covers such a block; it covers only the last one of a hit.

## 3. Runs

| Run | Question | Bounds, and why they suffice |
|---|---|---|
| `kvarn_shared` | Do slots, data and sinks survive sharing, drafts, preemption, recycling and eviction? | 2 requests, 4 pages of one 2-token block, 3 pages each, 3 slots. Three slots are one deep request with a crossing draft, one less than two deep requests: eviction and exhaustion both happen |
| `kvarn_draft` | The same under a drafter of three passes, with two blocks per page and pausing | 2 requests, 4 pages, 5 slots: pages are partly resident, partly tiles, proposals cross block boundaries, evictions happen in the allocate-only passes |
| `pool_sizes` | Do the weights and the pool fit, does the pool cover every batch? | blocks of 4, 12 tokens, 2 drafts, 1-12 requests; 8 layouts of a checkpoint's directory, 9 sizes that put the budget on both sides of every clamp; 2 ranks |
| `kvarn_attend` | Does each query row attend what it is due? | all batches of one or two requests of 1-5 tokens on 0-5 cached ones, some of three, 9 deployments that between them take every route and kernel, padding, non-causal drafting; blocks of 2, chunks of 1; a scratch of 10 rows, which two requests of 6 keys outgrow, so that the multi-token drivers do fall back |
| `kvarn_buffers` | Do owners, mirrors, graphs and plans stay right from load to serving? | 2 target layers and a wider draft layer, both caches, 2 slots, 1-2 blocks, batches of 1-2, with and without a lookup bound |
| `kvarn_tile` | Do a record's readers get back what its writers put in? | both value widths, groups of 4 and 16, heads of 4 and 8 (narrower and wider than the group), with and without power-of-two slots, batches of 1-2 blocks and heads, 2 iterations |
| `prepare_crash` | Is every intermediate disk safe, do the parts land in order, do restarts converge? | 2 containers, one of them restarted, 3 kills anywhere but in a recovery download, a fresh volume or one of nine damaged ones; two kills suffice for a kill during recovery from a kill |
| `prepare_legacy_killed` | What a killed recovery download leaves | violated, see section 6 |
| `generation_kills` | Is the output readable, complete and without repeats? | 2 processes, 4 prompts, one too long, chunks of 2, 3 kills |
| `pthfa_launches` | Is every key seen once, on any replay, without a refusal, and are the slabs ordered? | warps of 2 rows, tiles of 2 keys, slabs of 6; 7 layers that cross group size, window, causality and target; 1-2 requests of 1-5 tokens on up to 13 keys; 3 streams |
| `lsa_serve` | Are buckets final, lists sound, selection and reads exact? | blocks of 4; two requests of one conversation of 11 keys on pages of 6, two of two conversations that part on pages of 4, or three of one on pages of 4: it takes three to hit pages of two owners; drafts of 1, chunks of 2 and 5; all score rows of 6 columns with three values |
| `lsa_fork` | Two conversations that part inside a block a page ends in | violated, see section 6 |

Request and page names are symmetric (`Symmetry`, `SameBoxes`); no liveness run
uses symmetry. The parts of `Prepare`
are the real ones; only the number of containers and kills is bounded.

`LegacyDisk` adds nine disks an older, non-atomic prepare can have left: k steps
done and the next one killed while it wrote its shard, `config.json` or the
index. The order of its writes is taken to be the present one. Such a volume is
downloaded again; `KillDownload = "first"` keeps that recovery download from
being killed, since what a kill leaves there is the finding of
`prepare_legacy_killed`. That run is also the only one in which a script refuses
to run (`CanRun`, the last branch of `Begin`).

Five runs switch the deadlock check off: the `KVarN` ones because build raises on
an exhausted pool and the engine stops there, `kvarn_attend` and `kvarn_tile`
because one step or one flush is all they run, `lsa_serve` because requests are
counted.

Mutants. Each property of a passing run is broken by one plausible bug in a
definition that translates the code: names ending in `_Something` next to the
definition they stand in for (`Walk_ToSeqLen`: flush up to the sequence length
instead of the committed one; `Acquire_Unlocked`: no lock; and so on).

### Fairness

`prepare_crash` assumes (`FairSpec`) that a running script goes on (weak fairness
of each process's steps: the download network comes back, the disk works) and that
a service that is down or failed is started again, which is `restart:
unless-stopped`. The second container runs when it likes. Kills are finite, and
none falls in a recovery download.
`GiveUp` may win every race against a holder that is slow: convergence does not
need the waiter to win.

`generation_kills` assumes an operator starts the run again until it is done,
which is what the resume is for.

The other runs need no fairness: the backends promise nothing about eventual
progress, which is the scheduler's business.

## 4. Proofs

`KVarN_proofs` (every number of requests, pages, slots, blocks per page and
tokens per block; assumption: `ConstantsOK`):

* `RowInv`: rows of the block table are pages of no other group, and long enough
  for the step. From it `NeededInRows`: everything `build` needs is on its own
  pages. It is a fact about the scheduler's actions, and every other proof rests
  on it.
* `ForeignPagesSafe` (`ForeignPagesIntact`): not inductive alone, because a slot
  may well be held for a page that is foreign. `Announced` strengthens it: such a
  page is on the recycled list, so the next build drops the slot before it
  flushes anything.
* `RetiredSinksResident` (`RetiredAreResidentSinks`), strengthened by
  `RetiredInv`: a retired sink is complete, so the sweep keeps it.
* `SlotsConserved` (`NoSlotLeak`), with `free_slots` in range (`SlotInv`): the
  blocks kept, dropped, flushed, discarded, evicted and wanted are disjoint where
  they are added up (`Parts`, `CardinalityDisjoint`).
* `TypesCorrect` (`TypeOK`), from `TypeInv`: lengths and fill counts stay within
  their bounds (`GrantTypes`, `FillBounds`).
* `ExhaustionIsDemand` (`ExhaustedByDemandOnly`): when the second alternative of
  `Build` is taken, `Needed` alone outnumbers the pool (`StayingParts`).

The second half of the module carries this to the bytes. Its invariant `AllInv` adds `Sharing` and `Holding`: two requests share a page only at the same
place and only where both have computed it, a hashed page is the page its hash
says, and each block holds in its slot, while resident, and otherwise in its
tile, every position that is committed (`Due`) for a request or for the cache.
The lemmas follow a block through a step: `OnlyWriter` (nobody else writes it),
`FillReaches` and `FillCounts` (the fill count is where the request stands),
`WrittenKept` (its slot survives the build), `StoredNotDue` (a store touches
nothing committed), `GrantPages` (a new page is nobody's).

* `CommittedReadable` (`LiveReadable`), `CacheReadable` (`CachedReadable`): a
  committed token is read back whole, by its request and by one that hits its page.
* `TailKept` (`TailKeepsSlot`), `SinksKept` (`SinkStaysResident`): what a build
  may take a slot from.

The last part is about `DraftSpec` (further assumption: `PassesOK`, the scheduler
reserves a slot for each later pass; the theorems above are about `Spec` and cite
it nowhere). The first pass and the engine's steps are steps of
`KVarN`, so `AllInv` carries over; what is new is `LaterPass`, which drops no
recycled page and flushes nothing but what it evicts. It preserves `AllInv`
because of three facts the steps before it establish (`DraftInv`):

* `PassAhead`, `Later`: a page of the request covers each proposed token, so the
  builder allocates on pages of its own (`DraftPlace`), and no recycled page is
  pending, so what it evicts lies on no foreign page.
* `BuiltInv`, `TailsLive`: build un-retires the blocks it writes and leaves out
  only requests between two pages, so no block that a request is in the middle of
  can be evicted, even one the pass does not name.
* `NotComputedNotDue`: behind what a request has computed nothing is due to
  anybody, neither to a sharer nor to the cache. So a proposal overwrites nothing
  (`DraftOverDue`), and a tail that holds committed tokens has its slot already
  (`DraftTailHeld`).

From these follow `DraftCommittedReadable` (`LiveReadable`), `DraftCacheReadable`
(`CachedReadable`), `DraftForeignPagesSafe` (`ForeignPagesIntact`),
`DraftSlotsConserved` (`NoSlotLeak`) and `DraftTailKept` (`TailKeepsSlot`).
`ProposalsStayOpen` (`ProposalsNeverFrozen`) needs the converse of readability,
`OnlyDue`: a slot or a tile has right bytes only where they are due, over every
hand-over, release, rejection and flush. With it a retired sink is whole, or it is
empty and so is its tile (`RetiredWhole`): its eviction freezes no proposal.

`KVarNStore_proofs` (the sizing arithmetic and the record layout; `KVarNPool`
names its specification `PoolSpec`, so that both modules fit under one). The pool,
for every group size, token budget, request count and draft count:

* `PoolSuffices` (`ExhaustionSafeWithin`): `PoolInv` bounds `G * demand` by the
  requests and tokens of the batch: each block a request touches beyond two costs
  it `G` tokens, so the token budget pays for it. With drafts each request may
  need a third slot, which the 8 spare slots cover for up to eight requests.
  `pool_sizes` explores drafts only; the draft-free half is proved.
* `PoolFitsBudget` (`BudgetSafeAboveOne`): the slots fit the budget in slots.
* `WeightsAndPoolFitHolds` (`WeightsAndPoolFit`), in bytes: a slot's bytes are
  positive, a share of what is left never exceeds it (`ShareFits`), and so weights
  and pool fit the memory the server may use. Hypotheses: the share is at most the
  whole, and the estimate reads no less than the loader takes (`EstimateCovers`).
  The second is what a directory can get wrong; the eight layouts of `pool_sizes`
  are where the code is asked for it, and meet it.

The records, for every head size, group and bit width:

* `FieldsInOrder`, `RecordIsWholeSlots`: the fields of a record follow one another
  and end within a whole number of token slots.
* `KeyCodesDistinct`: the kernel's address and shift of a key code are its own.
* `Pages` (`PagesAreTiles`): the cache manager's page is the block's records, also
  when a slot is rounded to a power of two (`Pow2Fits`: there is one between any
  size and its double).
* `ReadersServed` (`ReadersGetTheirDue`): what either reader gathers is what was
  stored. Hypothesis `InFours`: groups and heads are multiples of four, as in every
  preset, so that codes fill their bytes and each field begins at a half word, which
  is how the gather reads scales. The argument follows a byte from the tiles to the
  reader: the tiles come back in their places however they are cut into launches
  (`OutputsAre`, from `FlattenCuts`); both writers, the concatenation and the
  assembly at offsets, put each field where `Offset` says (`ConcatenatedHolds`,
  `PlacedHolds`, from `FieldsInOrder`); both readers find each code at its byte and
  shift and each scale at its half word (`CodeRead`, `ScaleRead`); and all scales of
  a tile are of the iteration the balancing kept (`BestOK`). `TileInv` joins them.

`KVarNAttend_proofs` (every deployment, head layout, batch, context length, mask
and padding the constants of `KVarNAttend` allow):

* `RowsAreServed` (`RowsAttendTheirDue`) and `PaddingIsQuiet`
  (`PaddedRowsReadNothing`), from `Inv`: the plan is the one `build` makes of the
  batch (`MdInv`), no route is taken without one, and a route that has run has
  served the rows it is there for (`Serves`).
* One lemma per kernel says that what it reads for a row is the row's due, each
  position once: `SharedIsExact` and `FlashIsExact` (tiles walked to the row's own
  end, without or with a window), `SplitIsExact` (the splits divide the blocks, and
  each position is in one of them), `FusedIsExact` (cached blocks and the step's own
  keys do not overlap). The remainder is bookkeeping that a wrong offset breaks:
  where a request's rows begin is a sum of the query lengths before it (`SumIs`),
  and what the paths flatten or scatter lands there (`FlattenIs`, `ScanIs`).
* `PlanIs` says what a build hands the routes: the rows and lengths of the verify
  plan, whether padded or not (`ShortStep`, `PaddedStep`, `LongStep`), and which
  requests are decodes. `DecodeServes`, `VerifyServes`, `PrefillServes` and
  `MixedServes` are then one lemma per route.
* `FlashIsExact` rests on `FitsScratch`: `PackedIs` finds each position at its row
  of the copy only if the row is in the scratch. The drivers that compare grant it
  themselves (`~TakesSlow`); the unfused decode needs the hypothesis. Rows without
  a key read nothing either way (`FlashOfNothing`), so `PaddingIsQuiet` needs none.
* The statements leave out the same paths as the run's property: those that know
  no window (`Windowed`) or no causal flag (`Diagonal`), and packed decodes that
  outgrow the scratch (`Overruns`), see Findings.
* `Sum` is a recursive function; sums, flattened lists and prefix scans are
  inductions over a set of naturals (`LeastNat`, `Induction`).

`Pthfa_proofs` (every layer, batch, tile height, split count and prompt length;
assumptions `PlanOK`, `PthOK`):

* `SplitsPartition`, `TokenHasItsTile`, `SlabsPartition`: each KV tile belongs to
  one split, each query token has its row tile in the launched grid and the kernel
  finds its request, and the slabs partition the context within the buffers.
* `Ordered` (`SlabOrdered`), strengthened by `StreamInv`: the owner is the last
  user, and before there is one only the loading stream has used the workspace.
  That is what makes waiting for the owner alone enough.
* `NeverRefusedHolds` (`NeverRefused`), from `PlanInv`: every plan is good
  (`PlanGood`: it passes the range checks, fits the reservation, its warps hold
  one token), and a captured one holds all its padded requests (`GraphGood`).
  `PlanIsGood` is the planner's arithmetic. `SliceIsGood` and `BuildIsGood` are the
  builder's: the two slices take each request once, and the longest request, which
  bounds the prefill launch, is never among the decodes.
* `PlanInv` also says what a launch reads from the device: offsets of its own
  requests, each within the planned length (`LaunchGood`), which a replay keeps
  (`ReplayIsGood`). From it `CapLosesNothingHolds` (`CapLosesNothing`): a row tile's
  keys span at most the window and the longest request; and `RowsSeeTheirDueHolds`
  (`RowsSeeTheirDue`): one tile computes the token (`ComputingIs`), the tile's walk
  covers what its rows see (`WalkExists`), and splits and slabs divide it
  (`SplitsGive`, `SlabsGive`).
* `Sum` is a recursive function; `SumIs` and `SumBounds` are inductions over a set
  of naturals (`LeastNat`, `Induction`).

`Generation_proofs` (every number of processes, prompts and kills, every chunk
size):

* `OnlySelects`: what `gen_data.py`'s comprehensions select. `Only` is a recursive
  function; its defining equation and the result are inductions over a set of
  naturals (`LeastNat`, `Induction`), from the library's well-foundedness facts.
* `Readable` (`LinesReadable`), `GeneratedOnce` (`NoDuplicate`), `RecordsKept`
  (`NothingLost`), from `GenInv`: only the last line can be cut, at most one
  process writes, and what it holds to be done, what it has still to do and what
  is in the file do not overlap.

`KVarNBuffers_proofs` (any two disjoint lists of layers, either of which may be
empty, any row needs, slots, cache sizes, bounds and batches; assumption:
`BuffersOK`). A captured graph is safe because of sizes that were settled steps
before, so `IInv` follows those sizes:

* `OwnerInv`: who has a layer at each stage. The claims of `__init__` are worked
  out in `TargetClaims` and `DraftClaims`: the target's builder takes every layer
  it runs, the drafter's takes its own back. From it `OneDriverHolds`.
* `HeapInv`: every known block is below the mirror's size and below the size of
  the cache its map was made for, which is what makes the mirror take every entry
  (`MirrorAgreesHolds`). After profiling the scratch is large enough for all, and
  with a derived bound every lookup has the one size its kernels were compiled
  for (`NothingCompiledLateHolds`).
* `UseInv`: once a pass of some size has warmed up, its layers point at the
  current mirror and scratch and its mirror spans the cache (`Settled`), so that
  `_ensure_pool` changes nothing any more; a graph comes after such a pass
  (`GraphsReadLiveHolds`). A map is not empty unless the pass after its build has
  set the cache references (`NothingStaleHolds`, `FlushReachesAllHolds`).
* `QueueInv`: the queue holds at most one copy and, behind it, its step
  (`OwnPlanHolds`).
* `EnsureAll` is a recursive function; `EnsureAllIn` carries any family of sets
  through it. `EnsureFacts`, `ForwardHeap` and `BuildHeapFacts` say what
  `_ensure_pool`, a forward pass and a build leave alone.

`Lsa_proofs` (any setups, requests, pages, texts and sizes; assumptions: `SelectOK`,
`LsaOK`, and `ScoresOK`: a score row holds numbers of `Digits` digits, as the 32-bit
ordered keys are).

* `BucketsAreFinalHolds`, `ReadIsSoundHolds`, `ExactWithinBudgetHolds`. Hypotheses:
  `2 * DecodeQ <= Block + 1`, without which the builder's candidates may miss the
  block that decoding closed (512 against a handful of drafts); and pages of whole
  blocks, or one conversation, without which `lsa_fork` shows what happens. The
  last one also needs `RoomToMerge` (below).
* The invariant (`Good`) has a part for each request (`Owner`: its keys below
  `ctx` are in place, its due rows are made up to `DecodeQ` tokens short of it, its
  full pages are in the cache and the others are not), one for each cached page
  (`CachedPage`: the keys of one text's page, and the rows of the blocks its owner
  closed in time) and one for pairs (`Apart`: a page that is not full is nobody
  else's). A row is what `bucket_tables` makes of its block's text (`RowText`), not
  only the name of that block: the read needs its members. `Seen` adds that the
  last step's rows hold that for every bucket its queries may see.
* The argument follows a row through a step. A step leaves a row alone or makes it
  from its own block's text (`StepRow`); a block that ends in the last `DecodeQ`
  tokens is among the candidates of this step, whoever closed it (`DecodeClosed`,
  `PrefillClosed`, `StepRowsHold`), whatever the host's late count says. Another
  request is touched only through full pages of the same text, whose keys are not
  written and whose rows can only be made anew from the same keys (`SharedPage`,
  `OtherSlot`). Equal cache entries name one page of one text (`SameText`), which
  is where the second hypothesis is used. What a hit hands over is an owner's due
  (`HitOwner`).
* The clusters (`WardInv`: alive pools are the roots of a forest, an alive pool's
  size counts its pools and is within the cap). A round keeps it (`RoundSizes`).
  `RowsFit` follows: no bucket outgrows its row. Two buckets share no position
  (`TablesAre`). `WardReaches`: of all allowed pairs the cheapest one, the lower on a
  tie, is mutual and first in rank, so every round merges until the count is reached
  (`PairMerges`, `RoundShrinks`); an allowed pair exists while more than `Buckets`
  clusters are left, as otherwise any two of them exceed the cap (`PairExists`).
  That is the hypothesis `RoomToMerge`: (64 + 1) * (4 + 1) > 2 * 128. Costs are
  exact in the model; the code's are floats.
* The list: `ByRankIs` (what sorting a set by a strict order returns),
  `FlattenCuts` and `FlattenHolds` (concatenated lists keep their members, each
  once), `ExpandedIs` and `SlotListIs` (sinks, counted keys and tail are apart),
  `SplitReadsAll` (the splits of a list make up the list). Below the budget no
  counted key is cut off, and the buckets of a block hold all of it, which is where
  `WardReaches` is needed.
* `TopPExactHolds` needs no further hypothesis. After n passes `prefix` is the first n digits
  of the `TopP`-th best score, `TopP - rem` columns are above it and at least `rem`
  have it (`Narrows`, kept by `PassNarrows`; some digit always fits, `SomeFits`). The
  parts of the programs cover the row in order (`PartsCover`), so a column's rank
  among the ties of all programs is its rank in the row (`TieRank`), and the taken
  columns are those with fewer than `TopP` ahead of them (`TakenAhead`), which sorted
  are the start of the sorted row (`PickedIs`).

`Prepare_proofs` (every number of containers and kills, on a fresh volume and on
one an older `prepare` damaged; assumption: `ConstantsOK`, on the constants that
choose the environment). A kill may fall between any two file operations, so
nothing inductive can be said of the disk alone: the invariants speak of the
operations still to come.

* `BaseInv`: types, one holder of the lock (`LockInv`), which files may be torn
  (`TornInv`, `WholeInv`), `BackupInv` (a file that holds a part has its backup,
  and a backup never holds the part it was made for), `OpsInv` (the list of a step
  saves before it replaces, writes only that step's files, and ends in its commit).
  From it `WholeFiles` (`ReadersSeeWholeFiles`) and `Undoable` (`OriginalsKept`).
* `LandedInv`: what landed is a prefix of the order of `prepare.sh` (`PrefixInv`),
  the fast index covers a finished model (`FastInv`), a step's commit is the last
  of its operations and everything the commit names is on the disk or still in
  the list (`PlanInv`), and readiness (`ReadyInv`). From it `CommitPoint`
  (`IndexTruthful`), `ReadyMeansPrepared` (`ReadyIsPrepared`) and `LandsInOrder`
  (`StepsLandInOrder`): each step of `Prepare` is a step of `PrepareSteps` or
  leaves `landed` alone.
* These three have the hypothesis `NoMixture`: no recovery download is killed,
  because kills spare it or because the volume was never damaged. `prepare_legacy_killed` shows that
  they fail without it. `WholeFiles` and `Undoable` need no such hypothesis.

`KVarN`, `KVarNBuffers` and `KVarNPool` have a proved type invariant, and the
invariants of `Generation`, `Prepare` and `KVarNAttend` contain one. The other
modules state none: their configurations are records of finite sets, and a type
error there is an evaluation error in TLC.

Every safety property that a passing run checks is proved. Model-checked only:
`Converges`, `AllGenerated` and the fairness they rest on: liveness is out of the
proof system's reach.

## 5. What the models leave out

* Numbers: quantization error, attention results, index projections. A position's
  bytes are right or not.
* Threads inside the GPU: stores, flushes and reads of one step are ordered by
  the stream; the programs of one launch write disjoint outputs.
* D-LSA with several requests in one step: their queries share nothing but the
  tables.
* Power loss: a kill keeps what was written. The scripts call `fsync`, but the
  order in which a disk persists two files is not modelled.
* `prepare/quant_heads_stream.py`, the corpus mode of `build_draft_vocab.py`, the
  LSA map: run by hand, not by `prepare.sh`.
* `hf download` is modelled by what `prepare.sh` expects of it: files arrive one
  at a time, each whole, and a file that differs from the published one is
  fetched again (`prepare.sh:40-43`).
* The patches: each changes a scheduler, an offload tier or an API server whose
  code is not in the repository, so a model would be mostly external.
* CUDA arithmetic, model training and export, benchmark clients, the verifier and
  developer scripts: numeric, third-party, or without state that outlives one
  call.

## 6. Findings

Two runs show what the code does against what it says:

1. `prepare_legacy_killed`. On a volume with packed parts and one truncated file,
   a recovery download that ends after it replaced `config.json` or a shard, but
   not the index, leaves every file whole and the old index in place. The next
   `state()` skips the steps the index vouches for, and prepare reports ready a
   model whose index points at tensors that are gone (`prepare.sh:62`).
2. `lsa_fork`. Bucket rows live in the KV slots of the block's own pages
   (`lsa/core.py:231`). The attention block (816, 832 or 2176 tokens) is no
   multiple of the 512-key cluster block, so a prefix hit can end inside a cluster
   block. A conversation that diverges there closes the block with its own keys,
   and part of the rows it writes are in the page it shares: the other one reads
   through a mix of both, and misses keys even where the budget covers its whole
   context, which `lsa/README.md:36` calls exact.

Observations made while modelling, not runs:

* `state()` asks for a download over a fixed list of files. A first download that
  stops with only `chat_template.jinja` missing is not resumed, and the model is
  ready without it (`prepare.sh:34`).
* The optional drafter counts as fetched once its weights exist, so a fetch that
  failed before `config.json` is never repeated (`prepare.sh:68`).
* A verify step whose drafts cross a block boundary needs a third slot (sink,
  tail, next block). More than eight such requests exceed the structural peak the
  pool is sized for, and `build` raises "KVarN pool exhausted"
  (`config.py:225`); the comment at `kvarn_attn.py:1455-1460` says the scheduler
  can never exceed it. `ExhaustionSafeWithin` states the cases it does hold in.
  With the default block of 128 tokens and few drafts the crossings have to
  coincide.
* The cap is at least one request even when the budget does not hold one
  request's pool (`config.py:278`); the comment at line 203 says it never runs out
  of memory.
* `pool_bytes` is documented as "Reserved up front in the worker"
  (`config.py:287-289`) and has no caller; the estimate of the weights does not
  count a separate drafter's.
* `supports_non_causal` (`kvarn_attn.py:261-266`) promises bidirectional attention
  through the verify plan; a non-causal batch longer than the decode threshold
  goes through paths that mask at the diagonal whatever the flag
  (`_fused_verify_path`, `_decode_path_slow`). `RowsAttendTheirDue` leaves those
  out (`Diagonal`).
* Sliding windows: only the decode kernels know the layer's window. The slow decode
  path and every prefill (`_flash_varlen` passes none) compute full attention
  (`kvarn_attn.py:1299-1303` says what that costs a windowed model past its
  window). `RowsAttendTheirDue` leaves those routes out (`Windowed`). The served
  target has no windowed layer, the DFlash2 drafter has
  (`docs/long-context.md:377-380`).
* With `KVARN_FUSED_DECODE=0` the decode driver packs the context of the whole
  batch into a scratch whose rows are capped (`KVARN_FA_SCRATCH_CAP`, 262144 by
  default, `config.py:313-318`) and never compares the two
  (`triton_kvarn_decode.py:891`): keys beyond the cap are written, and read, behind
  the buffers. `config.py:302-304` says that such contexts "fall back to
  `_decode_path_slow`"; only `_cached_multiquery_path` does that
  (`kvarn_attn.py:2725`). One request longer than the cap is enough, and so are
  several that exceed it together. The model reads a `Stray` there, and
  `RowsAttendTheirDue` leaves these steps out (`Overruns`); without that hypothesis
  TLC refutes it with unfused decodes of 5 and 6 keys on the scratch of 10 rows. By
  default the decode is fused and packs nothing.
* The stall sentinel sets its flag outside the step loop: when `step_done` falls
  between the check and the assignment, the flag outlives the episode and the next
  stall is not reported until another step completes. Idle time before a request
  arrives counts as part of the gap.
* The Mamba checkpoint patch keeps up to three deferred blocks per request; its
  comment says at most two.

## 7. Plan

Done: the components above. Next, in this order:

1. `OffloadLRU` (`patches/vllm-pr61050-lru-running-prefix.patch`): ranks, the lazy
   heap and resets, refining an abstract cache that evicts by (request rank,
   position). Properties: tail before head of a running request, no evictable key
   missing from the heap, ranks of an earlier generation never used.
2. `MambaCheckpoints` (`patches/mamba-align-checkpoint-order.patch`): deferred
   state blocks freed once and last, also on preemption.
3. `StallSentinel` (`patches/engine-stall-sentinel.patch`): a thread that samples
   unlocked counters; every stall reported once, and no idle engine.
4. `Profiles`: `resolve_config.sh` and `select_model.sh` as a decision table.
5. `quant_heads_stream.py` as a further script of `Prepare`.
