---------------------------- MODULE KVarNBudget ----------------------------
(***************************************************************************)
(* How many slots the memory budget holds: the share of what the weights   *)
(* leave free, the weights' size read off the checkpoint's files.          *)
(* Sizes are in bytes and fractions in percent; int() is the floor.        *)
(***************************************************************************)
EXTENDS KVarNPool, FiniteSetsExt, TLC

CONSTANTS
  Checkpoints,  \* what a model's directory may hold, and what it loads
  Unknown,      \* a size that cannot be read
  TotalBytes,   \* the GPU's memory
  Utilization,  \* gpu_memory_utilization
  PoolFrac,     \* KVARN_POOL_MEM_FRAC, 0 when unset
  Ranks,        \* tensor_parallel_size
  KVHeads, HeadDim,
  AttentionLayers, \* layers of type attention, 0 when they cannot be counted
  AllLayers

\* A checkpoint: the files on disk and the manifest's shards, per format, and
\* the bytes the loader reads.
Formats == {"safetensors", "bin"}
IsCheckpoint(c) ==
  /\ c.loaded \in Nat
  /\ DOMAIN c.disk = Formats /\ DOMAIN c.manifest = Formats
  /\ \A f \in Formats : \A name \in DOMAIN c.disk[f] : c.disk[f][name] \in Nat

ASSUME BudgetOK ==
  /\ \A c \in Checkpoints : IsCheckpoint(c)
  /\ {TotalBytes, PoolFrac, AttentionLayers} \subseteq Nat
  /\ {Ranks, KVHeads, HeadDim, AllLayers} \subseteq Nat \ {0}
  /\ Utilization \in 0 .. 100 /\ Unknown \notin Nat

SizeOf(disk, names) == MapThenSumSet(LAMBDA n : disk[n], names)

\* A manifest counts when every shard it lists is on disk.
Trusted_AnyShard(c, f) ==
  LET here == c.manifest[f] \cap DOMAIN c.disk[f] IN here # {} /\ SizeOf(c.disk[f], here) > 0
Trusted(c, f) ==
  /\ c.manifest[f] # {} /\ c.manifest[f] \subseteq DOMAIN c.disk[f]
  /\ SizeOf(c.disk[f], c.manifest[f]) > 0
Listed(c, f) == SizeOf(c.disk[f], c.manifest[f] \cap DOMAIN c.disk[f])

\* estimate_weight_bytes: the manifest's shards, else the canonical single
\* file, else every shard there is.
Singles == <<"model", "consolidated">>
Single(c) == {i \in DOMAIN Singles : /\ Singles[i] \in DOMAIN c.disk["safetensors"]
                                     /\ c.disk["safetensors"][Singles[i]] > 0}
Present(c) ==
  LET files(f) == SizeOf(c.disk[f], DOMAIN c.disk[f])
  IN IF DOMAIN c.disk["safetensors"] # {} THEN files("safetensors") ELSE files("bin")
EstimateWeightBytes(c) ==
  CASE Trusted(c, "safetensors") -> Listed(c, "safetensors") \div Ranks
    [] ~ Trusted(c, "safetensors") /\ Trusted(c, "bin") -> Listed(c, "bin") \div Ranks
    [] OTHER ->
         IF Single(c) # {}
         THEN c.disk["safetensors"][Singles[Min(Single(c))]] \div Ranks
         ELSE IF Present(c) > 0 THEN Present(c) \div Ranks ELSE Unknown

\* pool_budget_bytes: a share of what the weights leave, or a fraction of the
\* whole card when their size is unknown.
PoolBudgetBytes(c) ==
  LET weights == EstimateWeightBytes(c)
      share == IF PoolFrac > 0 THEN PoolFrac ELSE 50
      frac == IF PoolFrac > 0 THEN PoolFrac ELSE 8
  IN IF weights = Unknown THEN (frac * TotalBytes) \div 100
     ELSE MaxOf(0, (share * (Utilization * TotalBytes - 100 * weights)) \div 10000)

\* num_kvarn_layers: the layers that have a pool.
NumKVarNLayers == IF AttentionLayers > 0 THEN AttentionLayers ELSE AllLayers

\* One slot, over all layers: K and V in fp16.
SlotBytes == G * KVHeads * HeadDim * 4 * MaxOf(NumKVarNLayers, 1)

\* max_supported_seqs, as far as the slots the budget holds.
MaxSlots(c) == PoolBudgetBytes(c) \div SlotBytes

\* pool_bytes.
PoolBytes(s) == PoolSlots(s) * SlotBytes

ASSUME BudgetsOK == Budgets = {MaxSlots(c) : c \in Checkpoints}

-----------------------------------------------------------------------------
\* The weights the loader reads and the pool fit the memory the server may use,
\* whatever the files a checkpoint's directory holds besides them, for budgets
\* that hold one request's pool (config.py:237-242, 374-377).
WeightsAndPoolFit ==
  \A c \in Checkpoints :
    /\ budget = MaxSlots(c) /\ EstimateWeightBytes(c) # Unknown
    /\ budget >= PoolSlots(1) /\ PinnedSlots = 0
    => 100 * (c.loaded \div Ranks + PoolBytes(cap)) <= Utilization * TotalBytes
=============================================================================
