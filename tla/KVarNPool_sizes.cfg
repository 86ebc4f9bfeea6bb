SPECIFICATION PoolSpec
CONSTANTS
  G = 4
  MaxTokens = 12
  MaxDraft = 2
  Requested = {1, 4, 8, 12}
  Budgets <- MCBudgets
  PinnedSlots = 0
  Checkpoints <- MCCheckpoints
  Unknown = Unknown
  TotalBytes = 4000
  Utilization = 90
  PoolFrac = 0
  Ranks = 2
  KVHeads = 1
  HeadDim = 1
  AttentionLayers = 2
  AllLayers = 8
INVARIANTS ExhaustionSafeWithin WeightsAndPoolFit
