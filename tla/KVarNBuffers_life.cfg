SPECIFICATION Spec
CONSTANTS
  Target <- MCTarget
  Draft <- MCDraft
  Rows <- MCRows
  Slots = 2
  NumBlocks <- MCNumBlocks
  Floor = 1
  Bounds = {0, 3}
  MaxBatch = 2
  Headroom = 2
INVARIANTS OneDriver MirrorAgrees NothingStale GraphsReadLive
PROPERTIES OwnPlan FlushReachesAll NothingCompiledLate
