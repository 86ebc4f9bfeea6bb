SPECIFICATION Spec
CONSTANTS
  Presets <- MCPresets
  HeadDims = {4, 8}
  Batches <- MCBatches
  ChunkTiles = 1
  Iters = 2
  Imbalances = {0, 2}
  BigHead = 8
INVARIANTS ReadersGetTheirDue PagesAreTiles
CHECK_DEADLOCK FALSE
