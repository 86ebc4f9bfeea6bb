\* Both launches, replayed graphs, windows, and the slab workspace's streams.
SPECIFICATION Spec
CONSTANTS
  RowsPerWarp = 2
  TileTokens = 2
  SlabTokens = 6
  QueryCapacity = 3
  Layers <- MCLayers
  Hkv = 1
  QDec = 2
  SlabFloor = 2
  QLens = {1, 2, 3, 5}
  SeqLens = {1, 2, 3, 5, 6, 8, 13}
  Streams = {load, warm, run}
  Loader = load
INVARIANTS RowsSeeTheirDue CapLosesNothing NeverRefused SlabOrdered
