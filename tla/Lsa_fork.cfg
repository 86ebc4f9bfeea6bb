\* Two conversations that part inside a block a page ends in.
SPECIFICATION Spec
CONSTANTS
  Block = 4
  BucketSize = 2
  PoolSize = 1
  BucketCap = 3
  Sink = 1
  TopK = 6
  TopP = 4
  Radix = 2
  Digits = 2
  Parts = 2
  Chunk = 2
  NumSplits = 2
  BlockN = 2
  Requests = {r1, r2}
  Pages = {p1, p2, p3, p4}
  None = None
  DecodeQ = 2
  DenseBelow = 5
  Texts <- MCTexts
  Setups <- Forked
  Wrong = 11
  ScoreRows <- MCScoreRows
SYMMETRY SameBoxes
INVARIANTS ExactWithinBudget
CHECK_DEADLOCK FALSE
