SPECIFICATION Spec
CONSTANTS
  Req = {r1, r2}
  Pages = {p1, p2, p3, p4}
  PoolSize = 3
  PerPage = 1
  G = 2
  MaxPages = 3
  MaxChunk = 2
  MaxDraft = 1
  Lookahead = 0
  MaxForeign = 1
  IdleAllowed = FALSE
SYMMETRY Symmetry
INVARIANTS NoSlotLeak LiveReadable
PROPERTIES SinkStaysResident ExhaustedByDemandOnly
CHECK_DEADLOCK FALSE
