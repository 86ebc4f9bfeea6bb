SPECIFICATION DraftSpec
CONSTANTS
  Req = {r1, r2}
  Pages = {p1, p2, p3, p4}
  PoolSize = 5
  PerPage = 2
  G = 2
  MaxPages = 2
  MaxChunk = 2
  MaxDraft = 1
  Lookahead = 2
  Passes = 3
  MaxForeign = 1
  IdleAllowed = TRUE
SYMMETRY Symmetry
INVARIANTS LiveReadable CachedReadable ForeignPagesIntact
PROPERTIES ProposalsNeverFrozen TailKeepsSlot
CHECK_DEADLOCK FALSE
