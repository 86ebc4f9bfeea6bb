\* Two containers, one of them restarted for ever, killed anywhere but in a
\* recovery download, on a fresh volume or one an older prepare left damaged.
SPECIFICATION FairSpec
CONSTANTS
  Proc = {p1, p2}
  Service = {p1}
  NoOne = NoOne
  LmHeadShard = "shard7"
  EmbedShard = "shard1"
  FastVariant = TRUE
  LegacyDisk = TRUE
  KillDownload = "first"
  MaxCrashes = 3
INVARIANTS IndexTruthful OriginalsKept ReadyIsPrepared
PROPERTIES ReadersSeeWholeFiles StepsLandInOrder Converges
