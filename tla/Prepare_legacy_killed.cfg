\* A volume an older prepare left, and its recovery download is cut short.
SPECIFICATION Spec
CONSTANTS
  Proc = {p1}
  Service = {p1}
  NoOne = NoOne
  LmHeadShard = "shard7"
  EmbedShard = "shard1"
  FastVariant = TRUE
  LegacyDisk = TRUE
  KillDownload = "any"
  MaxCrashes = 1
INVARIANT ReadyIsPrepared
