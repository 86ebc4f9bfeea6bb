\* Every route, kernel, split and padding.
SPECIFICATION Spec
CONSTANTS
  G = 2
  BlockN = 1
  Batches <- MCBatches
  Configs <- MCConfigs
INVARIANTS RowsAttendTheirDue PaddedRowsReadNothing
CHECK_DEADLOCK FALSE
