CONSTANTS
  Times <- MCTimes
  PartitionSize = 2
  Configurations <- OnlyEvicting
  Values <- MCValues
  TTLs <- MCTTLs
  MaxTime = 3
SPECIFICATION Spec
PROPERTY ClearRemovesAll
