CONSTANTS
  Times <- MCTimes
  PartitionSize = 2
  Configurations <- MCConfigurations
  Values <- MCValues
  TTLs <- MCTTLs
  MaxTime = 3
  None = None
SPECIFICATION ItSpec
CONSTRAINT Bound
INVARIANTS
  SkipsOnlyAfterRemoval
PROPERTIES
  RepeatsOnlyAfterInsertion
