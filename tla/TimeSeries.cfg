CONSTANTS
  Times <- MCTimes
  PartitionSize = 2
  Configurations <- Both
  Values <- MCValues
  TTLs <- MCTTLs
  MaxTime = 3
SPECIFICATION Spec
INVARIANTS
  TypeOK
  PartitionsWellFormed
  RangeIsExact
  NearestIsNearest
PROPERTIES
  ImplementsStore
