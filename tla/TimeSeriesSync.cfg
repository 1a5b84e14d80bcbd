CONSTANTS
  c1 = c1
  c2 = c2
  Times <- MCTimes
  PartitionSize = 2
  MaxPartitions = 1
  Callers <- MCCallers
  Workloads <- MCWorkloads
  Maintainer = maintainer
  Ids <- MCIds
  None = None
SPECIFICATION Spec
INVARIANTS
  AckedIsVisible
  AckedIsDurable
  SomeCallGoesOn
