CONSTANTS
  c1 = c1
  c2 = c2
  r1 = r1
  r2 = r2
  b1 = b1
  empty = empty
  k1 = k1
  k2 = k2
  None = None
  Keys <- OneKey
  EmptyKey = empty
  Callers <- TwoCallers
  Refreshers <- NoRefresher
  Batchers <- NoBatcher
  MaxVersion = 2
  TTL = 1
  Stale = 1
  MaxItems = 1
  UseBreaker = FALSE
  MayPanic = TRUE
  MaxFailures = 1
  ResetTimeout = 1
  HalfOpenTimeout = 1
SPECIFICATION Spec
INVARIANTS
  SuccessMeansFetched
