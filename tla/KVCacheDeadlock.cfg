CONSTANTS
  c1 = c1
  c2 = c2
  k1 = k1
  Keys <- MCKeys
  Values <- MCValues
  Callers <- OneCaller
  Janitor = janitor
  TTLs <- MCTTLs
  DefaultTTL = 1
  UseNATS = TRUE
  RefreshOnAccess = TRUE
  None = None
  Torn = Torn
SPECIFICATION Spec
INVARIANT NoLockCycle
