CONSTANTS
  Goroutines = {g1, g2}
  Channels = {c1, c2, c3}
  NoChannel = NoChannel
SPECIFICATION CompleterSpec
INVARIANTS
  FlagAgreesWithChannel
CHECK_DEADLOCK FALSE
