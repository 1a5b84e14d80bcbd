CONSTANTS
  r1 = r1
  r2 = r2
  r3 = r3
  Requests <- MCRequests
  MaxFailures = 2
  ResetTimeout = 2
  HalfOpenTimeout = 1
SYMMETRY RequestSymmetry
SPECIFICATION Spec
INVARIANT HalfOpenSingleProbe
