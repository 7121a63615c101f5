\* A pass scanned twice and a challenge scanned once, two requests at a time.
SPECIFICATION Spec
CONSTANTS
  s1 = s1
  s2 = s2
  t1 = t1
  Scans = {s1, s2, t1}
  Scan <- MCScan
  Requests = {r1, r2}
  MaxBatch = 2
  Opens = 0
  Closes = 3
  PairWindow = 1
  OnlineTolerance = 1
  MaxFuture = 1
  MaxSkew = 1
  MaxSyncDelay = 1
  MaxUpsets = 1
  Horizon = 1
  Free = Free
SYMMETRY Symmetry
INVARIANTS
  TypeOK
  PairIsVerified
  CodeCountsOnce
  ToldAsStored
PROPERTIES
  ClosedStays
  ImplementsLedger
