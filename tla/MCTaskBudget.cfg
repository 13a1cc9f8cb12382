SPECIFICATION Spec
CONSTANTS
  r1 = r1
  r2 = r2
  r3 = r3
  Runs = {r1, r2}
  NoRun = NoRun
  Calls = 2
  Price = 2
  Bills = {1}
  Limits <- Mixed
  More <- One
  Lease = 1
  Kinds <- OverlapFaults
  MaxClock = 3
  MaxFaults = 2
  MaxStops = 1
  MaxResumes = 1
SYMMETRY RunSymmetry
CHECK_DEADLOCK FALSE
INVARIANTS LedgerExact WithinLimits OneSpender RuntimeIsLeasedTime
PROPERTIES SavedIsNotPaidAgain
