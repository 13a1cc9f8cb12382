SPECIFICATION FairSpec
CONSTANTS
  r1 = r1
  r2 = r2
  r3 = r3
  Runs = {r1, r2, r3}
  NoRun = NoRun
  Calls = 1
  Price = 2
  Bills = {1}
  Limits <- Tight
  More <- One
  Lease = 1
  Kinds <- OwnFaults
  MaxClock = 2
  MaxFaults = 1
  MaxStops = 1
  MaxResumes = 1
CHECK_DEADLOCK FALSE
INVARIANTS ExtendedOnce Carried PaidIsKept
PROPERTIES ComesToRest
