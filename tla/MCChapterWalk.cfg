SPECIFICATION Spec
CONSTANTS
  ally = ally
  Cards = {ally}
  Reports <- SomeReports
  Verdicts <- SomeVerdicts
  MaxRevisions = 2
  MaxPatches = 2
  MaxReplans = 1
  RecursionLimit = 64
CHECK_DEADLOCK FALSE
INVARIANTS NeverCutOff
