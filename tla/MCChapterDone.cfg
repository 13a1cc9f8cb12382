SPECIFICATION Spec
CONSTANTS
  ally = ally
  Cards = {ally}
  Reports <- SomeReports
  Verdicts <- SomeVerdicts
  MaxRevisions = 1
  MaxPatches = 1
  MaxReplans = 1
  Inputs <- ManualOnly
  Hazards <- ManualHazard
  MaxResumes = 2
  MaxUpsets = 1
CHECK_DEADLOCK FALSE
INVARIANTS DoneMeansWritten
