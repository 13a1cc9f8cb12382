SPECIFICATION Spec
CONSTANTS
  ally = ally
  Cards = {ally}
  Reports <- SomeReports
  Verdicts <- SomeVerdicts
  MaxRevisions = 1
  MaxPatches = 1
  MaxReplans = 1
  Inputs <- AllInputs
  Hazards <- NoHazards
  MaxResumes = 2
  MaxUpsets = 1
CHECK_DEADLOCK FALSE
INVARIANTS ConfirmedKnowingly RefusedStaysOut WrittenAsApproved PlanIsNewest DoneMeansWritten
PROPERTIES VersionIsNewText SummaryFits ComesToRest
