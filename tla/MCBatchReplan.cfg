SPECIFICATION Spec
CONSTANTS
  Size = 2
  MaxReplans = 1
  Hazards <- ReplanHazard
  MaxResumes = 2
  MaxUpsets = 0
CHECK_DEADLOCK FALSE
PROPERTIES CompletedNotRewritten
