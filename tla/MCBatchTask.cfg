SPECIFICATION Spec
CONSTANTS
  Size = 3
  MaxReplans = 1
  Hazards <- NoHazards
  MaxResumes = 3
  MaxUpsets = 2
CHECK_DEADLOCK FALSE
INVARIANTS InOrder ReviewIsShown
PROPERTIES CompletedNotRewritten FromThisBlueprint ComesToRest
