CONSTANTS
  t1 = t1
  t2 = t2
  w1 = w1
  w2 = w2
  Nobody = Nobody
  Orphan = Orphan
  Tasks = {t1, t2}
  Workers = {w1, w2}
  Copies = 1
  MaxRetries = 1
  MaxTurns = 1
  MaxFaults = 1
SPECIFICATION MCSpec
INVARIANTS NotForgotten DeliveredHasLineage
PROPERTIES EndedStaysEnded EveryTaskEnds BookIsReopened
CHECK_DEADLOCK FALSE
