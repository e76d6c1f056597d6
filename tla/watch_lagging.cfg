SPECIFICATION ObserversSpec
CONSTANTS
  None = None
  Tasks = {t1}
  Workers = {w1}
  Watchers = {o1, o2}
  Cap = 2
  MaxSteps = 4
  Retries = FALSE
INVARIANTS
  ObserversTypeOK
PROPERTIES
  LastFrameDelivered
  LostOnlyWhenFull
CHECK_DEADLOCK FALSE
