SPECIFICATION ObserversSpec
CONSTANTS
  None = None
  Tasks = {t1}
  Workers = {w1}
  Watchers = {o1}
  Cap = 2
  MaxSteps = 4
  Retries = FALSE
INVARIANTS
  NeverLeftWaiting
CHECK_DEADLOCK FALSE
