SPECIFICATION ObserversFairSpec
CONSTANTS
  None = None
  Tasks = {t1}
  Workers = {w1}
  Watchers = {o1}
  Cap = 6
  MaxSteps = 4
  Retries = TRUE
INVARIANTS
  NeverLeftWaiting
PROPERTIES
  StreamsEnd
CHECK_DEADLOCK FALSE
