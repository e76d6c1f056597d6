SPECIFICATION Spec
CONSTANTS
  t1 = t1  t2 = t2  v1 = v1  v2 = v2
  a = a  b = b  c = c  d = d
  None = None
  Partial = Partial
  Tasks = {t1, t2}
  Videos = {v1, v2}
  Paths = {a, b, c, d}
  Workers = {w1, w2}
  Clients = {c1}
  Buckets = {c}
  Home <- HomeAB
  Variant <- VariantD
  Request <- Apart
  Events = {"cancel", "retry", "io fault"}
  MaxRestarts = 1
INVARIANTS
  NeverRecopied
PROPERTIES
  CompletedMeansMoved
  KeepsPlacement
CHECK_DEADLOCK FALSE
