SPECIFICATION Spec
CONSTANTS
  t1 = t1  t2 = t2  v1 = v1  v2 = v2
  a = a  b = b  c = c  d = d
  None = None
  Partial = Partial
  Tasks = {t1, t2}
  Videos = {v1, v2}
  Paths = {a, b, c, d}
  Workers = {w1, w2}
  Clients = {c1}
  Buckets = {}
  Home <- HomeAB
  Variant <- VariantD
  Request <- Onto
  Events = {}
  MaxRestarts = 0
INVARIANTS
  LockedIsRefused
CHECK_DEADLOCK FALSE
