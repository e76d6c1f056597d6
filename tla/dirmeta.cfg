SPECIFICATION DirMetadataSpec
CONSTANTS
  m = m  a = a  b = b  c = c
  None = None
  Requests = {r1, r2}
  Dirs = {m, a, b, c}
  Stray = {c}
  Up <- MCUp
  Start <- MCStart
  Marks <- MCMarks
  Known <- MCKnown
  Inputs <- MCInputs
  MaxOwn = 2
  MaxAsks = 2
INVARIANTS
  DirMetadataTypeOK
  ListingHonours
  AggregatesExact
  CacheAgrees
  RecountRepairs
  RefreshRepairs
SYMMETRY Alike
CHECK_DEADLOCK FALSE
