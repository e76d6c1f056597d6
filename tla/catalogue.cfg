SPECIFICATION CatalogueSpec
CONSTANTS
  v1 = v1  v2 = v2  n1 = n1  n2 = n2
  a = a  b = b  c = c  d = d
  s1 = s1  s2 = s2  s3 = s3
  x = x
  None = None
  Requests = {r1, r2}
  Ids = {v1, v2, n1, n2}
  Paths = {a, b, c, d}
  Tags = {x}
  Series = {s1, s2, s3}
  Dir = {a, c, d}
  Stored = {a, b, d}
  NameOf <- MCNameOf
  Home <- MCHome
  Tagged <- MCTagged
  Start <- MCStart
  Inputs <- MCInputs
  Moves <- MCMoves
INVARIANTS
  CatalogueTypeOK
  ListsVideosOnce
  EmptySeriesIsSwept
  OrderAsAsked
  MembershipAgrees
  CountsAgree
  RowsHaveFiles
  MoveIsNotBlocked
SYMMETRY Alike
CHECK_DEADLOCK FALSE
