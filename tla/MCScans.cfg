SPECIFICATION Spec
CONSTANTS
  None = None
  k1 = k1
  k2 = k2
  Keys <- MCKeys
  Scanners = {k1, k2}
  Labels = {l1, l2}
  Executing = {k1}
  Sessions = {h1, h2}
  Racks = {r1, r2}
  Cells = {d1, d2}
  Orders = {1, 2}
  l1 = l1
  l2 = l2
  RouteTables <- MCRouteTables
  MaxTroubles = 1
SYMMETRY Symmetry
INVARIANTS
  TypeOK
  ClaimsExclusive
  NothingUnreported
  DuplicateNamesOrder
PROPERTIES
  OneOrderPerScan
CHECK_DEADLOCK FALSE
