\* A completion overtakes a close by hand.
CONSTANTS
  o1 = o1
  r1 = r1
  c1 = c1
  c2 = c2
  Orders = {o1}
  Racks = {r1}
  Cells = {c1, c2}
  NoRack = NoRack
  NoCell = NoCell
  Monitor = Monitor
  ManualQueries = {}
  CancelKinds = {}
  AdminActions = {"force_close"}
  MaxCancelPosts = 0
  MaxOverrides = 1
  MaxCrashes = 0

SPECIFICATION Spec
SYMMETRY Symmetry
PROPERTY LocalCloseIsFinal

\* Every row of Orders ends up used: the instance stops, the system does not.
CHECK_DEADLOCK FALSE
