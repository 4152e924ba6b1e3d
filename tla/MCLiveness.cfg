\* One order and two observers; no symmetry under a liveness property.
CONSTANTS
  o1 = o1
  r1 = r1
  c1 = c1
  c2 = c2
  q1 = q1
  Orders = {o1}
  Racks = {r1}
  Cells = {c1, c2}
  NoRack = NoRack
  NoCell = NoCell
  Monitor = Monitor
  ManualQueries = {q1}
  CancelKinds = {"total", "undo"}
  AdminActions = {"force_close"}
  MaxCancelPosts = 1
  MaxOverrides = 1
  MaxCrashes = 1

SPECIFICATION FairSpec
PROPERTIES
  EndedTaskCloses
  
\* Every row of Orders ends up used: the instance stops, the system does not.
CHECK_DEADLOCK FALSE
