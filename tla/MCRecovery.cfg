\* Closings, releases and reservations by hand, cancellations without return, one restart.
CONSTANTS
  o1 = o1
  o2 = o2
  r1 = r1
  c1 = c1
  c2 = c2
  Orders = {o1, o2}
  Racks = {r1}
  Cells = {c1, c2}
  NoRack = NoRack
  NoCell = NoCell
  Monitor = Monitor
  ManualQueries = {}
  CancelKinds = {"total"}
  AdminActions = {"force_close", "cleanup", "release", "reserve"}
  MaxCancelPosts = 1
  MaxOverrides = 1
  MaxCrashes = 1

SPECIFICATION Spec
SYMMETRY Symmetry
INVARIANTS
  RackHeldWhileActive
  NoOrphanTask
  CreatePostedOnce

  
\* Every row of Orders ends up used: the instance stops, the system does not.
CHECK_DEADLOCK FALSE
