\* Two transports contend for racks and cells, with both kinds of cancellation
\* or an administrator who simulates completions and places racks.
CONSTANTS
  o1 = o1
  o2 = o2
  r1 = r1
  r2 = r2
  c1 = c1
  c2 = c2
  c3 = c3
  Orders = {o1, o2}
  Racks = {r1, r2}
  Cells = {c1, c2, c3}
  NoRack = NoRack
  NoCell = NoCell
  Monitor = Monitor
  ManualQueries = {}
  CancelKinds = {"total", "undo"}
  AdminActions = {"position", "simulate"}
  MaxCancelPosts = 1
  MaxOverrides = 1
  MaxCrashes = 0

SPECIFICATION Spec
CONSTRAINT OneTrouble
SYMMETRY Symmetry
INVARIANTS
  TypeOK
  OneActivePerRack
  DestinationExclusive
  
\* Every row of Orders ends up used: the instance stops, the system does not.
CHECK_DEADLOCK FALSE
