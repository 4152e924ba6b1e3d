CONSTANTS
  None = None
  Cells <- MCCells
  AreaOf <- MCAreaOf
  AllAreas <- MCAreas
  Racks <- MCRacks
  NRacks = 3
  Hidden = {}
  Unassigned = "sin"
  Statuses = {"available", "reserved"}
  Floors <- MCFloors
  Plans <- MCKeptPlans
  Tables <- MCTables
  Payloads <- MCPayloads
  RuleIds = {1, 2}
  Others <- MCOthers
  MaxOutside = 1
SPECIFICATION Spec
INVARIANT TypeOK PlanKept
PROPERTY CreatedFits
CHECK_DEADLOCK FALSE
