SPECIFICATION Spec
CONSTANTS
    Orders = {o1}
    WindowOrders = {o1}
    Cells = {c1, c2, c3}
    Racks = {r1, r2}
    NoCell = NoCell
    NoRack = NoRack
    Attempts = 2
    Setups <- Manual
PROPERTY BindsWhenIdle
CHECK_DEADLOCK FALSE
