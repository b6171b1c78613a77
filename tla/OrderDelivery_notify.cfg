SPECIFICATION Spec
CONSTANTS
    o1 = o1
    o2 = o2
    Orders = {o1}
    Quantity <- BuyOne
    StockKeys = {1, 2}
    ManualKeys = {}
    Confirmers = {c1, c2}
    Jobs = {j1, j2}
    Admins = {}
    AdminOps = {}
    FaultKinds = {}
    None = None
    MaxFaults = 0
INVARIANTS NoOverDelivery
CHECK_DEADLOCK FALSE
