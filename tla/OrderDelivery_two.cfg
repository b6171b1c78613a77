SPECIFICATION FairSpec
CONSTANTS
    o1 = o1
    o2 = o2
    Orders = {o1, o2}
    Quantity <- BuyOneEach
    StockKeys = {1, 2}
    ManualKeys = {}
    Confirmers = {c1}
    Jobs = {j1, j2}
    Admins = {a1}
    AdminOps = {"refund", "delete"}
    FaultKinds = {}
    None = None
    MaxFaults = 0
INVARIANTS KeyOwnership
PROPERTIES NoHandover PaidIsDelivered
CHECK_DEADLOCK FALSE
