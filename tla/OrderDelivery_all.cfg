SPECIFICATION Spec
CONSTANTS
    o1 = o1
    o2 = o2
    Orders = {o1}
    Quantity <- BuyTwo
    StockKeys = {1, 2, 3, 4}
    ManualKeys = {5, 6}
    Confirmers = {c1, c2}
    Jobs = {j1, j2}
    Admins = {a1}
    AdminOps = {"markPaid", "redeliver", "cancel", "delete", "refund", "alipayRefund", "manual"}
    FaultKinds = {"crash", "abort", "redis", "overrun"}
    None = None
    MaxFaults = 1
INVARIANTS DeliveryMutex DeliverExactly NoOrphanCard
PROPERTIES RefundIsFinal
CHECK_DEADLOCK FALSE
