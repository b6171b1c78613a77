SPECIFICATION MixSpec
CONSTANTS
    o1 = o1
    o2 = o2
    r1 = r1
    c1 = c1
    c2 = c2
    Orders = {}
    Recharges = {r1}
    Calls = {c1}
    MaxPushes = 1
    CloseBatch = 2
    RecoverBatch = 2
    MaxPending = 2
    MaxPaid = 2
    Creators = {x1}
    FaultKinds = {}
    MaxFaults = 0
    None = None
    Mixes <- RaceMix
INVARIANTS SuccessMeansHandled
CHECK_DEADLOCK FALSE
