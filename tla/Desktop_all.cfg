SPECIFICATION MixSpec
CONSTANTS
    x1 = x1
    x2 = x2
    o1 = o1
    p1 = p1
    p2 = p2
    Mixes <- DesktopMixes
    Tokens = {x1, x2}
    Orders = {o1}
    Tasks = {p1, p2}
    Loop = Loop
    None = None
    NoRow = NoRow
    Intervals = {0, 1}
    MaxSaves = 2
    Windows = TRUE
    FaultKinds = {"read", "write", "crash"}
    MaxFaults = 1
INVARIANTS OneBinding StoresAgree
PROPERTIES IntervalIsNoticed
CHECK_DEADLOCK FALSE
