SPECIFICATION MixSpec
CONSTANTS
    o1 = o1
    o2 = o2
    r1 = r1
    c1 = c1
    c2 = c2
    Orders = {o1, o2}
    Recharges = {r1}
    Calls = {c1, c2}
    MaxPushes = 5
    CloseBatch = 2
    RecoverBatch = 2
    MaxPending = 2
    MaxPaid = 2
    Creators = {x1}
    FaultKinds = {"lost", "check", "amount", "early", "abort", "network", "crash"}
    MaxFaults = 2
    None = None
    Mixes <- AllMixes
INVARIANTS CreditedOnce PaidHasMoney AckedIsSettled SweptIsSettled ExpiredIsClosed
PROPERTIES PaidIsRecorded
CHECK_DEADLOCK FALSE
