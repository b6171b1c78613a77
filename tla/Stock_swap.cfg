SPECIFICATION Spec
CONSTANTS
    x1 = x1
    x2 = x2
    Accounts = {x1, x2}
    Rows = {1, 2}
    Cards = {1, 2}
    Orders = {o1, o2}
    MaxQuantity = 2
    Admins = {a1, a2}
    Crons = {n1, n2}
    MaxAttempts = 2
    MaxManual = 1
    None = None
    FaultKinds = {"crash", "database", "network"}
    MaxFaults = 1
    Recyclers = {y1}
    RecycleIds = {q1}
    Workers = {p1, p2}
    c1 = c1
    Codes = {c1}
    Requests = {u1, u2}
    MaxUses <- OneUse
    PoolAccounts = {1, 2}
    k1 = k1
    k2 = k2
    Callers = {k1, k2}
    Poller = p0
    Quota <- TwoEach
    MaxSpent = 1
    Workloads <- SwapWorkload
PROPERTY UseNeverDrops
CHECK_DEADLOCK FALSE
