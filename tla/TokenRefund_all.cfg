SPECIFICATION FairSpec
CONSTANTS
    Logs = {l1}
    Accounts = {x1}
    AccountOf <- SameAccount
    Tasks = {t1, t2}
    Calls = {c1, c2}
    Crons = {s1, s2}
    Admins = {a1, a2}
    RecoverBatch = 1
    FaultKinds = {"crash", "database", "key", "slow"}
    MaxFaults = 1
    None = None
INVARIANTS SingleExecution DoneWasFree TokenKept FeeBeforeWork
PROPERTIES ImplementsPaidJob ProcessingEnds
CHECK_DEADLOCK FALSE
