CONSTANTS
    Nobody = Nobody
    None = None
    Accounts = {a1, a2}
    Taps = {t1, t2}
    Flushers = {f1, f2}
    MaxBatch = 2
    MaxLog = 4
    FaultKinds = {"crash", "write", "read", "auth", "signout", "press"}
    MaxFaults = 1
    MaxSessions = 1
    MaxEvents = 3
SPECIFICATION FairSpec
INVARIANTS NoContradiction SyncedIsUploaded
PROPERTIES EventuallySettled
CHECK_DEADLOCK FALSE
