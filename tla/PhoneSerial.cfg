CONSTANTS
    Nobody = Nobody
    None = None
    Accounts = {a1}
    Taps = {t1}
    Flushers = {f1, f2}
    MaxBatch = 2
    MaxLog = 2
    FaultKinds = {"crash", "write"}
    MaxFaults = 2
    MaxSessions = 2
    MaxEvents = 3
SPECIFICATION Spec
SYMMETRY Symm
INVARIANTS TypeOK ShownIsStored NoneForgotten
PROPERTIES DroppedIsUploaded
CHECK_DEADLOCK FALSE
