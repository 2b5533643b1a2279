CONSTANTS
    None = None
    Users = {u1}
    Phones = {p1}
    Runs = {r1, r2}
    Limit = 2
    Chunk = 1
    MaxNotes = 3
    MaxSettings = 1
    MaxFaults = 1
SPECIFICATION FairSpec
INVARIANTS StampedWasSent CleanRunsSendOnce
PROPERTIES EventuallyConsidered
CHECK_DEADLOCK FALSE
