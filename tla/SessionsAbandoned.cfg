CONSTANTS
    s1 = s1
    s2 = s2
    u1 = u1
    u2 = u2
    None = None
    Users = {u1}
    SessionIds = {s1, s2}
    Tx = {t1, t2}
    Kinds = {"start", "pause", "resume", "stop", "reap"}
    Uploads <- MCUploads
    Batches <- MCNoBatches
    ClaimTimes = {}
    ManualSpans <- NoSpans
    StaleAfter = 1
    Horizon = 3
    MaxSeq = 5
    MaxRequests = 4
    MaxSession = 2
    MaxInterval = 2
    MaxSkew = 0
    RetroWindow = 3
SPECIFICATION FairSpec
INVARIANTS StopEndsSession
PROPERTIES AbandonedIsClosed
CHECK_DEADLOCK FALSE
