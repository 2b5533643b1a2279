CONSTANTS
    s1 = s1
    s2 = s2
    u1 = u1
    u2 = u2
    None = None
    Users = {u1}
    SessionIds = {s1, s2}
    Tx = {t1, t2}
    Kinds = {"start", "pause", "resume", "stop", "sync", "manual", "reap"}
    Uploads <- MCUploads
    Batches <- MCRaceBatches
    ClaimTimes = {}
    ManualSpans <- MCManualSpans
    StaleAfter = 1
    Horizon = 3
    MaxSeq = 4
    MaxRequests = 3
    MaxSession = 2
    MaxInterval = 2
    MaxSkew = 0
    RetroWindow = 3
SPECIFICATION Spec
INVARIANTS OneRunningPerUser CompletedHasStop ManualNeverVerified
PROPERTIES ExclusionIsAudited ImplementsLedger
CHECK_DEADLOCK FALSE
