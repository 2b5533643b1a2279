CONSTANTS
    s1 = s1
    s2 = s2
    u1 = u1
    u2 = u2
    None = None
    Users = {u1, u2}
    SessionIds = {s1, s2}
    Tx = {t1, t2}
    Kinds = {"sync"}
    Uploads <- MCUploads
    Batches <- MCUploadBatches
    ClaimTimes = {}
    ManualSpans <- NoSpans
    StaleAfter = 1
    Horizon = 4
    MaxSeq = 4
    MaxRequests = 3
    MaxSession = 3
    MaxInterval = 3
    MaxSkew = 0
    RetroWindow = 4
SPECIFICATION Spec
INVARIANTS VerifiedDisjoint
PROPERTIES WritesOwnRows RetryKeepsCredit
CHECK_DEADLOCK FALSE
