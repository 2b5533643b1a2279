CONSTANTS
    None = None
    Users = {u1, u2}
    Names = {n1, n2}
    Devices = {d1, d2}
    Clients = {c1, c2}
    Tx = {t1, t2}
    MaxTokens = 3
    MaxLinks = 1
    TokenTTL = 1
    LinkTTL = 1
    Grace = 0
    Retention = 0
    Owners = {u2}
    MaxCalls = 5
    Horizon = 1
SPECIFICATION Spec
SYMMETRY Symm
INVARIANTS TypeOK StaysSignedIn OneLivePerFamily
CHECK_DEADLOCK FALSE
