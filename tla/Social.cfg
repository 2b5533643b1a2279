CONSTANTS
    None = None
    Users = {u1, u2}
    Tx = {t1, t2, t3}
    MaxCalls = 7
SPECIFICATION Spec
SYMMETRY Symm
INVARIANTS TypeOK FriendsWanted PairClean
CHECK_DEADLOCK FALSE
