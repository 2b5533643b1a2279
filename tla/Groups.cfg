CONSTANTS
    None = None
    Users = {u1, u2, u3, u4}
    Groups = {g}
    Codes = {c1, c2}
    Limits = {2, 3}
    Tx = {t1, t2}
    MaxCalls = 5
SPECIFICATION Spec
SYMMETRY Symm
INVARIANTS TypeOK OneOwner InvitedOnly BoundedOvershoot
CHECK_DEADLOCK FALSE
