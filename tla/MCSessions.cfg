CONSTANTS
    p1 = p1
    p2 = p2
    r1 = r1
    r2 = r2
    t1 = t1
    t2 = t2
    s1 = s1
    Processes = {p1, p2}
    Requests = {r1, r2}
    Tokens = {t1, t2}
    States = {s1}
    TTL = 2
    StateTTL = 1
    MaxNow = 3
    MaxRestarts = 1
SPECIFICATION SessionSpec
SYMMETRY MCSymmetry
CHECK_DEADLOCK FALSE
INVARIANTS
    SessionTypeOK
    RevokedRefused
    StateOnce
