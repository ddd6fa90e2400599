CONSTANTS
    Users = {u1, u2}
    Tickets = {t1, t2}
    Callers = {c1, c2, c3}
    TTL = 2
    MaxClock = 4
    NoEntry = NoEntry
    NoCall = NoCall
SPECIFICATION Spec
SYMMETRY Symmetry
INVARIANTS SingleUse
PROPERTIES ExpiredIsRefused GoneUserGetsNoStream
CHECK_DEADLOCK FALSE
