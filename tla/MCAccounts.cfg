CONSTANTS
    Ids = {i1, i2}
    Words = {x, y}
    Passwords = {p1, p2}
    Requests = {r1, r2}
    Blank = Blank
    NoUser = NoUser
    Idle = Idle
SPECIFICATION AccountsSpec
SYMMETRY Symmetry
INVARIANT EveryAccountLogsIn
PROPERTIES OnlyTheHolder UnracedUpdate
CHECK_DEADLOCK FALSE
