CONSTANTS
    Users = {u1, u2}
    Groups = {g1}
    Writers = {w1, w2}
    Sessions = {i1, i2}
    Clients = {c1}
    MaxSeq = 3
    PageLimit = 1
    NoEvent = NoEvent
    Idle = Idle
SPECIFICATION Spec
SYMMETRY Symmetry
INVARIANTS ReadStateIsCommitted BadgeCountsTheFeed WalkMissesNothing
PROPERTIES ReadStaysRead MarkAllIsExact ReadStateSpec
CONSTRAINT RaceBound
CHECK_DEADLOCK FALSE
