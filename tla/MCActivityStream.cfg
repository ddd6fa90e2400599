CONSTANTS
    Users = {u1, u2}
    Groups = {g1}
    Conns = {c1, c2}
    FairConns = {}
    Actors = {u2}
    Movers = {u1}
    Dying = {g1}
    MaxEvents = 2
    MaxRestarts = 1
    BufferSize = 1
    MinBackoff = 1
    MaxBackoff = 2
    NoUser = NoUser
SPECIFICATION Spec
SYMMETRY Symmetry
INVARIANTS NoSendOnClosedChannel NoSilentGap FramesInCommitOrder
CHECK_DEADLOCK FALSE
