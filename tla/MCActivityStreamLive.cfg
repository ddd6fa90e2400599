CONSTANTS
    Users = {u1, u2}
    Groups = {g1}
    Conns = {c1, c2}
    FairConns = {c1}
    Actors = {u2}
    Movers = {}
    Dying = {}
    MaxEvents = 2
    MaxRestarts = 0
    BufferSize = 1
    MinBackoff = 1
    MaxBackoff = 1
    NoUser = NoUser
SPECIFICATION FairSpec
PROPERTIES StalledClientDelaysNobody EntriesAreFreed ListensAgain
CHECK_DEADLOCK FALSE
