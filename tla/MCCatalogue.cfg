CONSTANTS
    Ids = {t1, t2}
    Contents = {c1, c2}
    Origins = {o1, o2}
    Requests = {r1, r2}
    Workers = {w1, w2}
    NoTitle = NoTitle
    Idle = Idle
    Gone = Gone
    MaxInt = 15
    DefaultPageSize = 2
    MaxPageSize = 5
    MaxRows = 6
SPECIFICATION FairSpec
INVARIANTS EachTitleOnce AnswersWhatIsStored EveryRowOnOnePage
PROPERTIES RefreshKeepsTheRest SyncEnds
CHECK_DEADLOCK FALSE
