CONSTANTS
    Users = {u1}
    Groups = {g1}
    Titles = {t1, t2}
    Series = {t1}
    Seasons = {1, 2, 3}
    Ids = {a, b}
    MaxNote = 3
    Given = {0, 3}
    Requests = {r1, r2}
    NoRow = NoRow
    NoRequest = NoRequest
    Unrated = Unrated
SPECIFICATION Spec
SYMMETRY Symmetry
INVARIANTS NoteIsMean OneRatingPerKey
PROPERTIES DeletedStaysDeleted OnlyItsSeason
CHECK_DEADLOCK FALSE
