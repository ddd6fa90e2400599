CONSTANTS
    Users = {u1, u2}
    Groups = {g1, g2}
    Titles = {t1, t2}
    Series = {t1}
    Seasons = {1, 2}
    Ids = {a, b}
    Texts = {x}
    Times = {1, 2}
    Requests = {r1, r2}
    NoText = NoText
    NoComment = NoComment
    NoRequest = NoRequest
SPECIFICATION Spec
SYMMETRY Symmetry
INVARIANTS TextOrSeasons
PROPERTIES OnlyTheNamedComment UnracedWrite
CHECK_DEADLOCK FALSE
