CONSTANTS
    Titles = {t1}
    Series = {t1}
    Seasons = {1, 2}
    MaxDate = 1
    Calls = {c1, c2}
    Keep = Keep
    NoRow = NoRow
    NoCall = NoCall
SPECIFICATION TitlesSpec
PROPERTY TopIsWatchedIfASeasonIs
CHECK_DEADLOCK FALSE
