CONSTANTS
    Titles = {t1}
    Series = {t1}
    Seasons = {1, 2}
    MaxDate = 1
    Calls = {c1, c2}
    Keep = Keep
    NoRow = NoRow
    NoCall = NoCall
SPECIFICATION TitlesSpec
SYMMETRY Symmetry
PROPERTIES RemovedComesBackBlank WatchedSeasonShows RollupUnlessRaced
CHECK_DEADLOCK FALSE
