CONSTANTS
    Calls = {k1, k2}
    Providers = {"hybrid", "omdb"}
    MaxItems = 2
    Limit = 1
    MinInterval = 1
    MaxRetries = 1
    RetryAfters = {0}
    FirstBackoff = 1
    MaxBackoff = 1
    NoHeader = NoHeader
SPECIFICATION FairSpec
INVARIANTS WithinBudget AnswerIsWhole SearchIsFull
PROPERTIES EndsOrHangs
CHECK_DEADLOCK FALSE
