SPECIFICATION WatchSpec
CONSTANTS
    me = me
    other = other
    Gone = Gone
    Me = me
    Values = {me, other}
    StaleReads = FALSE
    StepLimit = 2
    MaxIndex = 5
    UnknownErrors = TRUE
    MaxRestarts = 1
    CanClose = TRUE
INVARIANT WatchTypeOK
PROPERTIES FeedSpec RecordsEachElectionOnce
CHECK_DEADLOCK FALSE
