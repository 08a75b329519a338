SPECIFICATION WatchFairSpec
CONSTANTS
    me = me
    other = other
    Gone = Gone
    Me = me
    Values = {me, other}
    StaleReads = FALSE
    StepLimit = 2
    MaxIndex = 5
    UnknownErrors = TRUE
    MaxRestarts = 0
    CanClose = FALSE
PROPERTIES LearnsLatest
CHECK_DEADLOCK FALSE
