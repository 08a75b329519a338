SPECIFICATION WatchFairSpec
CONSTANTS
    me = me
    other = other
    Gone = Gone
    Me = me
    Values = {me, other}
    StaleReads = TRUE
    StepLimit = 2
    MaxIndex = 4
    UnknownErrors = FALSE
    MaxRestarts = 0
    CanClose = FALSE
PROPERTIES LearnsLatest
CHECK_DEADLOCK FALSE
