SPECIFICATION FairSpec
CONSTANTS
    Second = 4
    Term = 43
    MaxDelay = 6
    Skews = {7, 24}
INVARIANTS TypeOK 
PROPERTIES Recovers
