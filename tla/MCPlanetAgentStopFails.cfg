SPECIFICATION FairSpec
CONSTANTS
    n1 = n1
    n2 = n2
    n3 = n3
    v1 = v1
    v2 = v2
    v3 = v3
    None = None
    NoVoter = NoVoter
    Nodes = {n1, n2}
    Masters = {n1, n2}
    Voters = {v1, v2, v3}
    Owner <- MCOwner
    ElectionEnabled <- AllEnabled
    Subs = {"units"}
    Units = {"apiserver"}
    CommandsFail = TRUE
    MaxLag = 2
    MaxModeChanges = 1
    MaxCrashes = 0
PROPERTIES StandbysStop
CHECK_DEADLOCK FALSE
