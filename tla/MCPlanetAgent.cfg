SPECIFICATION Spec
CONSTANTS
    n1 = n1
    n2 = n2
    n3 = n3
    v1 = v1
    v2 = v2
    v3 = v3
    None = None
    NoVoter = NoVoter
    Nodes = {n1, n2, n3}
    Masters = {n1, n2}
    Voters = {v1, v2, v3}
    Owner <- MCOwner
    ElectionEnabled <- SecondDisabled
    Subs = {"dns"}
    Units = {"apiserver"}
    CommandsFail = FALSE
    MaxLag = 1
    MaxModeChanges = 2
    MaxCrashes = 1
INVARIANTS TypeOK VoterBookkeeping 
 
CHECK_DEADLOCK FALSE
