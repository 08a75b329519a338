SPECIFICATION VoterFairSpec
CONSTANTS
    n1 = n1
    n2 = n2
    v1 = v1
    v2 = v2
    v3 = v3
    None = None
    Nodes = {n1, n2}
    Voters = {v1, v2, v3}
    Owner <- MCOwner
INVARIANTS VoterTypeOK CurrentMeansOwn
PROPERTIES LeaseLockSpec Failover RetiredLoseLead ElectionService
