SPECIFICATION NodeSpec
CONSTANTS
    v238 = v238
    v31 = v31
    v33 = v33
    h1 = h1
    h2 = h2
    h3 = h3
    none = none
    Versions <- MCVersions
    Assumed = v238
    None = none
    Clients <- MCClients
    TornWrites = FALSE
    EarlyRollbacks = FALSE
    JoinInterrupted = FALSE
    StatusFails = FALSE
    MaxPlans = 3
    MaxFailures = 1
    Hosts <- MCHosts
    CrashInWindow = FALSE
    DisjointChanges = FALSE
    MaxChanges = 3
INVARIANTS NodeTypeOK  ServesClusterData 
PROPERTIES  EtcdComesBack 
