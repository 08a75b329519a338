SPECIFICATION HostSpec
CONSTANTS
    m1 = m1
    w1 = w1
    None = None
    Nodes = {m1, w1}
    Masters = {m1}
    Namespaced = {m1, w1}
    Cpus = {4, 5}
    OperatorConfigs <- MCOperatorConfigs
    StartupFaults = {}
    MaxEvents = 2
    Host = m1
    Scopes = {s1}
    SlowScopes = FALSE
    MaxErrors = 1
INVARIANTS HostTypeOK OperatorConfigKept KubeletConfigured StopsOnlyLeft
PROPERTIES KubeletsStart LeftScopesGo
