--------------------------- MODULE AgentHostProofs ---------------------------
(***************************************************************************)
(* The safety properties of AgentHost for every set of nodes, every number *)
(* of CPUs, events and scopes, as long as none of the faults happens.      *)
(***************************************************************************)
EXTENDS AgentHost, TLAPS

Busy == {"write", "apply", "env"}
Past == {"leader", "create", "createWorker", "get", "up"}

\* No operator has touched the configuration of n, and its cgroups are planet's.
Planets(n) == n \in Namespaced /\ edited[n] = None

\* The reservations and the quota are those for the CPUs n has.
InForce(n) == reservedEnv[n] = Reservations(Default(n)) /\ applied[n] = Default(n).quota

(***************************************************************************)
(* What the agent has in memory, on disk and in force at each of its       *)
(* steps.  The two properties do not say what the agent is about to write  *)
(* (config), nor why the DNS file is a sign that all the rest is done.     *)
(***************************************************************************)
NodeInv(n) ==
    /\ failed[n] => agent[n] = "env"
    /\ edited[n] # None => conf[n] = edited[n]
    /\ edited[n] # None /\ agent[n] = "write" => config[n] = conf[n]
    /\ edited[n] = None => conf[n] = None \/ (conf[n].enabled /\ conf[n].auto)
    /\ agent[n] \in Busy => config[n] \in Configs
    /\ edited[n] = None /\ agent[n] \in Busy => config[n] = Default(n)
    /\ Planets(n) /\ agent[n] = "env" /\ ~failed[n] => applied[n] = Default(n).quota
    /\ Planets(n) /\ agent[n] \in Past => InForce(n)
    /\ Planets(n) /\ (dnsEnv[n] # None \/ kubelet[n] # None) => InForce(n)
    /\ kubelet[n] # None => /\ kubelet[n].dns = DNSAddresses(n)
                            /\ Planets(n) => kubelet[n].env = Reservations(Default(n))

StartupInv == StartupTypeOK /\ \A n \in Nodes : NodeInv(n)

\* A scope that is old has had its process; the cleaner only looks at old ones.
CleanerInv ==
    /\ CleanerTypeOK
    /\ \A s \in old : scope[s] \in {"busy", "left", "gone"}
    /\ paths \subseteq old
    /\ StopsOnlyLeft

\* What defaultCgroupConfig computes is a configuration.
LEMMA DefaultType ==
    ASSUME NEW k \in Nat \ {0}, NEW b \in BOOLEAN
    PROVE  /\ defaultCgroupConfig(k, b) \in Configs
           /\ defaultCgroupConfig(k, b).enabled /\ defaultCgroupConfig(k, b).auto
  BY DEF defaultCgroupConfig, userQuota, DefaultCgroupCPUPeriod, Configs

(***************************************************************************)
(* The default configuration fits every machine (cgroup.go:188): the       *)
(* user's quota is at least half a CPU and never more than all of them,    *)
(* and the reservations leave CPU for pods.                                *)
(***************************************************************************)
THEOREM DefaultsFit ==
    ASSUME NEW k \in Nat \ {0}, NEW b \in BOOLEAN
    PROVE  /\ defaultCgroupConfig(k, b).quota >= 50000
           /\ defaultCgroupConfig(k, b).quota <= k * DefaultCgroupCPUPeriod
           /\ defaultCgroupConfig(k, b).reserved + defaultCgroupConfig(k, b).system < k * 1000
  BY DEF defaultCgroupConfig, userQuota, DefaultCgroupCPUPeriod

LEMMA DefaultOfNode ==
    ASSUME StartupTypeOK, NEW n \in Nodes
    PROVE  Default(n) \in Configs /\ Default(n).enabled /\ Default(n).auto
  <1>1. cpus[n] \in Nat \ {0}
    BY StartupAssumption, Zenon DEF StartupTypeOK
  <1>2. (n \in Masters) \in BOOLEAN
    OBVIOUS
  <1> QED BY <1>1, <1>2, DefaultType, Zenon DEF Default

-----------------------------------------------------------------------------
\* Nothing of m changes.
SameNode(m) ==
    /\ cpus'[m] = cpus[m] /\ conf'[m] = conf[m] /\ edited'[m] = edited[m]
    /\ applied'[m] = applied[m] /\ reservedEnv'[m] = reservedEnv[m] /\ dnsEnv'[m] = dnsEnv[m]
    /\ agent'[m] = agent[m] /\ config'[m] = config[m] /\ failed'[m] = failed[m]
    /\ kubelet'[m] = kubelet[m]

\* A step keeps the invariant of a node it does not touch.
LEMMA NodeUntouched ==
    ASSUME NEW m \in Nodes, NodeInv(m), SameNode(m)
    PROVE  NodeInv(m)'
  BY DEF NodeInv, SameNode, Planets, InForce, Default, DNSAddresses

\* The sets the files and processes are taken from do not change.
LEMMA FixedSets ==
    /\ Configs' = Configs /\ Resolvers' = Resolvers /\ Kubelets' = Kubelets /\ Phases' = Phases
    /\ \A n \in Nodes : DNSAddresses(n)' = DNSAddresses(n)
  BY DEF Configs, Resolvers, Kubelets, Phases, DNSAddresses

\* So does a step that changes nothing.
LEMMA Stutters ==
    ASSUME StartupInv, UNCHANGED startupVars
    PROVE  StartupInv'
  <1>1. StartupTypeOK'
    BY FixedSets DEF startupVars, nodeVars, StartupInv, StartupTypeOK
  <1>2. ASSUME NEW m \in Nodes PROVE NodeInv(m)'
    BY NodeUntouched DEF startupVars, nodeVars, StartupInv, SameNode
  <1> QED BY <1>1, <1>2 DEF StartupInv

\* What a step makes of its own node: the values it leaves keep the invariant.

\* The agent goes on to the next phase and leaves the files alone.
LEMMA MovesOn ==
    ASSUME NEW n \in Nodes, NodeInv(n), agent[n] \in Past, agent'[n] \in Past,
           /\ cpus'[n] = cpus[n] /\ conf'[n] = conf[n] /\ edited'[n] = edited[n]
           /\ applied'[n] = applied[n] /\ reservedEnv'[n] = reservedEnv[n]
           /\ dnsEnv'[n] = dnsEnv[n] /\ config'[n] = config[n] /\ failed'[n] = failed[n]
           /\ kubelet'[n] = kubelet[n]
    PROVE  NodeInv(n)'
  BY DEF NodeInv, Planets, InForce, Default, Busy, Past, DNSAddresses

\* A kubelet started from the node's files.
LEMMA KubeletStartsNode ==
    ASSUME NEW n \in Nodes, NodeInv(n), dnsEnv[n] = DNSAddresses(n), dnsEnv[n] # None,
           /\ kubelet'[n] = [env |-> reservedEnv[n], dns |-> dnsEnv[n]],
           /\ cpus'[n] = cpus[n] /\ conf'[n] = conf[n] /\ edited'[n] = edited[n]
           /\ applied'[n] = applied[n] /\ reservedEnv'[n] = reservedEnv[n]
           /\ dnsEnv'[n] = dnsEnv[n] /\ agent'[n] = agent[n] /\ config'[n] = config[n]
           /\ failed'[n] = failed[n]
    PROVE  NodeInv(n)'
  BY DEF NodeInv, Planets, InForce, Default, Busy, Past, DNSAddresses

\* The agent has read or defaulted the cgroup configuration.
LEMMA UpsertNode ==
    ASSUME NEW n \in Nodes, NodeInv(n), ConfigToUse(n) \in Configs, agent[n] = "off",
           Default(n).enabled,
           edited[n] = None => ConfigToUse(n) = Default(n),
           edited[n] # None => ConfigToUse(n) = conf[n],
           Planets(n) => agent'[n] = "write",
           /\ agent'[n] \in {"write", "leader"} /\ config'[n] = ConfigToUse(n),
           /\ cpus'[n] = cpus[n] /\ conf'[n] = conf[n] /\ edited'[n] = edited[n]
           /\ applied'[n] = applied[n] /\ reservedEnv'[n] = reservedEnv[n]
           /\ dnsEnv'[n] = dnsEnv[n] /\ failed'[n] = failed[n] /\ kubelet'[n] = kubelet[n]
    PROVE  NodeInv(n)'
  BY DEF NodeInv, Planets, InForce, Default, Busy, Past, DNSAddresses

\* The agent has written the configuration it planned.
LEMMA WriteNode ==
    ASSUME NEW n \in Nodes, NodeInv(n), agent[n] = "write", config[n] \in Configs,
           Default(n).enabled, Default(n).auto,
           /\ agent'[n] = "apply" /\ conf'[n] = config[n],
           /\ cpus'[n] = cpus[n] /\ edited'[n] = edited[n] /\ applied'[n] = applied[n]
           /\ reservedEnv'[n] = reservedEnv[n] /\ dnsEnv'[n] = dnsEnv[n]
           /\ config'[n] = config[n] /\ failed'[n] = failed[n] /\ kubelet'[n] = kubelet[n]
    PROVE  NodeInv(n)'
  BY DEF NodeInv, Planets, InForce, Default, Busy, Past, DNSAddresses

\* The agent has applied the quota, or noted that it could not.
LEMMA ApplyNode ==
    ASSUME NEW n \in Nodes, NodeInv(n), agent[n] = "apply",
           failed'[n] \/ applied'[n] = config[n].quota,
           /\ agent'[n] = "env" /\ applied'[n] \in {applied[n], config[n].quota}
           /\ failed'[n] \in {failed[n], TRUE},
           /\ cpus'[n] = cpus[n] /\ conf'[n] = conf[n] /\ edited'[n] = edited[n]
           /\ reservedEnv'[n] = reservedEnv[n] /\ dnsEnv'[n] = dnsEnv[n]
           /\ config'[n] = config[n] /\ kubelet'[n] = kubelet[n]
    PROVE  NodeInv(n)'
  BY DEF NodeInv, Planets, InForce, Default, Busy, Past, DNSAddresses

\* The agent has written the kubelet's reservations, or ends for a failure before them.
LEMMA ReservedNode ==
    ASSUME NEW n \in Nodes, NodeInv(n), agent[n] = "env", agent'[n] = "leader" => ~failed[n],
           /\ agent'[n] \in {"off", "leader"} /\ failed'[n] = FALSE
           /\ reservedEnv'[n] = Reservations(config[n]),
           /\ cpus'[n] = cpus[n] /\ conf'[n] = conf[n] /\ edited'[n] = edited[n]
           /\ applied'[n] = applied[n] /\ dnsEnv'[n] = dnsEnv[n] /\ config'[n] = config[n]
           /\ kubelet'[n] = kubelet[n]
    PROVE  NodeInv(n)'
  BY DEF NodeInv, Planets, InForce, Default, Busy, Past, DNSAddresses

\* The agent has written the kubelet's resolver.
LEMMA ResolverNode ==
    ASSUME NEW n \in Nodes, NodeInv(n), agent[n] = "get",
           /\ agent'[n] = "up" /\ dnsEnv'[n] = DNSAddresses(n),
           /\ cpus'[n] = cpus[n] /\ conf'[n] = conf[n] /\ edited'[n] = edited[n]
           /\ applied'[n] = applied[n] /\ reservedEnv'[n] = reservedEnv[n]
           /\ config'[n] = config[n] /\ failed'[n] = failed[n] /\ kubelet'[n] = kubelet[n]
    PROVE  NodeInv(n)'
  BY DEF NodeInv, Planets, InForce, Default, Busy, Past, DNSAddresses

\* The agent dies.
LEMMA DiesNode ==
    ASSUME NEW n \in Nodes, NodeInv(n),
           /\ agent'[n] = "off" /\ failed'[n] = FALSE,
           /\ cpus'[n] = cpus[n] /\ conf'[n] = conf[n] /\ edited'[n] = edited[n]
           /\ applied'[n] = applied[n] /\ reservedEnv'[n] = reservedEnv[n]
           /\ dnsEnv'[n] = dnsEnv[n] /\ config'[n] = config[n] /\ kubelet'[n] = kubelet[n]
    PROVE  NodeInv(n)'
  BY DEF NodeInv, Planets, InForce, Default, Busy, Past, DNSAddresses

\* The node reboots, with other CPUs perhaps.
LEMMA RebootNode ==
    ASSUME NEW n \in Nodes, NodeInv(n),
           /\ agent'[n] = "off" /\ failed'[n] = FALSE /\ cpus'[n] \in Cpus
           /\ applied'[n] = 0 /\ reservedEnv'[n] = None /\ dnsEnv'[n] = None
           /\ kubelet'[n] = None,
           /\ conf'[n] = conf[n] /\ edited'[n] = edited[n] /\ config'[n] = config[n]
    PROVE  NodeInv(n)'
  BY DEF NodeInv, Planets, InForce, Default, Busy, Past, DNSAddresses

\* The operator replaces the configuration file.
LEMMA EditNode ==
    ASSUME NEW n \in Nodes, NEW c, NodeInv(n), agent[n] # "write", c # None,
           /\ conf'[n] = c /\ edited'[n] = c,
           /\ cpus'[n] = cpus[n] /\ applied'[n] = applied[n]
           /\ reservedEnv'[n] = reservedEnv[n] /\ dnsEnv'[n] = dnsEnv[n]
           /\ agent'[n] = agent[n] /\ config'[n] = config[n] /\ failed'[n] = failed[n]
           /\ kubelet'[n] = kubelet[n]
    PROVE  NodeInv(n)'
  BY DEF NodeInv, Planets, InForce, Default, Busy, Past, DNSAddresses

\* The kubelet dies.
LEMMA KubeletDiesNode ==
    ASSUME NEW n \in Nodes, NodeInv(n),
           /\ kubelet'[n] = None,
           /\ cpus'[n] = cpus[n] /\ conf'[n] = conf[n] /\ edited'[n] = edited[n]
           /\ applied'[n] = applied[n] /\ reservedEnv'[n] = reservedEnv[n]
           /\ dnsEnv'[n] = dnsEnv[n] /\ agent'[n] = agent[n] /\ config'[n] = config[n]
           /\ failed'[n] = failed[n]
    PROVE  NodeInv(n)'
  BY DEF NodeInv, Planets, InForce, Default, Busy, Past, DNSAddresses

\* One lemma for each step of a node: it keeps the types, and the invariant of its own node;
\* those of the other nodes it does not touch.

\* The kubelet's start.
LEMMA KubeletStartsKeeps ==
    ASSUME StartupInv, NEW n \in Nodes, KubeletStarts(n)
    PROVE  StartupInv'
  <1> StartupTypeOK /\ \A m \in Nodes : NodeInv(m)
    BY DEF StartupInv
  <1>k. [env |-> reservedEnv[n], dns |-> dnsEnv[n]] \in Kubelets
    BY DEF StartupTypeOK, Kubelets, KubeletStarts
  <1>1. StartupTypeOK'
    BY FixedSets, <1>k
    DEF StartupTypeOK, Phases, KubeletStarts
  <1>2. ASSUME NEW m \in Nodes, m # n PROVE NodeInv(m)'
    <2>1. SameNode(m)
      BY <1>2 DEF SameNode, StartupTypeOK, KubeletStarts
    <2> QED BY <2>1, NodeUntouched
  <1>3. NodeInv(n)'
    <2>1. /\ kubelet'[n] = [env |-> reservedEnv[n], dns |-> dnsEnv[n]]
      BY DEF StartupTypeOK, KubeletStarts
    <2>2. /\ cpus'[n] = cpus[n] /\ conf'[n] = conf[n] /\ edited'[n] = edited[n]
          /\ applied'[n] = applied[n] /\ reservedEnv'[n] = reservedEnv[n]
          /\ dnsEnv'[n] = dnsEnv[n] /\ agent'[n] = agent[n] /\ config'[n] = config[n]
          /\ failed'[n] = failed[n]
      BY DEF StartupTypeOK, KubeletStarts
    <2>3. dnsEnv[n] = DNSAddresses(n) /\ dnsEnv[n] # None
      BY DEF KubeletStarts, StartupTypeOK
    <2> QED BY <2>1, <2>2, <2>3, KubeletStartsNode, Zenon
  <1> QED BY <1>1, <1>2, <1>3 DEF StartupInv

\* upsertCgroups.
LEMMA UpsertKeeps ==
    ASSUME StartupInv, NEW n \in Nodes, upsertCgroups(n)
    PROVE  StartupInv'
  <1> StartupTypeOK /\ \A m \in Nodes : NodeInv(m)
    BY DEF StartupInv
  <1>c. ConfigToUse(n) \in Configs
    BY DefaultOfNode DEF StartupTypeOK, ConfigToUse
  <1>1. StartupTypeOK'
    BY FixedSets, <1>c
    DEF StartupTypeOK, Phases, upsertCgroups, Goes
  <1>2. ASSUME NEW m \in Nodes, m # n PROVE NodeInv(m)'
    <2>1. SameNode(m)
      BY <1>2 DEF SameNode, StartupTypeOK, upsertCgroups, Goes
    <2> QED BY <2>1, NodeUntouched
  <1>3. NodeInv(n)'
    <2>1. /\ agent'[n] \in {"write", "leader"} /\ config'[n] = ConfigToUse(n)
      BY DEF StartupTypeOK, upsertCgroups, Goes
    <2>2. /\ cpus'[n] = cpus[n] /\ conf'[n] = conf[n] /\ edited'[n] = edited[n]
          /\ applied'[n] = applied[n] /\ reservedEnv'[n] = reservedEnv[n]
          /\ dnsEnv'[n] = dnsEnv[n] /\ failed'[n] = failed[n] /\ kubelet'[n] = kubelet[n]
      BY DEF StartupTypeOK, upsertCgroups, Goes
    <2>3. agent[n] = "off" /\ NodeInv(n) /\ Default(n).enabled
      BY DefaultOfNode DEF upsertCgroups
    <2>4. edited[n] = None => ConfigToUse(n) = Default(n)
      BY <2>3 DEF NodeInv, ConfigToUse
    <2>5. edited[n] # None => ConfigToUse(n) = conf[n]
      BY <2>3, StartupAssumption DEF StartupTypeOK, NodeInv, ConfigToUse
    <2>6. Planets(n) => agent'[n] = "write"
      BY <2>3, <2>4 DEF StartupTypeOK, Planets, upsertCgroups, Goes
    <2> QED BY <2>1, <2>2, <1>c, <2>3, <2>4, <2>5, <2>6, UpsertNode, Zenon
  <1> QED BY <1>1, <1>2, <1>3 DEF StartupInv

\* The write of the cgroup configuration.
LEMMA WriteKeeps ==
    ASSUME StartupInv, NEW n \in Nodes, writeCgroupConfig(n)
    PROVE  StartupInv'
  <1> StartupTypeOK /\ \A m \in Nodes : NodeInv(m)
    BY DEF StartupInv
  <1>1. StartupTypeOK'
    BY FixedSets
    DEF StartupTypeOK, Phases, writeCgroupConfig, Goes
  <1>2. ASSUME NEW m \in Nodes, m # n PROVE NodeInv(m)'
    <2>1. SameNode(m)
      BY <1>2 DEF SameNode, StartupTypeOK, writeCgroupConfig, Goes
    <2> QED BY <2>1, NodeUntouched
  <1>3. NodeInv(n)'
    <2>1. /\ agent'[n] = "apply" /\ conf'[n] = config[n]
      BY DEF StartupTypeOK, writeCgroupConfig, Goes
    <2>2. /\ cpus'[n] = cpus[n] /\ edited'[n] = edited[n] /\ applied'[n] = applied[n]
          /\ reservedEnv'[n] = reservedEnv[n] /\ dnsEnv'[n] = dnsEnv[n]
          /\ config'[n] = config[n] /\ failed'[n] = failed[n] /\ kubelet'[n] = kubelet[n]
      BY DEF StartupTypeOK, writeCgroupConfig, Goes
    <2>3. agent[n] = "write" /\ config[n] \in Configs /\ Default(n).enabled /\ Default(n).auto
      BY DefaultOfNode DEF writeCgroupConfig, NodeInv, Busy
    <2> QED BY <2>1, <2>2, <2>3, WriteNode, Zenon
  <1> QED BY <1>1, <1>2, <1>3 DEF StartupInv

\* The application of the entries.
LEMMA ApplyKeeps ==
    ASSUME StartupInv, NEW n \in Nodes, ApplyEntries(n)
    PROVE  StartupInv'
  <1> StartupTypeOK /\ \A m \in Nodes : NodeInv(m)
    BY DEF StartupInv
  <1>q. config[n].quota \in Nat
    BY DEF NodeInv, Busy, Configs, ApplyEntries
  <1>a. applied' \in [Nodes -> Nat]
    BY <1>q DEF StartupTypeOK, ApplyEntries
  <1>b. failed' \in [Nodes -> BOOLEAN]
    BY Zenon DEF StartupTypeOK, ApplyEntries
  <1>e. events' \in 0..MaxEvents
    BY StartupAssumption DEF StartupTypeOK, ApplyEntries, Counted
  <1>1. StartupTypeOK'
    BY FixedSets, <1>a, <1>b, <1>e
    DEF StartupTypeOK, Phases, ApplyEntries, Counted, Goes
  <1>2. ASSUME NEW m \in Nodes, m # n PROVE NodeInv(m)'
    <2>1. SameNode(m)
      BY <1>2 DEF SameNode, StartupTypeOK, ApplyEntries, Counted, Goes
    <2> QED BY <2>1, NodeUntouched
  <1>3. NodeInv(n)'
    <2>1. /\ agent'[n] = "env" /\ applied'[n] \in {applied[n], config[n].quota}
          /\ failed'[n] \in {failed[n], TRUE}
      BY Zenon DEF StartupTypeOK, ApplyEntries, Counted, Goes
    <2>2. /\ cpus'[n] = cpus[n] /\ conf'[n] = conf[n] /\ edited'[n] = edited[n]
          /\ reservedEnv'[n] = reservedEnv[n] /\ dnsEnv'[n] = dnsEnv[n]
          /\ config'[n] = config[n] /\ kubelet'[n] = kubelet[n]
      BY DEF StartupTypeOK, ApplyEntries, Counted, Goes
    <2>3. agent[n] = "apply" /\ (failed'[n] \/ applied'[n] = config[n].quota)
      BY DEF StartupTypeOK, ApplyEntries
    <2> QED BY <2>1, <2>2, <2>3, ApplyNode, Zenon
  <1> QED BY <1>1, <1>2, <1>3 DEF StartupInv

\* The write of the kubelet's reservations.
LEMMA ReservedKeeps ==
    ASSUME StartupInv, NEW n \in Nodes, writeKubeReservedEnvironment(n)
    PROVE  StartupInv'
  <1> StartupTypeOK /\ \A m \in Nodes : NodeInv(m)
    BY DEF StartupInv
  <1>r. Reservations(config[n]) \in [reserved : Nat, system : Nat]
    BY Zenon DEF NodeInv, Busy, Configs, Reservations, writeKubeReservedEnvironment
  <1>1. StartupTypeOK'
    BY FixedSets, <1>r
    DEF StartupTypeOK, Phases, writeKubeReservedEnvironment, Goes
  <1>2. ASSUME NEW m \in Nodes, m # n PROVE NodeInv(m)'
    <2>1. SameNode(m)
      BY <1>2 DEF SameNode, StartupTypeOK, writeKubeReservedEnvironment, Goes
    <2> QED BY <2>1, NodeUntouched
  <1>3. NodeInv(n)'
    <2>1. /\ agent'[n] \in {"off", "leader"} /\ failed'[n] = FALSE
          /\ reservedEnv'[n] = Reservations(config[n])
      BY DEF StartupTypeOK, writeKubeReservedEnvironment, Goes
    <2>2. /\ cpus'[n] = cpus[n] /\ conf'[n] = conf[n] /\ edited'[n] = edited[n]
          /\ applied'[n] = applied[n] /\ dnsEnv'[n] = dnsEnv[n] /\ config'[n] = config[n]
          /\ kubelet'[n] = kubelet[n]
      BY DEF StartupTypeOK, writeKubeReservedEnvironment, Goes
    <2>3. agent[n] = "env" /\ (agent'[n] = "leader" => ~failed[n])
      BY DEF StartupTypeOK, Goes, writeKubeReservedEnvironment
    <2> QED BY <2>1, <2>2, <2>3, ReservedNode, Zenon
  <1> QED BY <1>1, <1>2, <1>3 DEF StartupInv

\* The leader's part of the start.
LEMMA LeaderKeeps ==
    ASSUME StartupInv, NEW n \in Nodes, startLeaderClient(n)
    PROVE  StartupInv'
  <1> StartupTypeOK /\ \A m \in Nodes : NodeInv(m)
    BY DEF StartupInv
  <1>1. StartupTypeOK'
    BY FixedSets
    DEF StartupTypeOK, Phases, startLeaderClient, nodeVarsButAgent, Goes
  <1>2. ASSUME NEW m \in Nodes, m # n PROVE NodeInv(m)'
    <2>1. SameNode(m)
      BY <1>2 DEF SameNode, StartupTypeOK, startLeaderClient, nodeVarsButAgent, Goes
    <2> QED BY <2>1, NodeUntouched
  <1>3. NodeInv(n)'
    <2>1. /\ agent'[n] \in {"create", "get"}
      BY DEF StartupTypeOK, startLeaderClient, nodeVarsButAgent, Goes
    <2>2. /\ cpus'[n] = cpus[n] /\ conf'[n] = conf[n] /\ edited'[n] = edited[n]
          /\ applied'[n] = applied[n] /\ reservedEnv'[n] = reservedEnv[n]
          /\ dnsEnv'[n] = dnsEnv[n] /\ config'[n] = config[n] /\ failed'[n] = failed[n]
          /\ kubelet'[n] = kubelet[n]
      BY DEF StartupTypeOK, startLeaderClient, nodeVarsButAgent, Goes
    <2>3. agent[n] = "leader"
      BY DEF startLeaderClient
    <2>4. agent[n] \in Past /\ agent'[n] \in Past
      BY <2>1, <2>3 DEF Past
    <2> QED BY <2>1, <2>2, <2>4, MovesOn, Zenon
  <1> QED BY <1>1, <1>2, <1>3 DEF StartupInv

\* The creation of the DNS services.
LEMMA CreateKeeps ==
    ASSUME StartupInv, NEW n \in Nodes, NEW name \in {"kube-dns", "kube-dns-worker"},
           createService(n, name)
    PROVE  StartupInv'
  <1> StartupTypeOK /\ \A m \in Nodes : NodeInv(m)
    BY DEF StartupInv
  <1>1. StartupTypeOK'
    BY FixedSets
    DEF StartupTypeOK, Phases, createService, nodeVarsButAgent, Goes
  <1>2. ASSUME NEW m \in Nodes, m # n PROVE NodeInv(m)'
    <2>1. SameNode(m)
      BY <1>2 DEF SameNode, StartupTypeOK, createService, nodeVarsButAgent, Goes
    <2> QED BY <2>1, NodeUntouched
  <1>3. NodeInv(n)'
    <2>1. /\ agent'[n] \in {"createWorker", "get"}
      BY DEF StartupTypeOK, createService, nodeVarsButAgent, Goes
    <2>2. /\ cpus'[n] = cpus[n] /\ conf'[n] = conf[n] /\ edited'[n] = edited[n]
          /\ applied'[n] = applied[n] /\ reservedEnv'[n] = reservedEnv[n]
          /\ dnsEnv'[n] = dnsEnv[n] /\ config'[n] = config[n] /\ failed'[n] = failed[n]
          /\ kubelet'[n] = kubelet[n]
      BY DEF StartupTypeOK, createService, nodeVarsButAgent, Goes
    <2>3. agent[n] \in {"create", "createWorker"}
      BY DEF createService
    <2>4. agent[n] \in Past /\ agent'[n] \in Past
      BY <2>1, <2>3 DEF Past
    <2> QED BY <2>1, <2>2, <2>4, MovesOn, Zenon
  <1> QED BY <1>1, <1>2, <1>3 DEF StartupInv

\* The write of the resolver addresses.
LEMMA ResolverKeeps ==
    ASSUME StartupInv, NEW n \in Nodes, updateEnvDNSAddresses(n)
    PROVE  StartupInv'
  <1> StartupTypeOK /\ \A m \in Nodes : NodeInv(m)
    BY DEF StartupInv
  <1>d. dnsEnv' \in [Nodes -> Resolvers \cup {None}]
    BY DEF StartupTypeOK, Resolvers, updateEnvDNSAddresses
  <1>1. StartupTypeOK'
    BY FixedSets, <1>d
    DEF StartupTypeOK, Phases, updateEnvDNSAddresses, Goes
  <1>2. ASSUME NEW m \in Nodes, m # n PROVE NodeInv(m)'
    <2>1. SameNode(m)
      BY <1>2 DEF SameNode, StartupTypeOK, updateEnvDNSAddresses, Goes
    <2> QED BY <2>1, NodeUntouched
  <1>3. NodeInv(n)'
    <2>1. /\ agent'[n] = "up" /\ dnsEnv'[n] = DNSAddresses(n)
      BY DEF StartupTypeOK, updateEnvDNSAddresses, Goes
    <2>2. /\ cpus'[n] = cpus[n] /\ conf'[n] = conf[n] /\ edited'[n] = edited[n]
          /\ applied'[n] = applied[n] /\ reservedEnv'[n] = reservedEnv[n]
          /\ config'[n] = config[n] /\ failed'[n] = failed[n] /\ kubelet'[n] = kubelet[n]
      BY DEF StartupTypeOK, updateEnvDNSAddresses, Goes
    <2>3. agent[n] = "get"
      BY DEF updateEnvDNSAddresses
    <2> QED BY <2>1, <2>2, <2>3, ResolverNode, Zenon
  <1> QED BY <1>1, <1>2, <1>3 DEF StartupInv

\* A retry.
LEMMA RetryKeeps ==
    ASSUME StartupInv, NEW n \in Nodes, RetryResolver(n)
    PROVE  StartupInv'
  <1> StartupTypeOK /\ \A m \in Nodes : NodeInv(m)
    BY DEF StartupInv
  <1>1. StartupTypeOK'
    BY FixedSets, StartupAssumption
    DEF StartupTypeOK, Phases, RetryResolver, Counted, nodeVarsButAgent, Goes
  <1>2. ASSUME NEW m \in Nodes, m # n PROVE NodeInv(m)'
    <2>1. SameNode(m)
      BY <1>2 DEF SameNode, StartupTypeOK, RetryResolver, Counted, nodeVarsButAgent, Goes
    <2> QED BY <2>1, NodeUntouched
  <1>3. NodeInv(n)'
    <2>1. /\ agent'[n] = "create"
      BY DEF StartupTypeOK, RetryResolver, Counted, nodeVarsButAgent, Goes
    <2>2. /\ cpus'[n] = cpus[n] /\ conf'[n] = conf[n] /\ edited'[n] = edited[n]
          /\ applied'[n] = applied[n] /\ reservedEnv'[n] = reservedEnv[n]
          /\ dnsEnv'[n] = dnsEnv[n] /\ config'[n] = config[n] /\ failed'[n] = failed[n]
          /\ kubelet'[n] = kubelet[n]
      BY DEF StartupTypeOK, RetryResolver, Counted, nodeVarsButAgent, Goes
    <2>3. agent[n] \in {"createWorker", "get"}
      BY DEF RetryResolver
    <2>4. agent[n] \in Past /\ agent'[n] \in Past
      BY <2>1, <2>3 DEF Past
    <2> QED BY <2>1, <2>2, <2>4, MovesOn, Zenon
  <1> QED BY <1>1, <1>2, <1>3 DEF StartupInv

\* The agent's death.
LEMMA DiesKeeps ==
    ASSUME StartupInv, NEW n \in Nodes, AgentDies(n)
    PROVE  StartupInv'
  <1> StartupTypeOK /\ \A m \in Nodes : NodeInv(m)
    BY DEF StartupInv
  <1>1. StartupTypeOK'
    BY FixedSets, StartupAssumption
    DEF StartupTypeOK, Phases, AgentDies, Counted, Goes
  <1>2. ASSUME NEW m \in Nodes, m # n PROVE NodeInv(m)'
    <2>1. SameNode(m)
      BY <1>2 DEF SameNode, StartupTypeOK, AgentDies, Counted, Goes
    <2> QED BY <2>1, NodeUntouched
  <1>3. NodeInv(n)'
    <2>1. /\ agent'[n] = "off" /\ failed'[n] = FALSE
      BY DEF StartupTypeOK, AgentDies, Counted, Goes
    <2>2. /\ cpus'[n] = cpus[n] /\ conf'[n] = conf[n] /\ edited'[n] = edited[n]
          /\ applied'[n] = applied[n] /\ reservedEnv'[n] = reservedEnv[n]
          /\ dnsEnv'[n] = dnsEnv[n] /\ config'[n] = config[n] /\ kubelet'[n] = kubelet[n]
      BY DEF StartupTypeOK, AgentDies, Counted, Goes
    <2> QED BY <2>1, <2>2, DiesNode, Zenon
  <1> QED BY <1>1, <1>2, <1>3 DEF StartupInv

\* A reboot.
LEMMA RebootKeeps ==
    ASSUME StartupFaults = {}, StartupInv, NEW n \in Nodes, Reboot(n)
    PROVE  StartupInv'
  <1> StartupTypeOK /\ \A m \in Nodes : NodeInv(m)
    BY DEF StartupInv
  <1>1. StartupTypeOK'
    BY FixedSets, StartupAssumption
    DEF StartupTypeOK, Phases, Reboot, Counted, Goes
  <1>2. ASSUME NEW m \in Nodes, m # n PROVE NodeInv(m)'
    <2>1. SameNode(m)
      BY <1>2 DEF SameNode, StartupTypeOK, Reboot, Counted, Goes
    <2> QED BY <2>1, NodeUntouched
  <1>3. NodeInv(n)'
    <2>1. /\ agent'[n] = "off" /\ failed'[n] = FALSE /\ cpus'[n] \in Cpus
          /\ applied'[n] = 0 /\ reservedEnv'[n] = None /\ dnsEnv'[n] = None
          /\ kubelet'[n] = None
      BY DEF StartupTypeOK, Reboot, Counted, Goes
    <2>2. /\ conf'[n] = conf[n] /\ edited'[n] = edited[n] /\ config'[n] = config[n]
      BY DEF StartupTypeOK, Reboot, Counted, Goes
    <2> QED BY <2>1, <2>2, RebootNode, Zenon
  <1> QED BY <1>1, <1>2, <1>3 DEF StartupInv

\* An operator's edit.
LEMMA EditKeeps ==
    ASSUME StartupFaults = {}, StartupInv, NEW n \in Nodes, NEW c \in OperatorConfigs,
           Edit(n, c)
    PROVE  StartupInv'
  <1> StartupTypeOK /\ \A m \in Nodes : NodeInv(m)
    BY DEF StartupInv
  <1>1. StartupTypeOK'
    BY FixedSets, StartupAssumption
    DEF StartupTypeOK, Phases, Edit, Counted
  <1>2. ASSUME NEW m \in Nodes, m # n PROVE NodeInv(m)'
    <2>1. SameNode(m)
      BY <1>2 DEF SameNode, StartupTypeOK, Edit, Counted
    <2> QED BY <2>1, NodeUntouched
  <1>3. NodeInv(n)'
    <2>1. /\ conf'[n] = c /\ edited'[n] = c
      BY DEF StartupTypeOK, Edit, Counted
    <2>2. /\ cpus'[n] = cpus[n] /\ applied'[n] = applied[n]
          /\ reservedEnv'[n] = reservedEnv[n] /\ dnsEnv'[n] = dnsEnv[n]
          /\ agent'[n] = agent[n] /\ config'[n] = config[n] /\ failed'[n] = failed[n]
          /\ kubelet'[n] = kubelet[n]
      BY DEF StartupTypeOK, Edit, Counted
    <2>3. agent[n] # "write" /\ c # None
      BY StartupAssumption DEF Edit
    <2> QED BY <2>1, <2>2, <2>3, EditNode, Zenon
  <1> QED BY <1>1, <1>2, <1>3 DEF StartupInv

\* The kubelet's death.
LEMMA KubeletDiesKeeps ==
    ASSUME StartupInv, NEW n \in Nodes, KubeletDies(n)
    PROVE  StartupInv'
  <1> StartupTypeOK /\ \A m \in Nodes : NodeInv(m)
    BY DEF StartupInv
  <1>1. StartupTypeOK'
    BY FixedSets, StartupAssumption
    DEF StartupTypeOK, Phases, KubeletDies, Counted
  <1>2. ASSUME NEW m \in Nodes, m # n PROVE NodeInv(m)'
    <2>1. SameNode(m)
      BY <1>2 DEF SameNode, StartupTypeOK, KubeletDies, Counted
    <2> QED BY <2>1, NodeUntouched
  <1>3. NodeInv(n)'
    <2>1. /\ kubelet'[n] = None
      BY DEF StartupTypeOK, KubeletDies, Counted
    <2>2. /\ cpus'[n] = cpus[n] /\ conf'[n] = conf[n] /\ edited'[n] = edited[n]
          /\ applied'[n] = applied[n] /\ reservedEnv'[n] = reservedEnv[n]
          /\ dnsEnv'[n] = dnsEnv[n] /\ agent'[n] = agent[n] /\ config'[n] = config[n]
          /\ failed'[n] = failed[n]
      BY DEF StartupTypeOK, KubeletDies, Counted
    <2> QED BY <2>1, <2>2, KubeletDiesNode, Zenon
  <1> QED BY <1>1, <1>2, <1>3 DEF StartupInv

-----------------------------------------------------------------------------
LEMMA StartupInvInit == StartupInit => StartupInv
  BY StartupAssumption
  DEF StartupInit, StartupInv, StartupTypeOK, NodeInv, AllNone, Phases, Busy, Past, Planets, InForce

LEMMA StartupInvStep ==
    ASSUME StartupFaults = {}, StartupInv, [StartupNext]_startupVars
    PROVE  StartupInv'
  <1>1. ASSUME NEW n \in Nodes, NodeStep(n) PROVE StartupInv'
    BY <1>1, UpsertKeeps, WriteKeeps, ApplyKeeps, ReservedKeeps, LeaderKeeps, CreateKeeps,
       ResolverKeeps, RetryKeeps, EditKeeps, KubeletStartsKeeps, KubeletDiesKeeps
    DEF NodeStep, runAgent
  <1>2. ASSUME NEW n \in Nodes, AgentDies(n) PROVE StartupInv'
    BY <1>2, DiesKeeps
  <1>3. ASSUME NEW n \in Nodes, Reboot(n) PROVE StartupInv'
    BY <1>3, RebootKeeps
  <1>4. CASE UNCHANGED startupVars
    BY <1>4, Stutters
  <1> QED BY <1>1, <1>2, <1>3, <1>4 DEF StartupNext

LEMMA CleanerInvInit == CleanerInit => CleanerInv
  BY CleanerAssumption DEF CleanerInit, CleanerInv, CleanerTypeOK, StopsOnlyLeft

\* The cleaner, and what happens to the scopes meanwhile.
LEMMA CleanerInvStep ==
    ASSUME SlowScopes = FALSE, CleanerInv,
           \/ \E s \in Scopes : CreateScope(s) \/ ProcessJoins(s) \/ ProcessesExit(s) \/ MinutePasses(s)
           \/ cleanSystemdScopes \/ CleanerEnds \/ ScopesGone \/ UNCHANGED cleanerVars
    PROVE  CleanerInv'
  <1> USE CleanerAssumption DEF CleanerInv, CleanerTypeOK, StopsOnlyLeft
  <1>1. ASSUME NEW s \in Scopes, CreateScope(s) PROVE CleanerInv'
    BY <1>1 DEF CreateScope
  <1>2. ASSUME NEW s \in Scopes, ProcessJoins(s) PROVE CleanerInv'
    BY <1>2 DEF ProcessJoins
  <1>3. ASSUME NEW s \in Scopes, ProcessesExit(s) PROVE CleanerInv'
    BY <1>3 DEF ProcessesExit
  <1>4. ASSUME NEW s \in Scopes, MinutePasses(s) PROVE CleanerInv'
    BY <1>4 DEF MinutePasses, Present
  <1>5. CASE Walk
    BY <1>5 DEF Walk, Listed, Present
  <1>6. ASSUME NEW s \in Scopes, ReadProcs(s) PROVE CleanerInv'
    BY <1>6 DEF ReadProcs
  <1>7. CASE StopUnit
    BY <1>7 DEF StopUnit
  <1>8. CASE CleanerEnds
    BY <1>8 DEF CleanerEnds
  <1>9. CASE ScopesGone
    BY <1>9 DEF ScopesGone
  <1>10. CASE UNCHANGED cleanerVars
    BY <1>10 DEF cleanerVars
  <1> QED
    BY <1>1, <1>2, <1>3, <1>4, <1>5, <1>6, <1>7, <1>8, <1>9, <1>10 DEF cleanSystemdScopes

\* Every step of the composition is one of both parts, or of one while the other stutters.
LEMMA HostStepParts ==
    ASSUME [HostNext]_hostVars
    PROVE  /\ [StartupNext]_startupVars
           /\ \/ \E s \in Scopes : CreateScope(s) \/ ProcessJoins(s) \/ ProcessesExit(s) \/ MinutePasses(s)
              \/ cleanSystemdScopes \/ CleanerEnds \/ ScopesGone \/ UNCHANGED cleanerVars
  BY DEF HostNext, AgentMoves, AgentEnds, NodeReboots, ScopesMove, runSystemdCgroupCleaner,
         StartupNext, hostVars

THEOREM HostInductive ==
    ASSUME StartupFaults = {}, SlowScopes = FALSE
    PROVE  HostSpec => [](StartupInv /\ CleanerInv)
  <1>1. HostInit => StartupInv /\ CleanerInv
    BY StartupInvInit, CleanerInvInit DEF HostInit
  <1>2. StartupInv /\ CleanerInv /\ [HostNext]_hostVars => (StartupInv /\ CleanerInv)'
    BY HostStepParts, StartupInvStep, CleanerInvStep, Zenon
  <1> QED BY <1>1, <1>2, PTL DEF HostSpec

-----------------------------------------------------------------------------
(***************************************************************************)
(* The state of every part keeps its type.                                 *)
(***************************************************************************)
THEOREM HostTypeCorrect ==
    ASSUME StartupFaults = {}, SlowScopes = FALSE
    PROVE  HostSpec => []HostTypeOK
  <1>1. StartupInv /\ CleanerInv => HostTypeOK
    BY DEF StartupInv, CleanerInv, HostTypeOK
  <1> QED BY <1>1, HostInductive, PTL

(***************************************************************************)
(* planet never overwrites an operator's configuration of the cgroups      *)
(* (upsertCgroups, cgroup.go:68), provided it is not edited between being  *)
(* read and written.                                                       *)
(***************************************************************************)
THEOREM OperatorConfigIsKept ==
    ASSUME StartupFaults = {}, SlowScopes = FALSE
    PROVE  HostSpec => []OperatorConfigKept
  <1>1. StartupInv => OperatorConfigKept
    BY DEF StartupInv, NodeInv, OperatorConfigKept
  <1> QED BY <1>1, HostInductive, PTL

(***************************************************************************)
(* A kubelet runs with the cgroups and the reservations of the machine as  *)
(* it is now (runAgent, kube-kubelet.service).                             *)
(***************************************************************************)
THEOREM KubeletIsConfigured ==
    ASSUME StartupFaults = {}, SlowScopes = FALSE
    PROVE  HostSpec => []KubeletConfigured
  <1>1. StartupInv => KubeletConfigured
    BY DEF StartupInv, NodeInv, KubeletConfigured, Planets, InForce
  <1> QED BY <1>1, HostInductive, PTL

\* What the running kubelets reserve leaves CPU for pods.
PodsHaveCpu ==
    \A n \in Nodes : kubelet[n] # None /\ Planets(n) =>
        kubelet[n].env.reserved + kubelet[n].env.system < cpus[n] * 1000

(***************************************************************************)
(* The reservations a kubelet runs with leave CPU for pods on machines of  *)
(* every size, also after a reboot with fewer CPUs (defaultCgroupConfig).  *)
(***************************************************************************)
THEOREM ReservationsFit ==
    ASSUME StartupFaults = {}, SlowScopes = FALSE
    PROVE  HostSpec => []PodsHaveCpu
  <1>1. ASSUME StartupInv, NEW n \in Nodes, kubelet[n] # None, Planets(n)
        PROVE  kubelet[n].env.reserved + kubelet[n].env.system < cpus[n] * 1000
    <2>1. kubelet[n].env = Reservations(Default(n))
      BY <1>1, Zenon DEF StartupInv, NodeInv
    <2>2. cpus[n] \in Nat \ {0}
      BY <1>1, StartupAssumption, Zenon DEF StartupInv, StartupTypeOK
    <2>3. PICK k \in Nat \ {0} : k = cpus[n]
      BY <2>2
    <2>4. PICK b \in BOOLEAN : b = (n \in Masters)
      <3>1. (n \in Masters) \in BOOLEAN
        OBVIOUS
      <3> QED BY <3>1, Zenon
    <2>5. Default(n) = defaultCgroupConfig(k, b)
      BY <2>3, <2>4, Zenon DEF Default
    <2>6. defaultCgroupConfig(k, b).reserved + defaultCgroupConfig(k, b).system < k * 1000
      BY DefaultsFit
    <2> QED BY <2>1, <2>3, <2>5, <2>6 DEF Reservations
  <1>2. StartupInv => PodsHaveCpu
    BY <1>1 DEF PodsHaveCpu
  <1> QED BY <1>2, HostInductive, PTL

(***************************************************************************)
(* The cleaner only stops scopes that their processes have left            *)
(* (cleanSystemdScopes), if a new scope gets its process within a minute.  *)
(***************************************************************************)
THEOREM CleanerIsSafe ==
    ASSUME StartupFaults = {}, SlowScopes = FALSE
    PROVE  HostSpec => []StopsOnlyLeft
  <1>1. CleanerInv => StopsOnlyLeft
    BY DEF CleanerInv
  <1> QED BY <1>1, HostInductive, PTL
=============================================================================
