----------------------------- MODULE AgentStartup -----------------------------
(***************************************************************************)
(* runAgent up to the point where it waits for a signal, on every node of  *)
(* a cluster, and the kubelets that wait for it.  The agent brings the     *)
(* cgroup configuration up to date and applies it (upsertCgroups), joins   *)
(* the election, and asks the API server for the addresses of the cluster  *)
(* DNS (setupResolver).  kube-kubelet.service must have the DNS file and   *)
(* reads the file with the reservations if it is there.                    *)
(***************************************************************************)
EXTENDS Integers

CONSTANTS Nodes, Masters,
          Cpus,            \* numbers of CPUs a node may have
          Namespaced,      \* the nodes whose kernel has cgroup namespaces
          OperatorConfigs, \* what an operator may put into planet-cgroups.conf
          None,            \* no file, no process
          StartupFaults,   \* rare events, each named where it is used
          MaxEvents        \* bound: crashes, reboots, errors and edits

\* CgroupConfig: of the cgroups, the quota of the user's is kept.
Configs == [enabled : BOOLEAN, auto : BOOLEAN, quota : Nat, reserved : Nat, system : Nat]

ASSUME StartupAssumption ==
    /\ Masters \subseteq Nodes /\ Namespaced \subseteq Nodes
    /\ Cpus \subseteq Nat \ {0} /\ MaxEvents \in Nat
    /\ OperatorConfigs \subseteq {c \in Configs : ~(c.enabled /\ c.auto)}
    /\ None \notin Configs

VARIABLES
    cpus,        \* of a node; may differ after a reboot
    conf,        \* its planet-cgroups.conf, on disk
    edited,      \* what its operator has put there, None if nothing
    applied,     \* the quota of its user cgroup, 0 before the cgroups are set up
    reservedEnv, \* its /run/kubernetes-reserved.env
    dnsEnv,      \* its /run/dns.env
    agent,       \* where its agent is
    config,      \* the configuration its agent has in memory
    failed,      \* some of the cgroups could not be set
    kubelet,     \* what its kubelet has been started with
    services,    \* the DNS services of the cluster
    events

nodeVars == <<cpus, conf, edited, applied, reservedEnv, dnsEnv, agent, config, failed, kubelet>>
nodeVarsButAgent ==
    <<cpus, conf, edited, applied, reservedEnv, dnsEnv, config, failed, kubelet>>
startupVars == <<nodeVars, services, events>>

-----------------------------------------------------------------------------
DefaultCgroupCPUPeriod == 100000

\* A tenth of the machine, and at least half a CPU.
userQuota(numCPU) ==
    LET tenth == (numCPU * DefaultCgroupCPUPeriod) \div 10
    IN IF tenth < DefaultCgroupCPUPeriod \div 2 THEN DefaultCgroupCPUPeriod \div 2 ELSE tenth

\* Nothing is reserved on a small machine.
defaultCgroupConfig(numCPU, isMaster) ==
    [enabled |-> TRUE, auto |-> TRUE, quota |-> userQuota(numCPU),
     reserved |-> IF numCPU <= 4 THEN 0 ELSE IF isMaster THEN 1800 ELSE 800,
     system |-> IF numCPU <= 4 THEN 0 ELSE (numCPU * 1000) \div 10 + 200]

\* The file the kubelet reads.
Reservations(c) == [reserved |-> c.reserved, system |-> c.system]

Default(n) == defaultCgroupConfig(cpus[n], n \in Masters)

DNSAddresses(n) == IF n \in Masters THEN <<"kube-dns">> ELSE <<"kube-dns-worker", "kube-dns">>

Resolvers == {DNSAddresses(n) : n \in Nodes}

Kubelets == [env : [reserved : Nat, system : Nat] \cup {None}, dns : Resolvers]

Phases == {"off", "write", "apply", "env", "leader", "create", "createWorker", "get", "up"}

StartupTypeOK ==
    /\ cpus \in [Nodes -> Cpus]
    /\ conf \in [Nodes -> Configs \cup {None}] /\ edited \in [Nodes -> OperatorConfigs \cup {None}]
    /\ applied \in [Nodes -> Nat]
    /\ reservedEnv \in [Nodes -> [reserved : Nat, system : Nat] \cup {None}]
    /\ dnsEnv \in [Nodes -> Resolvers \cup {None}]
    /\ \A n \in Nodes : dnsEnv[n] \in {None, DNSAddresses(n)}
    /\ kubelet \in [Nodes -> Kubelets \cup {None}]
    /\ agent \in [Nodes -> Phases] /\ config \in [Nodes -> Configs \cup {None}]
    /\ failed \in [Nodes -> BOOLEAN]
    /\ services \subseteq {"kube-dns", "kube-dns-worker"}
    /\ events \in 0..MaxEvents

AllNone == [n \in Nodes |-> None]

StartupInit ==
    /\ cpus \in [Nodes -> Cpus] /\ conf = AllNone /\ edited = AllNone
    /\ applied = [n \in Nodes |-> 0] /\ reservedEnv = AllNone /\ dnsEnv = AllNone
    /\ agent = [n \in Nodes |-> "off"] /\ config = AllNone
    /\ failed = [n \in Nodes |-> FALSE] /\ kubelet = AllNone
    /\ services = {} /\ events = 0

Counted == events < MaxEvents /\ events' = events + 1

Goes(n, phase) == agent' = [agent EXCEPT ![n] = phase]

-----------------------------------------------------------------------------
(* upsertCgroups. *)

\* Variant: any configuration that is enabled is regenerated.
ConfigToUseVariant(n) == IF conf[n] = None \/ conf[n].enabled THEN Default(n) ELSE conf[n]

\* The configuration on disk; without one, or if planet may regenerate it, the default.
ConfigToUse(n) ==
    IF conf[n] = None \/ (conf[n].enabled /\ conf[n].auto) THEN Default(n) ELSE conf[n]

\* The agent starts, and reads the configuration.  Without namespaces, or if the
\* configuration is disabled, that is all.
upsertCgroups(n) ==
    /\ agent[n] = "off"
    /\ config' = [config EXCEPT ![n] = ConfigToUse(n)]
    /\ Goes(n, IF n \in Namespaced /\ ConfigToUse(n).enabled THEN "write" ELSE "leader")
    /\ UNCHANGED <<cpus, conf, edited, applied, reservedEnv, dnsEnv, failed, kubelet, services, events>>

writeCgroupConfig(n) ==
    /\ agent[n] = "write" /\ Goes(n, "apply")
    /\ conf' = [conf EXCEPT ![n] = config[n]]
    /\ UNCHANGED <<cpus, edited, applied, reservedEnv, dnsEnv, config, failed, kubelet, services, events>>

\* All of the entries are tried, and errors kept for later.
ApplyEntries(n) ==
    /\ agent[n] = "apply" /\ Goes(n, "env")
    /\ \/ applied' = [applied EXCEPT ![n] = config[n].quota]
          /\ UNCHANGED <<failed, events>>
       \/ Counted /\ failed' = [failed EXCEPT ![n] = TRUE] /\ UNCHANGED applied
    /\ UNCHANGED <<cpus, conf, edited, reservedEnv, dnsEnv, config, kubelet, services>>

\* Variant: errors of the entries are not returned.
writeKubeReservedEnvironmentVariant(n) ==
    /\ agent[n] = "env" /\ Goes(n, "leader")
    /\ failed' = [failed EXCEPT ![n] = FALSE]
    /\ reservedEnv' = [reservedEnv EXCEPT ![n] = Reservations(config[n])]
    /\ UNCHANGED <<cpus, conf, edited, applied, dnsEnv, config, kubelet, services, events>>

\* The file is written even if there have been errors, which then end the agent.
writeKubeReservedEnvironment(n) ==
    /\ agent[n] = "env" /\ Goes(n, IF failed[n] THEN "off" ELSE "leader")
    /\ failed' = [failed EXCEPT ![n] = FALSE]
    /\ reservedEnv' = [reservedEnv EXCEPT ![n] = Reservations(config[n])]
    /\ UNCHANGED <<cpus, conf, edited, applied, dnsEnv, config, kubelet, services, events>>

-----------------------------------------------------------------------------
(* The rest of runAgent. *)

\* startLeaderClient returns: the election and its watches run.
startLeaderClient(n) ==
    /\ agent[n] = "leader" /\ Goes(n, IF n \in Masters THEN "create" ELSE "get")
    /\ UNCHANGED <<nodeVarsButAgent, services, events>>

\* External: an API server runs where a master takes part in the election.
Api == \E m \in Masters : agent[m] \in {"create", "createWorker", "get", "up"}

\* Variant: a service that exists already is an error.
createServiceVariant(n, name) ==
    /\ Api /\ name \notin services
    /\ \/ name = "kube-dns" /\ agent[n] = "create" /\ Goes(n, "createWorker")
       \/ name = "kube-dns-worker" /\ agent[n] = "createWorker" /\ Goes(n, "get")
    /\ services' = services \cup {name}
    /\ UNCHANGED <<nodeVarsButAgent, events>>

\* A master makes sure that a service exists; that it exists already is no error.
createService(n, name) ==
    /\ Api
    /\ \/ name = "kube-dns" /\ agent[n] = "create" /\ Goes(n, "createWorker")
       \/ name = "kube-dns-worker" /\ agent[n] = "createWorker" /\ Goes(n, "get")
    /\ services' = services \cup {name}
    /\ UNCHANGED <<nodeVarsButAgent, events>>

\* Variant: all nodes use the resolver of the masters.
updateEnvDNSAddressesVariant(n) ==
    /\ agent[n] = "get" /\ Api /\ services = {"kube-dns", "kube-dns-worker"}
    /\ dnsEnv' = [dnsEnv EXCEPT ![n] = <<"kube-dns">>]
    /\ Goes(n, "up")
    /\ UNCHANGED <<cpus, conf, edited, applied, reservedEnv, config, failed, kubelet, services, events>>

\* Both services are looked up, and the file is written; until they exist a regular node
\* looks again every second.
updateEnvDNSAddresses(n) ==
    /\ agent[n] = "get" /\ Api /\ services = {"kube-dns", "kube-dns-worker"}
    /\ dnsEnv' = [dnsEnv EXCEPT ![n] = DNSAddresses(n)]
    /\ Goes(n, "up")
    /\ UNCHANGED <<cpus, conf, edited, applied, reservedEnv, config, failed, kubelet, services, events>>

\* An error of the API server: Retry runs the function again, from its start.
RetryResolver(n) ==
    /\ Counted /\ n \in Masters /\ agent[n] \in {"createWorker", "get"} /\ Goes(n, "create")
    /\ UNCHANGED <<nodeVarsButAgent, services>>

\* The agent ends, by an error or otherwise; systemd starts it again.
AgentDies(n) ==
    /\ Counted /\ agent[n] # "off" /\ Goes(n, "off")
    /\ failed' = [failed EXCEPT ![n] = FALSE]
    /\ UNCHANGED <<cpus, conf, edited, applied, reservedEnv, dnsEnv, config, kubelet, services>>

\* An empty file is a configuration too.
EmptyConfig == [enabled |-> FALSE, auto |-> FALSE, quota |-> 0, reserved |-> 0, system |-> 0]

\* The node comes back, perhaps with other CPUs, an empty /run and no cgroups.  SafeWriteFile
\* does not sync: with the fault unsynced the file it has renamed may be empty.
Reboot(n) ==
    /\ Counted
    /\ \E c \in Cpus : cpus' = [cpus EXCEPT ![n] = c]
    /\ conf' \in {conf} \cup IF "unsynced" \in StartupFaults /\ conf[n] # None
                            THEN {[conf EXCEPT ![n] = EmptyConfig]} ELSE {}
    /\ applied' = [applied EXCEPT ![n] = 0]
    /\ reservedEnv' = [reservedEnv EXCEPT ![n] = None] /\ dnsEnv' = [dnsEnv EXCEPT ![n] = None]
    /\ kubelet' = [kubelet EXCEPT ![n] = None]
    /\ Goes(n, "off") /\ failed' = [failed EXCEPT ![n] = FALSE]
    /\ UNCHANGED <<edited, config, services>>

\* An operator writes the file; without the fault, not between the agent's reading and
\* writing it.
Edit(n, c) ==
    /\ Counted
    /\ agent[n] # "write" \/ "editInWindow" \in StartupFaults
    /\ conf' = [conf EXCEPT ![n] = c] /\ edited' = [edited EXCEPT ![n] = c]
    /\ UNCHANGED <<cpus, applied, reservedEnv, dnsEnv, agent, config, failed, kubelet, services>>

-----------------------------------------------------------------------------
(* External: kube-kubelet.service, which systemd restarts until it has its files. *)

KubeletStarts(n) ==
    /\ kubelet[n] = None /\ dnsEnv[n] # None
    /\ kubelet' = [kubelet EXCEPT ![n] = [env |-> reservedEnv[n], dns |-> dnsEnv[n]]]
    /\ UNCHANGED <<cpus, conf, edited, applied, reservedEnv, dnsEnv, agent, config, failed, services, events>>

KubeletDies(n) ==
    /\ Counted /\ kubelet[n] # None /\ kubelet' = [kubelet EXCEPT ![n] = None]
    /\ UNCHANGED <<cpus, conf, edited, applied, reservedEnv, dnsEnv, agent, config, failed, services>>

runAgent(n) ==
    \/ upsertCgroups(n) \/ writeCgroupConfig(n) \/ ApplyEntries(n)
    \/ writeKubeReservedEnvironment(n) \/ startLeaderClient(n)
    \/ \E name \in {"kube-dns", "kube-dns-worker"} : createService(n, name)
    \/ updateEnvDNSAddresses(n)

\* What happens on a node while its agent lives.
NodeStep(n) ==
    \/ runAgent(n) \/ RetryResolver(n)
    \/ \E c \in OperatorConfigs : Edit(n, c)
    \/ KubeletStarts(n) \/ KubeletDies(n)

StartupNext == \E n \in Nodes : NodeStep(n) \/ AgentDies(n) \/ Reboot(n)

\* systemd restarts the agent and the kubelet, and Retry does not give up.
StartupFairness ==
    \A n \in Nodes : WF_startupVars(runAgent(n)) /\ WF_startupVars(KubeletStarts(n))

StartupSpec == StartupInit /\ [][StartupNext]_startupVars /\ StartupFairness

-----------------------------------------------------------------------------
(***************************************************************************)
(* A configuration that planet is not allowed to regenerate stays as the   *)
(* operator has written it, through restarts and reboots (cgroup.go:68).   *)
(***************************************************************************)
OperatorConfigKept == \A n \in Nodes : edited[n] # None => conf[n] = edited[n]

(***************************************************************************)
(* A kubelet never runs without the cgroup hierarchy, or with reservations *)
(* of an earlier boot: on a node without an operator's configuration it    *)
(* has those for the CPUs the node has now and for its role, the user's    *)
(* quota is in force, and its resolvers are those of its role.  It is the  *)
(* DNS file, which runAgent writes last, that it has to wait for.          *)
(***************************************************************************)
KubeletConfigured ==
    \A n \in Nodes : kubelet[n] # None =>
        /\ kubelet[n].dns = DNSAddresses(n)
        /\ n \in Namespaced /\ edited[n] = None =>
               /\ kubelet[n].env = Reservations(Default(n))
               /\ applied[n] = Default(n).quota

(***************************************************************************)
(* Every node gets its kubelet, although regular nodes wait for services   *)
(* that only a master's agent creates, and an agent whose cgroups could    *)
(* not be set starts from the beginning (setupResolver, upsertCgroups).    *)
(***************************************************************************)
KubeletsStart == []<>(\A n \in Nodes : kubelet[n] # None)
=============================================================================
