----------------------------- MODULE PlanetStart -----------------------------
(***************************************************************************)
(* planet start up to the container: start() checks the host, rewrites     *)
(* files of the rootfs in a fixed order and returns at the first error.    *)
(* The rootfs outlives the daemon, so a start finds what earlier ones left *)
(* there, with other flags, and perhaps cut short.                         *)
(*                                                                         *)
(* A value of an environment variable is the sequence of its words.        *)
(***************************************************************************)
EXTENDS Naturals, Sequences

CONSTANTS Flags,     \* the command lines planet may be started with (members of Config)
          BaseUsers, \* the accounts the rootfs is shipped with
          Faults     \* the rare events of this run; see LeftByKill, and PlanetNode

VARIABLES
    step,    \* where start() is; "off" without a daemon
    flags,   \* its Config
    listen,  \* config.DNS.ListenAddrs, which start() changes by accident
    rootfs   \* the files

startVars == <<step, flags, listen, rootfs>>

Unset == "unset"  \* the empty string: an option or a field that is not given
ServiceUser == "planet"
StaticNoProxyRules == <<"0.0.0.0/0", ".local">>
ProxyExceptions == {"NO_PROXY", "no_proxy"}
ProxyVariables == {"HTTP_PROXY", "http_proxy", "HTTPS_PROXY", "https_proxy"}

-----------------------------------------------------------------------------
(* box.EnvVars: a list of pairs in which a name may occur twice. *)

Named(vars, k) == {i \in DOMAIN vars : vars[i].name = k}

First(vars, k) == CHOOSE i \in Named(vars, k) : \A j \in Named(vars, k) : i <= j
Final(vars, k) == CHOOSE i \in Named(vars, k) : \A j \in Named(vars, k) : j <= i

Get(vars, k) == IF Named(vars, k) = {} THEN <<>> ELSE vars[First(vars, k)].val

Delete(vars, k) ==
    IF Named(vars, k) = {} THEN vars
    ELSE SubSeq(vars, 1, First(vars, k) - 1) \o SubSeq(vars, First(vars, k) + 1, Len(vars))

Upsert(vars, k, v) ==
    IF Named(vars, k) = {}
    THEN Append(vars, [name |-> k, val |-> v])
    ELSE [vars EXCEPT ![First(vars, k)].val = v]

AppendWords(vars, k, v) == IF v = <<>> THEN vars ELSE Upsert(vars, k, Get(vars, k) \o v)

\* What a reader of an environment file gets: with several lines for a name, the last one.
ReadEnvironment(file, k) == IF Named(file, k) = {} THEN <<>> ELSE file[Final(file, k)].val

-----------------------------------------------------------------------------
(* The environment start() computes. *)

\* Three of the pairs that are appended after the user's own.
ownPairs(c) ==
    << [name |-> "PLANET_ETCD_PROXY", val |-> <<c.etcdProxy>>],
       [name |-> "PLANET_ROLE", val |-> <<c.role>>],
       [name |-> "KUBE_CLOUD_PROVIDER", val |-> <<c.cloud>>] >>

\* The two rounds of configureProxy: for the exceptions, which get the static rules, and for
\* the proxies.  The value of k goes from one list to the other.
MoveExceptions(e, k) ==
    [env |-> Delete(e.env, k),
     proxyEnv |-> IF Get(e.env, k) = <<>> THEN e.proxyEnv
                  ELSE Upsert(e.proxyEnv, k, StaticNoProxyRules \o Get(e.env, k))]

MoveProxy(e, k) ==
    [env |-> Delete(e.env, k), proxyEnv |-> Upsert(e.proxyEnv, k, Get(e.env, k))]

configureProxy(env) ==
    LET together == [env |-> env, proxyEnv |-> <<>>]
        exceptions == MoveExceptions(MoveExceptions(together, "NO_PROXY"), "no_proxy")
        proxies == MoveProxy(MoveProxy(MoveProxy(MoveProxy(exceptions, "HTTP_PROXY"),
                       "http_proxy"), "HTTPS_PROXY"), "https_proxy")
    IN IF exceptions.proxyEnv # <<>> THEN proxies
       ELSE [proxies EXCEPT !.proxyEnv = Upsert(@, "NO_PROXY", StaticNoProxyRules)]

\* The given backend, else the first the kernel has; the file system of docker's directory
\* overrides both (checkRequiredMounts).
dockerBackend(c) == CASE c.btrfs -> "btrfs" [] c.backend # Unset -> c.backend [] OTHER -> "overlay"

addDockerOptions(env, c) ==
    AppendWords(env, "DOCKER_OPTS", <<dockerBackend(c)>> \o c.dockerOptions)

addComponentOptions(env, c) == AppendWords(env, "KUBE_KUBELET_FLAGS", c.kubeletOptions)

flannelVariables(env, c) ==
    IF ~c.flannel THEN Upsert(env, "KUBE_ENABLE_IPAM", <<"true">>)
    ELSE Upsert(Upsert(env, "KUBE_ENABLE_IPAM", <<"false">>), "FLANNEL_BACKEND",
                <<CASE c.cloud = "aws" -> "aws-vpc" [] c.cloud = "gce" -> "gce" [] OTHER -> "vxlan">>)

cloudVariables(env, c) ==
    IF c.cloud = Unset THEN env ELSE Upsert(env, "KUBE_CLOUD_FLAGS", <<c.cloud>>)

\* What a command is given that enters the container with env: the proxy, unless it has its own.
Joined(vars, pair) ==
    IF Get(vars, pair.name) = <<>> THEN Upsert(vars, pair.name, pair.val) ELSE vars

enterEnvironment(env, proxyEnv) ==
    LET joined[i \in 0..Len(proxyEnv)] == IF i = 0 THEN env ELSE Joined(joined[i - 1], proxyEnv[i])
    IN joined[Len(proxyEnv)]

Environment == [c \in Flags |->
    LET separated == configureProxy(c.env \o ownPairs(c))
    IN [separated EXCEPT
          !.env = cloudVariables(flannelVariables(addComponentOptions(
                      addDockerOptions(@, c), c), c), c)]]

-----------------------------------------------------------------------------
(* The kubelet's configuration, by some of its fields. *)

KubeletConfig ==
    [mode |-> "Webhook", anonymous |-> "false", failSwapOn |-> "false",
     readOnlyPort |-> Unset, maxPods |-> Unset]
KubeletConfigOverrides ==
    [mode |-> "Webhook", anonymous |-> "false", failSwapOn |-> Unset,
     readOnlyPort |-> Unset, maxPods |-> Unset]

\* mergo.Merge, WithOverride: what is set in src wins.
Merge(dst, src) == [f \in DOMAIN dst |-> IF src[f] = Unset THEN dst[f] ELSE src[f]]

applyConfigOverrides(config) == [Merge(config, KubeletConfigOverrides) EXCEPT !.readOnlyPort = Unset]

\* c.kubeletConfig holds the user's configuration, if there is one.
addKubeletOptions(c) ==
    IF c.kubeletConfig = <<>> THEN KubeletConfig
    ELSE applyConfigOverrides(Merge(KubeletConfig, c.kubeletConfig[1]))

KubeletFile == [c \in Flags |-> addKubeletOptions(c)]

-----------------------------------------------------------------------------
(* The steps, in the order of start(). *)

\* What start() is given: its flags, and the file system of docker's directory (btrfs) and
\* the nameservers of the host (servers).
Config ==
    [env : Seq([name : STRING, val : Seq(STRING)]), role : STRING, mounts : SUBSET STRING,
     backend : STRING, btrfs : BOOLEAN, dockerOptions : Seq(STRING), kubeletOptions : Seq(STRING),
     etcdProxy : STRING, flannel : BOOLEAN, cloud : STRING, uid : Nat,
     listen : Seq(STRING), servers : Seq(STRING),
     kubeletConfig : {<<>>} \cup [{1} -> [DOMAIN KubeletConfig -> STRING]], hostname : STRING]

ASSUME StartAssumption == Flags # {} /\ Flags \subseteq Config /\ ServiceUser \notin BaseUsers

Steps == <<"passwd", "group", "mounts", "flannel", "cloud", "etcd", "resolv", "coredns",
           "listener", "files", "create", "run", "wait">>

\* The files of the rootfs that a start writes, or parts of them.
RootFiles == {"passwd", "group", "flanneld", "conflist", "gateway", "resolv", "bind", "upstream",
              "local", "env", "proxyEnv", "kubelet", "hostname"}

StartTypeOK ==
    /\ step \in {"off"} \cup {Steps[i] : i \in DOMAIN Steps}
    /\ flags \in Flags
    /\ listen \in Seq(STRING) /\ Len(listen) = Len(flags.listen)
    /\ DOMAIN rootfs = RootFiles
    /\ \A db \in {"passwd", "group"} :
           DOMAIN rootfs[db] \subseteq BaseUsers \cup {ServiceUser}
    /\ {rootfs.flanneld, rootfs.conflist, rootfs.gateway} \subseteq BOOLEAN

\* A rootfs as it is unpacked; root's id is 0, and every other account has its own.
StartInit ==
    /\ step = "off" /\ flags = (CHOOSE c \in Flags : TRUE) /\ listen = flags.listen
    /\ rootfs = [passwd |-> [u \in BaseUsers |-> 0], group |-> [u \in BaseUsers |-> 0],
                 flanneld |-> FALSE, conflist |-> FALSE, gateway |-> FALSE,
                 resolv |-> <<>>, bind |-> <<>>, upstream |-> <<>>, local |-> <<>>,
                 env |-> <<>>, proxyEnv |-> <<>>, kubelet |-> <<>>, hostname |-> Unset]

\* startAndWait: the service user is looked up, and start() begins.
startAndWait(c) ==
    /\ step = "off" /\ step' = "passwd"
    /\ flags' = c /\ listen' = c.listen
    /\ UNCHANGED rootfs

\* The rootfs becomes r, and start() goes on.
Becomes(s, r) ==
    /\ step = s
    /\ step' = Steps[(CHOOSE i \in DOMAIN Steps : Steps[i] = s) + 1]
    /\ rootfs' = r
    /\ UNCHANGED flags

\* Replaces the service user's entry, or adds one; the rest of the file is kept.
UpsertAccount(file, id) ==
    [u \in DOMAIN file \cup {ServiceUser} |-> IF u = ServiceUser THEN id ELSE file[u]]

addUserToContainer ==
    /\ Becomes("passwd", [rootfs EXCEPT !.passwd = UpsertAccount(@, flags.uid)])
    /\ UNCHANGED listen

addGroupToContainer ==
    /\ Becomes("group", [rootfs EXCEPT !.group = UpsertAccount(@, flags.uid)])
    /\ UNCHANGED listen

\* What a kill may leave of the rootfs: with the fault, an account file that was truncated
\* when it was opened and not written yet.
LeftByKill ==
    {rootfs} \cup IF "killedInRewrite" \in Faults /\ step \in {"passwd", "group"}
                 THEN {[rootfs EXCEPT ![step] = <<>>]} ELSE {}

\* The data directories must be mounted, and a role given.
checkRequiredMounts ==
    /\ {"etcd", "docker", "registry"} \subseteq flags.mounts
    /\ flags.role \in {"master", "node"}
    /\ Becomes("mounts", rootfs) /\ UNCHANGED listen

\* Variant: the link of an earlier start is not removed.
setupFlannelVariant ==
    /\ Becomes("flannel", [rootfs EXCEPT !.flanneld = @ \/ flags.flannel,
                                         !.conflist = @ \/ flags.flannel])
    /\ UNCHANGED listen

\* The link that starts flanneld is removed, and made again unless flannel is disabled; the
\* network configuration is only ever written.
setupFlannel ==
    /\ Becomes("flannel", [rootfs EXCEPT !.flanneld = flags.flannel,
                                         !.conflist = @ \/ flags.flannel])
    /\ UNCHANGED listen

\* A provider needs a template, or a configuration of its own.
addCloudOptions ==
    /\ flags.cloud \in {Unset, "aws", "gce"}
    /\ Becomes("cloud", rootfs) /\ UNCHANGED listen

setupEtcdDropin ==
    /\ Becomes("etcd", [rootfs EXCEPT !.gateway = (flags.etcdProxy = "on")])
    /\ UNCHANGED listen

\* Variant: the slice is made with room for all the addresses there may be.
CapVariant(n) == 8

\* The capacity append has given a slice of n addresses, added one by one.
Cap(n) == CHOOSE c \in {1, 2, 4, 8} : n <= c /\ (c = 1 \/ c < 2 * n)

\* Variant: the host's servers are added to the listen addresses themselves.
addResolvVariant ==
    /\ Becomes("resolv", [rootfs EXCEPT !.resolv = listen \o flags.servers])
    /\ listen' = listen \o flags.servers

\* The nameservers are the first listen address and the host's.  They are put together by an
\* append to ListenAddrs[:1], which writes over ListenAddrs[1:] where the capacity allows it.
addResolv ==
    LET servers == flags.servers
        inPlace == listen # <<>> /\ 1 + Len(servers) <= Cap(Len(listen))
    IN /\ Becomes("resolv", [rootfs EXCEPT !.resolv = SubSeq(listen, 1, 1) \o servers])
       /\ listen' = [i \in DOMAIN listen |->
                       IF inPlace /\ i \in 2..(1 + Len(servers)) THEN servers[i - 1] ELSE listen[i]]

setCoreDNS ==
    /\ Becomes("coredns", [rootfs EXCEPT !.bind = listen, !.upstream = flags.servers])
    /\ UNCHANGED listen

\* The first part of box.Start: the two environment files, one of which has the addresses of
\* the local nameservers, and config.Files, among them a host name if one is given.
WriteFiles ==
    /\ Becomes("files", [rootfs EXCEPT
                    !.env = Environment[flags].env, !.proxyEnv = Environment[flags].proxyEnv,
                    !.local = listen, !.kubelet = KubeletFile[flags],
                    !.hostname = IF flags.hostname = Unset THEN @ ELSE flags.hostname])
    /\ UNCHANGED listen

StartStep ==
    \/ addUserToContainer \/ addGroupToContainer \/ checkRequiredMounts
    \/ setupFlannel \/ addCloudOptions \/ setupEtcdDropin
    \/ addResolv \/ setCoreDNS \/ WriteFiles

\* A step of start() that writes no file: the udev listener, the container and its init.
Passes(s) == Becomes(s, rootfs) /\ UNCHANGED listen

\* start() returns or is killed, and the daemon is gone.
Ends ==
    /\ step # "off" /\ step' = "off" /\ rootfs' \in LeftByKill
    /\ UNCHANGED <<flags, listen>>

\* The starts of one rootfs, by themselves; PlanetNode has them with the rest of the daemon.
StartNext ==
    \/ \E c \in Flags : startAndWait(c)
    \/ StartStep
    \/ \E s \in {"listener", "create", "run"} : Passes(s)
    \/ Ends

StartSpec == StartInit /\ [][StartNext]_startVars

\* start() refuses these flags.
Refused ==
    \/ step = "mounts" /\ ~({"etcd", "docker", "registry"} \subseteq flags.mounts
                            /\ flags.role \in {"master", "node"})
    \/ step = "cloud" /\ flags.cloud \notin {Unset, "aws", "gce"}

-----------------------------------------------------------------------------
(* What the environment files must say, for each of the command lines. *)

OwnVariablesWin == [c \in Flags |->
    LET env == Environment[c].env
    IN /\ \A i \in DOMAIN ownPairs(c) : ReadEnvironment(env, ownPairs(c)[i].name) = ownPairs(c)[i].val
       /\ ReadEnvironment(env, "DOCKER_OPTS")
              = Get(c.env, "DOCKER_OPTS") \o <<dockerBackend(c)>> \o c.dockerOptions]

ProxyMoved == [c \in Flags |->
    LET inside(k) == ReadEnvironment(Environment[c].env, k)
        apart(k) == ReadEnvironment(Environment[c].proxyEnv, k)
    IN /\ \A k \in ProxyVariables : inside(k) = <<>> /\ apart(k) = Get(c.env, k)
       /\ \A k \in ProxyExceptions :
              inside(k) = <<>> /\ \E rules \in {<<>>, StaticNoProxyRules} :
                                     apart(k) = rules \o Get(c.env, k)
       /\ \E k \in ProxyExceptions : apart(k) = StaticNoProxyRules \o Get(c.env, k)]

ProxyEntered == [c \in Flags |->
    \A k \in ProxyVariables \cup ProxyExceptions :
        LET entered(env) == ReadEnvironment(enterEnvironment(env, Environment[c].proxyEnv), k)
        IN /\ entered(<<>>) = ReadEnvironment(Environment[c].proxyEnv, k)
           /\ entered(<<[name |-> k, val |-> <<"own">>]>>) = <<"own">>]

\* The user's fields, but for those that planet does not leave to the user.
KubeletProtected == [c \in Flags |->
    \A f \in DOMAIN KubeletConfig :
        LET planets == KubeletConfigOverrides[f] # Unset \/ f = "readOnlyPort"
        IN KubeletFile[c][f] = IF planets \/ c.kubeletConfig = <<>> \/ c.kubeletConfig[1][f] = Unset
                               THEN KubeletConfig[f] ELSE c.kubeletConfig[1][f]]

Configured == step \in {"create", "run", "wait"}

(***************************************************************************)
(* A container is started with the configuration of its own flags,         *)
(* whatever earlier starts with other flags, finished or not, left in the  *)
(* rootfs, and whatever the user passes in --env: the service user has     *)
(* this start's id and the shipped accounts are all there; etcd.service    *)
(* runs the gateway if etcd is a proxy; flanneld is started unless         *)
(* disabled; planet's own variables win over the user's; docker gets one   *)
(* storage driver after the user's own options; the kubelet is configured  *)
(* by the user but for what planet protects; a host name that is given     *)
(* replaces an earlier one.  The user's proxy is in a file of its own,     *)
(* with rules that spare the cluster's addresses: it reaches the commands  *)
(* that enter the container without one, and no service in it.             *)
(***************************************************************************)
ConfigApplied ==
    Configured =>
        /\ \A db \in {"passwd", "group"} :
               rootfs[db] = [u \in BaseUsers \cup {ServiceUser} |->
                               IF u = ServiceUser THEN flags.uid ELSE 0]
        /\ rootfs.gateway = (flags.etcdProxy = "on")
        /\ rootfs.flanneld = flags.flannel
        /\ rootfs.env = Environment[flags].env /\ OwnVariablesWin[flags]
        /\ rootfs.kubelet = KubeletFile[flags] /\ KubeletProtected[flags]
        /\ rootfs.proxyEnv = Environment[flags].proxyEnv
        /\ ProxyMoved[flags] /\ ProxyEntered[flags]
        /\ flags.hostname \in {Unset, rootfs.hostname}

(***************************************************************************)
(* CoreDNS listens on the addresses of --dns-listen-addr, and the agent    *)
(* looks for it there, although addResolv appends to a part of the same    *)
(* slice before start() and setCoreDNS read it.  It depends on the         *)
(* slice's capacity: with two addresses and one nameserver of the host     *)
(* this fails (start.go:726).                                              *)
(***************************************************************************)
ListensAsTold == Configured => rootfs.bind = flags.listen /\ rootfs.local = flags.listen
=============================================================================
