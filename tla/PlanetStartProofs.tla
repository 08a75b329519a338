-------------------------- MODULE PlanetStartProofs --------------------------
(***************************************************************************)
(* The files of the rootfs and the environments that planet start writes,  *)
(* for every command line and however often it is started and killed.      *)
(***************************************************************************)
EXTENDS PlanetStart, SequenceTheorems, WellFoundedInduction, TLAPS

-----------------------------------------------------------------------------
(* The files. *)

(***************************************************************************)
(* What start() does after each of its steps.                              *)
(***************************************************************************)
LEMMA Successors ==
    ASSUME NEW r
    PROVE  /\ Becomes("passwd", r) => step' = "group"
           /\ Becomes("group", r) => step' = "mounts"
           /\ Becomes("mounts", r) => step' = "flannel"
           /\ Becomes("flannel", r) => step' = "cloud"
           /\ Becomes("cloud", r) => step' = "etcd"
           /\ Becomes("etcd", r) => step' = "resolv"
           /\ Becomes("resolv", r) => step' = "coredns"
           /\ Becomes("coredns", r) => step' = "listener"
           /\ Becomes("listener", r) => step' = "files"
           /\ Becomes("files", r) => step' = "create"
           /\ Becomes("create", r) => step' = "run"
           /\ Becomes("run", r) => step' = "wait"
  <1>1. DOMAIN Steps = 1..13
    BY DEF Steps
  <1>2. /\ Steps[1] = "passwd" /\ Steps[2] = "group" /\ Steps[3] = "mounts" /\ Steps[4] = "flannel"
        /\ Steps[5] = "cloud" /\ Steps[6] = "etcd" /\ Steps[7] = "resolv" /\ Steps[8] = "coredns"
        /\ Steps[9] = "listener" /\ Steps[10] = "files" /\ Steps[11] = "create"
        /\ Steps[12] = "run" /\ Steps[13] = "wait"
    BY DEF Steps
  <1>3. ASSUME NEW j \in 1..12, NEW i \in DOMAIN Steps, Steps[i] = Steps[j] PROVE i = j
    BY <1>1, <1>2, <1>3
  <1>4. ASSUME NEW j \in 1..12, Becomes(Steps[j], r) PROVE step' = Steps[j + 1]
    <2>1. (CHOOSE i \in DOMAIN Steps : Steps[i] = Steps[j]) = j
      BY <1>1, <1>3
    <2> QED BY <1>4, <2>1, Zenon DEF Becomes
  <1> QED BY <1>2, <1>4

\* The parts of StartTypeOK that the next lemmas need; PlanetNodeProofs has all of it.
RootTyped ==
    /\ flags \in Flags /\ DOMAIN rootfs = RootFiles
    /\ \A db \in {"passwd", "group"} :
           DOMAIN rootfs[db] \subseteq BaseUsers \cup {ServiceUser}

(***************************************************************************)
(* Every step leaves the rootfs its files, and the account files no other  *)
(* accounts than the shipped ones and the service user.                    *)
(***************************************************************************)
LEMMA KeepsRoot ==
    ASSUME RootTyped, [StartNext]_startVars
    PROVE  RootTyped'
  <1> USE DEF RootTyped
  <1>1. CASE UNCHANGED rootfs /\ flags' \in Flags
    BY <1>1
  <1>2. ASSUME NEW id, NEW db \in {"passwd", "group"}, UNCHANGED flags,
               rootfs' = [rootfs EXCEPT ![db] = UpsertAccount(rootfs[db], id)]
        PROVE  RootTyped'
    BY <1>2 DEF UpsertAccount, RootFiles
  <1>3. ASSUME NEW db \in {"passwd", "group"}, UNCHANGED flags,
               rootfs' = [rootfs EXCEPT ![db] = <<>>]
        PROVE  RootTyped'
    BY <1>3 DEF RootFiles
  <1>4. ASSUME UNCHANGED flags, DOMAIN rootfs' = DOMAIN rootfs,
               rootfs'.passwd = rootfs.passwd, rootfs'.group = rootfs.group
        PROVE  RootTyped'
    BY <1>4
  <1>5. CASE addUserToContainer \/ addGroupToContainer
    BY <1>2, <1>5 DEF addUserToContainer, addGroupToContainer, Becomes
  <1>6. CASE Ends
    BY <1>1, <1>3, <1>6 DEF Ends, LeftByKill
  <1>7. CASE setupFlannel \/ setupEtcdDropin \/ setCoreDNS
    BY <1>4, <1>7, Zenon DEF setupFlannel, setupEtcdDropin, setCoreDNS, Becomes, RootFiles
  <1>8. CASE addResolv
    <2>1. UNCHANGED flags
          /\ rootfs' = [rootfs EXCEPT !.resolv = SubSeq(listen, 1, 1) \o flags.servers]
      BY <1>8, ZenonT(30) DEF addResolv, Becomes
    <2> QED BY <1>4, <2>1 DEF RootFiles
  <1>9. CASE WriteFiles
    BY <1>4, <1>9 DEF WriteFiles, Becomes, RootFiles
  <1>10. CASE checkRequiredMounts \/ addCloudOptions
    BY <1>1, <1>10 DEF checkRequiredMounts, addCloudOptions, Becomes
  <1>11. CASE \E s \in {"listener", "create", "run"} : Passes(s)
    BY <1>1, <1>11 DEF Passes, Becomes
  <1>12. CASE \E c \in Flags : startAndWait(c)
    BY <1>1, <1>12 DEF startAndWait
  <1>13. CASE UNCHANGED startVars
    BY <1>1, <1>13 DEF startVars
  <1> QED BY <1>5, <1>6, <1>7, <1>8, <1>9, <1>10, <1>11, <1>12, <1>13 DEF StartNext, StartStep

\* The steps of start() that come after those that write a file.
AfterFiles == {"create", "run", "wait"}
AfterCoreDNS == {"listener", "files"} \cup AfterFiles
AfterEtcd == {"resolv", "coredns"} \cup AfterCoreDNS
AfterFlannel == {"cloud", "etcd"} \cup AfterEtcd
AfterGroup == {"mounts", "flannel"} \cup AfterFlannel
AfterPasswd == {"group"} \cup AfterGroup

\* The accounts a container must have: the shipped ones, and the service user of this start.
Accounts == [u \in BaseUsers \cup {ServiceUser} |-> IF u = ServiceUser THEN flags.uid ELSE 0]

(***************************************************************************)
(* The shipped accounts are in both files whatever start, finished or not, *)
(* has rewritten them; and from the step on that writes it, every file     *)
(* is the one of the present flags.                                        *)
(***************************************************************************)
FilesWritten ==
    /\ \A db \in {"passwd", "group"} :
           BaseUsers \subseteq DOMAIN rootfs[db] /\ \A u \in BaseUsers : rootfs[db][u] = 0
    /\ step \in AfterPasswd => rootfs.passwd = Accounts
    /\ step \in AfterGroup => rootfs.group = Accounts
    /\ step \in AfterFlannel => rootfs.flanneld = flags.flannel
    /\ step \in AfterEtcd => rootfs.gateway = (flags.etcdProxy = "on")
    /\ step \in AfterFiles =>
           /\ rootfs.env = Environment[flags].env /\ rootfs.proxyEnv = Environment[flags].proxyEnv
           /\ rootfs.kubelet = KubeletFile[flags]
           /\ flags.hostname \in {Unset, rootfs.hostname}

(***************************************************************************)
(* Rewriting an account file that has all the shipped accounts makes it    *)
(* the one this start's container must have.                               *)
(***************************************************************************)
LEMMA Rewritten ==
    ASSUME RootTyped, FilesWritten, NEW db \in {"passwd", "group"}
    PROVE  UpsertAccount(rootfs[db], flags.uid) = Accounts
  <1>1. DOMAIN rootfs[db] \cup {ServiceUser} = BaseUsers \cup {ServiceUser}
    BY DEF RootTyped, FilesWritten
  <1>2. \A u \in BaseUsers \cup {ServiceUser} :
            u # ServiceUser => rootfs[db][u] = 0
    BY DEF FilesWritten
  <1> QED BY <1>1, <1>2 DEF UpsertAccount, Accounts

(***************************************************************************)
(* The accounts of a start include the shipped ones.                       *)
(***************************************************************************)
LEMMA AccountsShipped ==
    BaseUsers \subseteq DOMAIN Accounts /\ \A u \in BaseUsers : Accounts[u] = 0
  BY StartAssumption DEF Accounts

(***************************************************************************)
(* Every step keeps FilesWritten, if no daemon is killed between           *)
(* truncating an account file and writing it.                              *)
(***************************************************************************)
LEMMA WritesFiles ==
    ASSUME "killedInRewrite" \notin Faults, RootTyped, FilesWritten, [StartNext]_startVars
    PROVE  FilesWritten'
  <1> USE DEF AfterFiles, AfterCoreDNS, AfterEtcd, AfterFlannel, AfterGroup, AfterPasswd
  <1>0. DOMAIN rootfs = RootFiles
    BY DEF RootTyped
  <1>1. flags' = flags => Accounts' = Accounts
    BY DEF Accounts
  <1>3. ASSUME NEW c \in Flags, startAndWait(c) PROVE FilesWritten'
    <2>1. step' = "passwd" /\ rootfs' = rootfs
      BY <1>3 DEF startAndWait
    <2> QED BY <2>1 DEF FilesWritten
  <1>4. CASE Ends
    <2>1. step' = "off" /\ rootfs' = rootfs
      BY <1>4 DEF Ends, LeftByKill
    <2> QED BY <2>1 DEF FilesWritten
  <1>5. CASE UNCHANGED startVars
    <2>1. step' = step /\ rootfs' = rootfs /\ flags' = flags
      BY <1>5 DEF startVars
    <2> QED BY <1>1, <2>1 DEF FilesWritten
  <1>6. ASSUME NEW s \in {"listener", "create", "run"}, Passes(s) PROVE FilesWritten'
    <2>1. rootfs' = rootfs /\ flags' = flags /\ step = s
      BY <1>6 DEF Passes, Becomes
    <2>2. step' = CASE s = "listener" -> "files" [] s = "create" -> "run" [] s = "run" -> "wait"
      BY <1>6, Successors DEF Passes
    <2>3. step' \in AfterFiles => step \in AfterFiles
      BY <2>1, <2>2
    <2>4. step \in AfterEtcd
      BY <2>1
    <2> QED BY <1>1, <2>1, <2>3, <2>4 DEF FilesWritten
  <1>7. CASE addUserToContainer
    <2>1. step = "passwd" /\ step' = "group" /\ flags' = flags
          /\ rootfs' = [rootfs EXCEPT !.passwd = UpsertAccount(rootfs.passwd, flags.uid)]
      BY <1>7, Successors DEF addUserToContainer, Becomes
    <2>2. rootfs'.passwd = Accounts /\ rootfs'.group = rootfs.group
      BY <1>0, <2>1, Rewritten DEF RootFiles
    <2> QED BY <1>1, <2>1, <2>2, AccountsShipped DEF FilesWritten
  <1>8. CASE addGroupToContainer
    <2>1. step = "group" /\ step' = "mounts" /\ flags' = flags
          /\ rootfs' = [rootfs EXCEPT !.group = UpsertAccount(rootfs.group, flags.uid)]
      BY <1>8, Successors DEF addGroupToContainer, Becomes
    <2>2. rootfs'.group = Accounts /\ rootfs'.passwd = rootfs.passwd
      BY <1>0, <2>1, Rewritten DEF RootFiles
    <2> QED BY <1>1, <2>1, <2>2, AccountsShipped DEF FilesWritten
  <1>9. CASE checkRequiredMounts
    <2>1. rootfs' = rootfs /\ flags' = flags /\ step = "mounts" /\ step' = "flannel"
      BY <1>9, Successors DEF checkRequiredMounts, Becomes
    <2> QED BY <1>1, <2>1 DEF FilesWritten
  <1>15. CASE addCloudOptions
    <2>1. rootfs' = rootfs /\ flags' = flags /\ step = "cloud" /\ step' = "etcd"
      BY <1>15, Successors DEF addCloudOptions, Becomes
    <2> QED BY <1>1, <2>1 DEF FilesWritten
  <1>10. CASE setupFlannel
    <2>1. step = "flannel" /\ step' = "cloud" /\ flags' = flags
          /\ rootfs' = [rootfs EXCEPT !.flanneld = flags.flannel,
                                      !.conflist = rootfs.conflist \/ flags.flannel]
      BY <1>10, Successors DEF setupFlannel, Becomes
    <2>2. rootfs'.flanneld = flags.flannel /\ rootfs'.passwd = rootfs.passwd
          /\ rootfs'.group = rootfs.group
      BY <1>0, <2>1 DEF RootFiles
    <2> QED BY <1>1, <2>1, <2>2 DEF FilesWritten
  <1>11. CASE setupEtcdDropin
    <2>1. step = "etcd" /\ step' = "resolv" /\ flags' = flags
          /\ rootfs' = [rootfs EXCEPT !.gateway = (flags.etcdProxy = "on")]
      BY <1>11, Successors DEF setupEtcdDropin, Becomes
    <2>2. rootfs'.gateway = (flags.etcdProxy = "on") /\ rootfs'.flanneld = rootfs.flanneld
          /\ rootfs'.passwd = rootfs.passwd /\ rootfs'.group = rootfs.group
      BY <1>0, <2>1 DEF RootFiles
    <2> QED BY <1>1, <2>1, <2>2 DEF FilesWritten
  <1>12. CASE addResolv
    <2>1. step = "resolv" /\ step' = "coredns" /\ flags' = flags
          /\ rootfs' = [rootfs EXCEPT !.resolv = SubSeq(listen, 1, 1) \o flags.servers]
      BY <1>12, Successors, ZenonT(30) DEF addResolv, Becomes
    <2>2. rootfs'.gateway = rootfs.gateway /\ rootfs'.flanneld = rootfs.flanneld
          /\ rootfs'.passwd = rootfs.passwd /\ rootfs'.group = rootfs.group
      BY <1>0, <2>1 DEF RootFiles
    <2> QED BY <1>1, <2>1, <2>2 DEF FilesWritten
  <1>16. CASE setCoreDNS
    <2>1. step = "coredns" /\ step' = "listener" /\ flags' = flags
          /\ rootfs' = [rootfs EXCEPT !.bind = listen, !.upstream = flags.servers]
      BY <1>16, Successors DEF setCoreDNS, Becomes
    <2>2. rootfs'.gateway = rootfs.gateway /\ rootfs'.flanneld = rootfs.flanneld
          /\ rootfs'.passwd = rootfs.passwd /\ rootfs'.group = rootfs.group
      BY <1>0, <2>1 DEF RootFiles
    <2> QED BY <1>1, <2>1, <2>2 DEF FilesWritten
  <1>13. CASE WriteFiles
    <2>1. step = "files" /\ step' = "create" /\ flags' = flags
      BY <1>13, Successors DEF WriteFiles, Becomes
    <2>2. rootfs'.gateway = rootfs.gateway /\ rootfs'.flanneld = rootfs.flanneld
          /\ rootfs'.passwd = rootfs.passwd /\ rootfs'.group = rootfs.group
      BY <1>0, <1>13 DEF RootFiles, WriteFiles, Becomes
    <2>3. rootfs'.env = Environment[flags].env /\ rootfs'.proxyEnv = Environment[flags].proxyEnv
          /\ rootfs'.kubelet = KubeletFile[flags]
      BY <1>0, <1>13 DEF RootFiles, WriteFiles, Becomes
    <2>4. flags.hostname \in {Unset, rootfs'.hostname}
      BY <1>0, <1>13 DEF RootFiles, WriteFiles, Becomes
    <2>5. \A db \in {"passwd", "group"} :
             BaseUsers \subseteq DOMAIN rootfs'[db] /\ \A u \in BaseUsers : rootfs'[db][u] = 0
      BY <2>2 DEF FilesWritten
    <2>6. rootfs'.passwd = Accounts' /\ rootfs'.group = Accounts'
          /\ rootfs'.flanneld = flags'.flannel /\ rootfs'.gateway = (flags'.etcdProxy = "on")
      BY <1>1, <2>1, <2>2 DEF FilesWritten
    <2> QED BY <2>1, <2>3, <2>4, <2>5, <2>6 DEF FilesWritten
  <1> QED BY <1>3, <1>4, <1>5, <1>6, <1>7, <1>8, <1>9, <1>10, <1>11, <1>12, <1>13, <1>15, <1>16
          DEF StartNext, StartStep

(***************************************************************************)
(* addKubeletOptions leaves the user every field of the kubelet's          *)
(* configuration but those that planet protects, for every configuration   *)
(* the user may pass.                                                      *)
(***************************************************************************)
THEOREM KubeletFields == ASSUME NEW c \in Flags PROVE KubeletProtected[c]
  <1> DEFINE Fields == DOMAIN KubeletConfig
  <1>1. Fields = {"mode", "anonymous", "failSwapOn", "readOnlyPort", "maxPods"}
    BY DEF KubeletConfig
  <1>2. CASE c.kubeletConfig = <<>>
    <2>1. KubeletFile[c] = KubeletConfig
      BY <1>2 DEF KubeletFile, addKubeletOptions
    <2> QED BY <1>2, <2>1 DEF KubeletProtected
  <1>3. CASE c.kubeletConfig # <<>>
    <2> DEFINE user == c.kubeletConfig[1]
               merged == Merge(KubeletConfig, user)
               file == Merge(merged, KubeletConfigOverrides)
    <2>1. merged = [f \in Fields |-> IF user[f] = Unset THEN KubeletConfig[f] ELSE user[f]]
      BY DEF Merge
    <2>2. file = [f \in Fields |-> IF KubeletConfigOverrides[f] = Unset THEN merged[f]
                                   ELSE KubeletConfigOverrides[f]]
      BY <2>1 DEF Merge
    <2>3. KubeletFile[c] = [file EXCEPT !["readOnlyPort"] = Unset]
      BY <1>3 DEF KubeletFile, addKubeletOptions, applyConfigOverrides
    <2> HIDE DEF user, merged, file, Fields
    <2>4. KubeletConfig["readOnlyPort"] = Unset
      BY DEF KubeletConfig
    <2>5. \A f \in Fields : KubeletConfigOverrides[f] # Unset
                             => KubeletConfigOverrides[f] = KubeletConfig[f]
      BY <1>1 DEF KubeletConfig, KubeletConfigOverrides
    <2>6. ASSUME NEW f \in Fields
          PROVE  KubeletFile[c][f] =
                   IF KubeletConfigOverrides[f] # Unset \/ f = "readOnlyPort" \/ user[f] = Unset
                   THEN KubeletConfig[f] ELSE user[f]
      BY <2>1, <2>2, <2>3, <2>4, <2>5
    <2> QED BY <1>3, <2>6 DEF KubeletProtected, user, Fields
  <1> QED BY <1>2, <1>3

-----------------------------------------------------------------------------
(* The environments.  A name may occur several times in what the user passes, but for those *)
(* that planet moves or appends to. *)

\* The literals of the code.  They are strings, but none of the provers knows that of a literal.
Literals ==
    {"NO_PROXY", "no_proxy", "HTTP_PROXY", "http_proxy", "HTTPS_PROXY", "https_proxy",
     "PLANET_ETCD_PROXY", "PLANET_ROLE", "KUBE_CLOUD_PROVIDER", "DOCKER_OPTS",
     "KUBE_KUBELET_FLAGS", "KUBE_ENABLE_IPAM", "FLANNEL_BACKEND", "KUBE_CLOUD_FLAGS",
     "0.0.0.0/0", ".local", "btrfs", "overlay", "true", "false", "aws-vpc", "gce", "vxlan",
     "own"}
Strings == STRING \cup Literals

EnvVars == Seq([name : Strings, val : Seq(Strings)])

Once(vars, k) == \A i, j \in Named(vars, k) : i = j

\* The two lists tell a reader the same about the name k.
Same(new, vars, k) ==
    /\ Get(new, k) = Get(vars, k) /\ ReadEnvironment(new, k) = ReadEnvironment(vars, k)
    /\ Named(new, k) = {} <=> Named(vars, k) = {}
    /\ Once(vars, k) => Once(new, k)

(***************************************************************************)
(* A set of natural numbers has a least element.                           *)
(***************************************************************************)
LEMMA Least == ASSUME NEW T \in SUBSET Nat, T # {} PROVE \E m \in T : \A n \in T : m <= n
  <1> DEFINE R == OpToRel(<, Nat)
  <1>1. \E m \in T : \A n \in T : ~(<<n, m>> \in R)
    <2>1. IsWellFoundedOn(R, Nat)
      BY NatLessThanWellFounded, Zenon
    <2> HIDE DEF R
    <2> QED BY <2>1, WFMin, Zenon
  <1>2. \A m, n \in Nat : <<n, m>> \in R <=> n < m
    BY DEF OpToRel
  <1> HIDE DEF R
  <1>3. PICK m \in T : \A n \in T : ~(<<n, m>> \in R)
    BY <1>1
  <1>4. \A n \in T : ~(n < m)
    BY <1>2, <1>3, Zenon
  <1> QED BY <1>4

(***************************************************************************)
(* Lists of options are joined in any grouping.                            *)
(***************************************************************************)
LEMMA Regrouped == \A p, q, r \in Seq(Strings) : p \o (q \o r) = p \o q \o r
  BY SMTT(30)

(***************************************************************************)
(* A name that occurs has a first and a last occurrence.                   *)
(***************************************************************************)
LEMMA Occurrences ==
    ASSUME NEW vars \in EnvVars, NEW k, Named(vars, k) # {}
    PROVE  /\ First(vars, k) \in Named(vars, k) /\ Final(vars, k) \in Named(vars, k)
           /\ \A j \in Named(vars, k) : First(vars, k) <= j /\ j <= Final(vars, k)
  <1>1. Named(vars, k) \subseteq 1..Len(vars) /\ Len(vars) \in Nat
    BY DEF Named, EnvVars
  <1>2. \E i \in Named(vars, k) : \A j \in Named(vars, k) : i <= j
    <2>1. PICK n \in Named(vars, k) : TRUE
      OBVIOUS
    <2>2. Named(vars, k) \in SUBSET Nat
      BY <1>1
    <2> QED BY <2>1, <2>2, Least
  <1>3. \E i \in Named(vars, k) : \A j \in Named(vars, k) : j <= i
    <2> DEFINE T == {n \in Nat : Len(vars) - n \in Named(vars, k)}
    <2>1. PICK i \in Named(vars, k) : TRUE
      OBVIOUS
    <2>2. Len(vars) - i \in T /\ T \in SUBSET Nat
      BY <1>1, <2>1
    <2>3. PICK m \in T : \A n \in T : m <= n
      BY <2>2, Least, Zenon
    <2>4. ASSUME NEW j \in Named(vars, k) PROVE j <= Len(vars) - m
      <3>1. Len(vars) - j \in T
        BY <1>1
      <3> QED BY <1>1, <2>3, <3>1
    <2> QED BY <2>3, <2>4
  <1> QED BY <1>2, <1>3 DEF First, Final

(***************************************************************************)
(* Lists that agree, up to a shift of the indices, on the lines of a name  *)
(* tell a reader the same about it.                                        *)
(***************************************************************************)
LEMMA SameLines ==
    ASSUME NEW new \in EnvVars, NEW vars \in EnvVars, NEW k, NEW f \in [Named(new, k) -> Nat],
           \A i \in Named(new, k) : f[i] \in Named(vars, k) /\ new[i].val = vars[f[i]].val,
           \A j \in Named(vars, k) : \E i \in Named(new, k) : f[i] = j,
           \A i, j \in Named(new, k) : i < j => f[i] < f[j]
    PROVE  Same(new, vars, k)
  <1> DEFINE N == Named(new, k)  V == Named(vars, k)
  <1>1. N \subseteq Nat /\ V \subseteq Nat
    BY DEF Named, EnvVars
  <1>2. N = {} <=> V = {}
    OBVIOUS
  <1>3. Once(vars, k) => Once(new, k)
    <2> SUFFICES ASSUME \A a, b \in V : a = b, NEW i \in N, NEW j \in N PROVE i = j
      BY DEF Once
    <2>1. f[i] = f[j] /\ f[i] \in Nat
      OBVIOUS
    <2>2. ~(i < j) /\ ~(j < i)
      BY <2>1
    <2> QED BY <1>1, <2>2
  <1>4. CASE N = {}
    BY <1>2, <1>3, <1>4 DEF Same, Get, ReadEnvironment
  <1>5. CASE N # {}
    <2>1. /\ First(new, k) \in N /\ Final(new, k) \in N
          /\ \A j \in N : First(new, k) <= j /\ j <= Final(new, k)
      BY <1>5, Occurrences
    <2>2. /\ First(vars, k) \in V /\ Final(vars, k) \in V
          /\ \A j \in V : First(vars, k) <= j /\ j <= Final(vars, k)
      BY <1>2, <1>5, Occurrences
    <2> DEFINE a == First(new, k)  b == Final(new, k)  x == First(vars, k)  y == Final(vars, k)
    <2> HIDE DEF N, V, a, b, x, y
    <2>3. f[a] = x
      <3>1. PICK i \in N : f[i] = x
        BY <2>2 DEF N, V, x
      <3>2. a <= i /\ a \in N /\ f[a] \in V /\ x <= f[a] /\ x \in V
        BY <2>1, <2>2, <3>1 DEF N, V, a, x
      <3>3. a < i => f[a] < f[i]
        BY <3>2 DEF N
      <3>4. a \in Nat /\ i \in Nat /\ x \in Nat /\ f[a] \in Nat
        BY <1>1, <3>1, <3>2, Zenon
      <3>5. a = i
        BY <3>1, <3>2, <3>3, <3>4
      <3> QED BY <3>1, <3>5
    <2>4. f[b] = y
      <3>1. PICK i \in N : f[i] = y
        BY <2>2 DEF N, V, y
      <3>2. i <= b /\ b \in N /\ f[b] \in V /\ f[b] <= y /\ y \in V
        BY <2>1, <2>2, <3>1 DEF N, V, b, y
      <3>3. i < b => f[i] < f[b]
        BY <3>2 DEF N
      <3>4. b \in Nat /\ i \in Nat /\ y \in Nat /\ f[b] \in Nat
        BY <1>1, <3>1, <3>2, Zenon
      <3>5. b = i
        BY <3>1, <3>2, <3>3, <3>4
      <3> QED BY <3>1, <3>5
    <2>5. new[a].val = vars[x].val /\ new[b].val = vars[y].val
      BY <2>1, <2>3, <2>4 DEF N, a, b
    <2> QED BY <1>2, <1>3, <1>5, <2>5 DEF Same, Get, ReadEnvironment, N, V, a, b, x, y
  <1> QED BY <1>4, <1>5

(***************************************************************************)
(* In particular, lists in which the lines of a name are the same.         *)
(***************************************************************************)
LEMMA EqualLines ==
    ASSUME NEW new \in EnvVars, NEW vars \in EnvVars, NEW k, Named(new, k) = Named(vars, k),
           \A i \in Named(vars, k) : new[i] = vars[i]
    PROVE  Same(new, vars, k)
  <1> DEFINE f == [i \in Named(new, k) |-> i]
  <1>1. Named(new, k) \subseteq Nat
    BY DEF Named, EnvVars
  <1>2. f \in [Named(new, k) -> Nat] /\ \A i \in Named(new, k) : f[i] = i
    BY <1>1
  <1> HIDE DEF f
  <1> QED BY <1>2, SameLines

(***************************************************************************)
(* EnvVars.Upsert changes what is said of its own name only.               *)
(***************************************************************************)
LEMMA UpsertOther ==
    ASSUME NEW vars \in EnvVars, NEW k \in Strings, NEW v \in Seq(Strings)
    PROVE  /\ Upsert(vars, k, v) \in EnvVars /\ Upsert(vars, k, v) # <<>>
           /\ \A j : j # k => Same(Upsert(vars, k, v), vars, j)
  <1> DEFINE new == Upsert(vars, k, v)  P == [name : Strings, val : Seq(Strings)]
  <1>1. CASE Named(vars, k) = {}
    <2>1. new = Append(vars, [name |-> k, val |-> v])
      BY <1>1 DEF Upsert
    <2>2. [name |-> k, val |-> v] \in P
      OBVIOUS
    <2>3. new \in Seq(P) /\ Len(new) = Len(vars) + 1 /\ new[Len(new)] = [name |-> k, val |-> v]
          /\ \A i \in 1..Len(vars) : new[i] = vars[i]
      BY <2>1, <2>2 DEF EnvVars
    <2>4. Len(vars) \in Nat /\ DOMAIN vars = 1..Len(vars) /\ DOMAIN new = 1..(Len(vars) + 1)
      BY <2>3 DEF EnvVars
    <2>5. ASSUME NEW j, j # k PROVE Named(new, j) = Named(vars, j)
      BY <2>3, <2>4, <2>5 DEF Named
    <2>6. \A j : \A i \in Named(vars, j) : new[i] = vars[i]
      BY <2>3, <2>4 DEF Named
    <2> HIDE DEF new
    <2>7. ASSUME NEW j, j # k PROVE Same(new, vars, j)
      BY <2>3, <2>5, <2>6, <2>7, EqualLines, ZenonT(30) DEF EnvVars
    <2> QED BY <2>3, <2>4, <2>7 DEF EnvVars, new
  <1>2. CASE Named(vars, k) # {}
    <2>1. First(vars, k) \in Named(vars, k)
      BY <1>2, Occurrences
    <2>2. First(vars, k) \in 1..Len(vars) /\ vars[First(vars, k)].name = k /\ Len(vars) \in Nat
          /\ DOMAIN vars = 1..Len(vars)
      BY <2>1 DEF Named, EnvVars
    <2> DEFINE f == First(vars, k)
    <2> HIDE DEF f
    <2>3. new = [vars EXCEPT ![f].val = v]
      BY <1>2 DEF Upsert, f
    <2>4. vars \in [1..Len(vars) -> P]
      BY LenProperties, ZenonT(30) DEF EnvVars
    <2>5. DOMAIN new = 1..Len(vars) /\ \A i \in 1..Len(vars) :
               new[i] = IF i = f THEN [vars[i] EXCEPT !.val = v] ELSE vars[i]
      BY <2>2, <2>3
    <2>6. \A i \in 1..Len(vars) : new[i] \in P /\ new[i].name = vars[i].name
      BY <2>4, <2>5
    <2>7. new \in [1..Len(vars) -> P]
      BY <2>3, <2>5, <2>6, ZenonT(30)
    <2>8. new \in Seq(P) /\ new # <<>>
      <3> HIDE DEF P, new
      <3>1. new \in Seq(P) /\ Len(new) = Len(vars)
        BY <2>2, <2>7
      <3> QED BY <2>2, <3>1 DEF f
    <2> HIDE DEF new
    <2>9. ASSUME NEW j, j # k PROVE Named(new, j) = Named(vars, j)
      BY <2>2, <2>5, <2>6 DEF Named
    <2>10. ASSUME NEW j, j # k, NEW i \in Named(vars, j) PROVE new[i] = vars[i]
      BY <2>2, <2>5, <2>10 DEF Named, f
    <2>11. ASSUME NEW j, j # k PROVE Same(new, vars, j)
      BY <2>8, <2>9, <2>10, <2>11, EqualLines, ZenonT(30) DEF EnvVars
    <2> QED BY <2>8, <2>11 DEF EnvVars, new
  <1> QED BY <1>1, <1>2

(***************************************************************************)
(* A name that is set once by Upsert, or replaces its only line, has the   *)
(* new value.                                                              *)
(***************************************************************************)
LEMMA UpsertOwn ==
    ASSUME NEW vars \in EnvVars, NEW k \in Strings, NEW v \in Seq(Strings), Once(vars, k)
    PROVE  /\ ReadEnvironment(Upsert(vars, k, v), k) = v
           /\ Once(Upsert(vars, k, v), k)
  <1> DEFINE new == Upsert(vars, k, v)
  <1>0. new \in EnvVars
    BY UpsertOther, Zenon
  <1>1. ASSUME NEW p, Named(new, k) = {p}, new[p].val = v
        PROVE  ReadEnvironment(new, k) = v /\ Once(new, k)
    <2> HIDE DEF new
    <2>1. Final(new, k) = p
      BY <1>0, <1>1, Occurrences, ZenonT(30)
    <2> QED BY <1>1, <2>1 DEF ReadEnvironment, Once
  <1>2. CASE Named(vars, k) = {}
    <2>1. new = Append(vars, [name |-> k, val |-> v])
      BY <1>2 DEF Upsert
    <2>2. Len(vars) \in Nat /\ DOMAIN vars = 1..Len(vars) /\ DOMAIN new = 1..(Len(vars) + 1)
          /\ new[Len(vars) + 1] = [name |-> k, val |-> v]
          /\ \A i \in 1..Len(vars) : new[i] = vars[i]
      BY <2>1 DEF EnvVars
    <2> HIDE DEF new
    <2>3. Named(new, k) = {Len(vars) + 1}
      BY <1>2, <2>2 DEF Named
    <2> QED BY <1>1, <2>2, <2>3 DEF new
  <1>3. CASE Named(vars, k) # {}
    <2> DEFINE p == First(vars, k)
    <2>1. p \in Named(vars, k)
      BY <1>3, Occurrences
    <2>2. Named(vars, k) = {p}
      BY <2>1, Zenon DEF Once
    <2>3. new = [vars EXCEPT ![p].val = v]
      BY <1>3 DEF Upsert
    <2> HIDE DEF p
    <2>4. p \in DOMAIN vars /\ \A i \in DOMAIN vars : vars[i] \in [name : Strings, val : Seq(Strings)]
      <3>1. vars \in [1..Len(vars) -> [name : Strings, val : Seq(Strings)]]
        BY LenProperties, Zenon DEF EnvVars
      <3> QED BY <2>1, <3>1 DEF Named
    <2>5. DOMAIN new = DOMAIN vars /\ new[p].val = v
          /\ \A i \in DOMAIN vars : new[i].name = vars[i].name
      BY <2>3, <2>4
    <2> HIDE DEF new
    <2>6. Named(new, k) = {p}
      BY <2>2, <2>5 DEF Named
    <2> QED BY <1>1, <2>5, <2>6 DEF new
  <1> QED BY <1>2, <1>3

(***************************************************************************)
(* EnvVars.Delete removes the only line of a name, and changes nothing     *)
(* about any other.                                                        *)
(***************************************************************************)
LEMMA DeleteLine ==
    ASSUME NEW vars \in EnvVars, NEW k \in Strings
    PROVE  /\ Delete(vars, k) \in EnvVars
           /\ \A j : j # k => Same(Delete(vars, k), vars, j)
           /\ Once(vars, k) => Named(Delete(vars, k), k) = {}
  <1> DEFINE new == Delete(vars, k)  P == [name : Strings, val : Seq(Strings)]
  <1>1. CASE Named(vars, k) = {}
    <2>1. new = vars
      BY <1>1 DEF Delete
    <2> QED BY <1>1, <2>1, Zenon DEF Same
  <1>2. CASE Named(vars, k) # {}
    <2> DEFINE p == First(vars, k)  n == Len(vars)
    <2>1. p \in Named(vars, k)
      BY <1>2, Occurrences
    <2>2. n \in Nat /\ p \in 1..n /\ DOMAIN vars = 1..n /\ vars \in Seq(P) /\ vars[p].name = k
      BY <2>1 DEF Named, EnvVars
    <2>3. new = SubSeq(vars, 1, p - 1) \o SubSeq(vars, p + 1, n)
      BY <1>2, Zenon DEF Delete
    <2> HIDE DEF p, n, P, new
    <2>4. /\ SubSeq(vars, 1, p - 1) \in Seq(P) /\ Len(SubSeq(vars, 1, p - 1)) = p - 1
          /\ \A i \in 1..(p - 1) : SubSeq(vars, 1, p - 1)[i] = vars[i]
      BY <2>2
    <2>5. /\ SubSeq(vars, p + 1, n) \in Seq(P) /\ Len(SubSeq(vars, p + 1, n)) = n - p
          /\ \A i \in 1..(n - p) : SubSeq(vars, p + 1, n)[i] = vars[p + i]
      <3>1. vars \in [1..n -> P]
        BY <2>2, LenProperties DEF n
      <3> DEFINE m == p + 1
      <3>2. m \in Int /\ n \in Int /\ \A i \in m..n : vars[i] \in P
        BY <2>2, <3>1
      <3>3. m = p + 1
        OBVIOUS
      <3> HIDE DEF m
      <3>4. /\ SubSeq(vars, m, n) \in Seq(P)
            /\ Len(SubSeq(vars, m, n)) = IF m <= n THEN n - m + 1 ELSE 0
            /\ \A i \in 1..(n - m + 1) : SubSeq(vars, m, n)[i] = vars[m + i - 1]
        BY <3>2, SubSeqProperties
      <3>5. n - m + 1 = n - p /\ (~(m <= n) => n - p = 0) /\ \A i \in 1..(n - p) : m + i - 1 = p + i
        BY <2>2, <3>3
      <3> QED BY <3>3, <3>4, <3>5
    <2>6. /\ new \in Seq(P) /\ DOMAIN new = 1..(n - 1)
          /\ \A i \in 1..(n - 1) : new[i] = IF i < p THEN vars[i] ELSE vars[i + 1]
      <3>1. new \in Seq(P) /\ Len(new) = n - 1
        BY <2>2, <2>3, <2>4, <2>5
      <3>2. DOMAIN new = 1..(n - 1)
        BY <3>1
      <3>3. ASSUME NEW i \in 1..(n - 1), i < p PROVE new[i] = vars[i]
        BY <2>2, <2>3, <2>4, <2>5, <3>3
      <3>4. ASSUME NEW i \in 1..(n - 1), ~(i < p) PROVE new[i] = vars[i + 1]
        <4>1. new[i] = SubSeq(vars, p + 1, n)[i - (p - 1)]
          <5> DEFINE s == SubSeq(vars, 1, p - 1)  t == SubSeq(vars, p + 1, n)
          <5>1. \A x \in 1..(Len(s) + Len(t)) :
                    (s \o t)[x] = IF x <= Len(s) THEN s[x] ELSE t[x - Len(s)]
            BY <2>4, <2>5, ConcatProperties, ZenonT(30)
          <5>2. Len(s) = p - 1 /\ Len(t) = n - p /\ new = s \o t
            BY <2>3, <2>4, <2>5
          <5> HIDE DEF s, t
          <5>3. i \in 1..(Len(s) + Len(t)) /\ ~(i <= Len(s))
            BY <2>2, <3>4, <5>2
          <5>4. new[i] = t[i - Len(s)]
            BY <5>1, <5>2, <5>3
          <5> QED BY <5>2, <5>4, Zenon DEF t
        <4>2. i - (p - 1) \in 1..(n - p) /\ p + (i - (p - 1)) = i + 1
          BY <2>2, <3>4
        <4> QED BY <2>5, <4>1, <4>2
      <3> QED BY <3>1, <3>2, <3>3, <3>4
    <2>7. ASSUME NEW j, j # k PROVE Same(new, vars, j)
      <3> DEFINE f == [i \in Named(new, j) |-> IF i < p THEN i ELSE i + 1]
      <3>1. Named(new, j) \subseteq 1..(n - 1)
        BY <2>6 DEF Named
      <3>2. f \in [Named(new, j) -> Nat]
            /\ \A i \in Named(new, j) : f[i] = IF i < p THEN i ELSE i + 1
        BY <2>2, <3>1
      <3> HIDE DEF f
      <3>3. ASSUME NEW i \in Named(new, j)
            PROVE  f[i] \in Named(vars, j) /\ new[i] = vars[f[i]]
        <4>1. i \in 1..(n - 1) /\ new[i].name = j /\ f[i] \in 1..n /\ new[i] = vars[f[i]]
          BY <2>2, <2>6, <3>1, <3>2 DEF Named
        <4> QED BY <2>2, <4>1 DEF Named
      <3>4. ASSUME NEW m \in Named(vars, j) PROVE \E i \in Named(new, j) : f[i] = m
        <4>1. m \in 1..n /\ vars[m].name = j /\ m # p
          BY <2>2, <2>7 DEF Named
        <4> DEFINE i == IF m < p THEN m ELSE m - 1
        <4>2. i \in 1..(n - 1) /\ new[i] = vars[m]
          BY <2>2, <2>6, <4>1
        <4>3. i \in Named(new, j) /\ (i < p <=> m < p)
          BY <2>2, <2>6, <4>1, <4>2 DEF Named
        <4>4. f[i] = m
          BY <2>2, <3>2, <4>1, <4>3
        <4> QED BY <4>3, <4>4
      <3>5. ASSUME NEW a \in Named(new, j), NEW b \in Named(new, j), a < b PROVE f[a] < f[b]
        <4>1. a \in Nat /\ b \in Nat /\ p \in Nat
          BY <2>2, <3>1
        <4> QED BY <3>2, <3>5, <4>1
      <3>6. new \in EnvVars
        BY <2>6 DEF EnvVars, P
      <3> QED BY <3>2, <3>3, <3>4, <3>5, <3>6, SameLines
    <2>8. ASSUME Once(vars, k) PROVE Named(new, k) = {}
      <3> SUFFICES ASSUME NEW i \in Named(new, k) PROVE FALSE
        OBVIOUS
      <3>1. i \in 1..(n - 1) /\ new[i].name = k
        BY <2>6 DEF Named
      <3> DEFINE m == IF i < p THEN i ELSE i + 1
      <3>2. m \in 1..n /\ m # p /\ vars[m].name = k
        BY <2>2, <2>6, <3>1
      <3>3. m \in Named(vars, k)
        BY <2>2, <3>2 DEF Named
      <3> QED BY <2>1, <2>8, <3>2, <3>3 DEF Once
    <2> QED BY <2>6, <2>7, <2>8 DEF EnvVars, P, new
  <1> QED BY <1>1, <1>2

(***************************************************************************)
(* The value of a variable is a sequence of words.                         *)
(***************************************************************************)
LEMMA GetType == ASSUME NEW vars \in EnvVars, NEW k PROVE Get(vars, k) \in Seq(Strings)
  <1>1. vars \in [1..Len(vars) -> [name : Strings, val : Seq(Strings)]]
    BY LenProperties, Zenon DEF EnvVars
  <1>2. CASE Named(vars, k) = {}
    BY <1>2 DEF Get
  <1>3. CASE Named(vars, k) # {}
    <2>1. First(vars, k) \in Named(vars, k)
      BY <1>3, Occurrences, Zenon
    <2>2. First(vars, k) \in 1..Len(vars)
      BY <1>1, <2>1 DEF Named
    <2>3. vars[First(vars, k)].val \in Seq(Strings)
      BY <1>1, <2>2
    <2> QED BY <1>3, <2>3 DEF Get
  <1> QED BY <1>2, <1>3

(***************************************************************************)
(* Telling the same is an equivalence that can be followed step by step.   *)
(***************************************************************************)
LEMMA SameTrans ==
    ASSUME NEW a, NEW b, NEW c, NEW k, Same(a, b, k), Same(b, c, k) PROVE Same(a, c, k)
  BY Zenon DEF Same

\* Every name occurs at most once.
Unrepeated(vars) == vars \in EnvVars /\ \A k : Once(vars, k)

(***************************************************************************)
(* In a list without repetitions Upsert sets one variable.                 *)
(***************************************************************************)
LEMMA UpsertSets ==
    ASSUME NEW vars, Unrepeated(vars), NEW k \in Strings, NEW v \in Seq(Strings)
    PROVE  /\ Unrepeated(Upsert(vars, k, v)) /\ Upsert(vars, k, v) # <<>>
           /\ ReadEnvironment(Upsert(vars, k, v), k) = v
           /\ \A j : j # k => ReadEnvironment(Upsert(vars, k, v), j) = ReadEnvironment(vars, j)
  <1> DEFINE new == Upsert(vars, k, v)
  <1>1. vars \in EnvVars /\ \A j : Once(vars, j)
    BY DEF Unrepeated
  <1>2. new \in EnvVars /\ new # <<>> /\ \A j : j # k => Same(new, vars, j)
    BY <1>1, UpsertOther
  <1>3. ReadEnvironment(new, k) = v /\ Once(new, k)
    BY <1>1, UpsertOwn, Zenon
  <1> HIDE DEF new
  <1>4. \A j : Once(new, j)
    BY <1>1, <1>2, <1>3, Zenon DEF Same
  <1>5. \A j : j # k => ReadEnvironment(new, j) = ReadEnvironment(vars, j)
    BY <1>2, Zenon DEF Same
  <1> QED BY <1>2, <1>3, <1>4, <1>5 DEF Unrepeated, new

(***************************************************************************)
(* The options of the environment are among those strings.                 *)
(***************************************************************************)
LEMMA FlagTypes ==
    ASSUME NEW c \in Flags
    PROVE  /\ c.env \in EnvVars
           /\ {c.etcdProxy, c.role, c.cloud, c.backend} \subseteq Strings /\ c.btrfs \in BOOLEAN
           /\ c.dockerOptions \in Seq(Strings) /\ c.kubeletOptions \in Seq(Strings)
  <1> DEFINE P == [name : STRING, val : Seq(STRING)]  Q == [name : Strings, val : Seq(Strings)]
  <1>1. /\ c.env \in Seq(P) /\ {c.etcdProxy, c.role, c.cloud, c.backend} \subseteq STRING
        /\ c.btrfs \in BOOLEAN /\ c.dockerOptions \in Seq(STRING) /\ c.kubeletOptions \in Seq(STRING)
    BY StartAssumption DEF Config
  <1>2. STRING \subseteq Strings
    BY Zenon DEF Strings
  <1>3. Seq(STRING) \subseteq Seq(Strings)
    BY <1>2, SeqMonotonic, ZenonT(30)
  <1>4. P \subseteq Q
    BY <1>2, <1>3, Zenon
  <1> HIDE DEF P
  <1>5. c.env \in Seq(Q)
    BY <1>1, <1>4, SeqMonotonic, ZenonT(30)
  <1> QED BY <1>1, <1>2, <1>3, <1>5, Zenon DEF EnvVars

OwnNames == {"PLANET_ETCD_PROXY", "PLANET_ROLE", "KUBE_CLOUD_PROVIDER"}

(***************************************************************************)
(* The pairs that planet appends to the user's are the last of their       *)
(* names, and say nothing of any other.                                    *)
(***************************************************************************)
LEMMA OwnAppended ==
    ASSUME NEW c \in Flags
    PROVE  /\ c.env \o ownPairs(c) \in EnvVars
           /\ \A i \in DOMAIN ownPairs(c) :
                 ReadEnvironment(c.env \o ownPairs(c), ownPairs(c)[i].name) = ownPairs(c)[i].val
           /\ \A k : k \notin OwnNames => Same(c.env \o ownPairs(c), c.env, k)
  <1> DEFINE P == [name : Strings, val : Seq(Strings)]
             o == ownPairs(c)  e == c.env \o o  n == Len(c.env)
  <1>1. c.env \in Seq(P) /\ c.etcdProxy \in Strings /\ c.role \in Strings /\ c.cloud \in Strings
    BY FlagTypes, ZenonT(30) DEF EnvVars
  <1>2. /\ o \in Seq(P) /\ Len(o) = 3 /\ DOMAIN o = {1, 2, 3}
        /\ o[1].name = "PLANET_ETCD_PROXY" /\ o[2].name = "PLANET_ROLE"
        /\ o[3].name = "KUBE_CLOUD_PROVIDER"
    <2> DEFINE a == [name |-> "PLANET_ETCD_PROXY", val |-> <<c.etcdProxy>>]
               b == [name |-> "PLANET_ROLE", val |-> <<c.role>>]
               d == [name |-> "KUBE_CLOUD_PROVIDER", val |-> <<c.cloud>>]
    <2>1. o = <<a, b, d>>
      BY DEF ownPairs
    <2>2. <<c.etcdProxy>> \in Seq(Strings) /\ <<c.role>> \in Seq(Strings) /\ <<c.cloud>> \in Seq(Strings)
      BY <1>1
    <2>3. a \in P /\ b \in P /\ d \in P
      <3>1. \A k \in Strings, v \in Seq(Strings) : [name |-> k, val |-> v] \in P
        OBVIOUS
      <3>2. {"PLANET_ETCD_PROXY", "PLANET_ROLE", "KUBE_CLOUD_PROVIDER"} \subseteq Strings
        BY DEF Strings, Literals
      <3> HIDE DEF P
      <3> QED BY <2>2, <3>1, <3>2, Zenon
    <2>4. a.name = "PLANET_ETCD_PROXY" /\ b.name = "PLANET_ROLE" /\ d.name = "KUBE_CLOUD_PROVIDER"
      OBVIOUS
    <2> HIDE DEF a, b, d, P, o
    <2> QED BY <2>1, <2>3, <2>4
  <1>3. n \in Nat /\ DOMAIN c.env = 1..n
    BY <1>1
  <1> HIDE DEF P, o
  <1>4. /\ e \in Seq(P) /\ Len(e) = n + 3
        /\ \A i \in 1..(n + 3) : e[i] = IF i <= n THEN c.env[i] ELSE o[i - n]
    <2> DEFINE u == c.env
    <2>1. u \in Seq(P) /\ o \in Seq(P)
      BY <1>1, <1>2
    <2> HIDE DEF u
    <2>2. /\ u \o o \in Seq(P) /\ Len(u \o o) = Len(u) + Len(o)
          /\ \A i \in 1..(Len(u) + Len(o)) :
                 (u \o o)[i] = IF i <= Len(u) THEN u[i] ELSE o[i - Len(u)]
      BY <2>1, ConcatProperties
    <2> QED BY <1>2, <2>2 DEF u
  <1> HIDE DEF n
  <1>5. DOMAIN e = 1..(n + 3)
    BY <1>4
  <1> HIDE DEF e
  <1>6. e \in EnvVars /\ c.env \in EnvVars
    BY <1>1, <1>4 DEF EnvVars, P
  <1>7. \A i \in {1, 2, 3} : e[n + i] = o[i]
    BY <1>2, <1>3, <1>4
  <1>8. ASSUME NEW i \in {1, 2, 3} PROVE ReadEnvironment(e, o[i].name) = o[i].val
    <2> DEFINE k == o[i].name  f == Final(e, k)
    <2>1. n + i \in Named(e, k)
      BY <1>3, <1>5, <1>7 DEF Named
    <2>2. f \in Named(e, k) /\ n + i <= f
      BY <1>6, <2>1, Occurrences
    <2>3. f \in 1..(n + 3) /\ e[f].name = k
      BY <1>5, <2>2 DEF Named
    <2> HIDE DEF f
    <2>4. f - n \in {1, 2, 3} /\ o[f - n].name = o[i].name
      BY <1>3, <1>4, <2>2, <2>3
    <2>5. f = n + i
      BY <1>2, <1>3, <2>3, <2>4
    <2> QED BY <1>7, <2>1, <2>5 DEF ReadEnvironment, f
  <1>9. ASSUME NEW k, k \notin OwnNames PROVE Same(e, c.env, k)
    <2>1. Named(e, k) = Named(c.env, k)
      <3>1. \A i \in 1..(n + 3) : i \in 1..n \/ (i - n) \in {1, 2, 3}
        BY <1>3
      <3>2. \A i \in {1, 2, 3} : o[i].name \in OwnNames
        BY <1>2 DEF OwnNames
      <3> QED BY <1>3, <1>4, <1>5, <1>9, <3>1, <3>2 DEF Named
    <2>2. \A i \in Named(c.env, k) : e[i] = c.env[i]
      BY <1>3, <1>4 DEF Named
    <2> QED BY <1>6, <2>1, <2>2, EqualLines
  <1> QED BY <1>2, <1>6, <1>8, <1>9 DEF e, o

ProxyNames == ProxyVariables \cup ProxyExceptions

(***************************************************************************)
(* EnvVars.Delete leaves the values of all other names.                    *)
(***************************************************************************)
LEMMA DeleteValues ==
    ASSUME NEW vars \in EnvVars, NEW k \in Strings
    PROVE  Delete(vars, k) \in EnvVars /\ \A j : j # k => Get(Delete(vars, k), j) = Get(vars, j)
  <1>1. Delete(vars, k) \in EnvVars /\ \A j : j # k => Same(Delete(vars, k), vars, j)
    BY DeleteLine, Zenon
  <1> QED BY <1>1, Zenon DEF Same

(***************************************************************************)
(* One round of configureProxy takes a name out of the environment and     *)
(* leaves what is said of all others.                                      *)
(***************************************************************************)
LEMMA Moves ==
    ASSUME NEW e, e.env \in EnvVars, NEW k \in Strings, NEW r,
           r \in {MoveExceptions(e, k), MoveProxy(e, k)}
    PROVE  /\ r.env \in EnvVars
           /\ \A j : j # k => Same(r.env, e.env, j)
           /\ Once(e.env, k) => Named(r.env, k) = {}
  <1>1. r.env = Delete(e.env, k)
    BY DEF MoveExceptions, MoveProxy
  <1> QED BY <1>1, DeleteLine, Zenon

(***************************************************************************)
(* configureProxy: the environment loses the user's proxy settings and     *)
(* nothing else.                                                           *)
(***************************************************************************)
LEMMA Separated ==
    ASSUME NEW env \in EnvVars
    PROVE  /\ configureProxy(env).env \in EnvVars
           /\ \A j : j \notin ProxyNames => Same(configureProxy(env).env, env, j)
           /\ \A j \in ProxyNames : Once(env, j) => Named(configureProxy(env).env, j) = {}
  <1> DEFINE e0 == [env |-> env, proxyEnv |-> <<>>]
             e1 == MoveExceptions(e0, "NO_PROXY")
             e2 == MoveExceptions(e1, "no_proxy")
             e3 == MoveProxy(e2, "HTTP_PROXY")
             e4 == MoveProxy(e3, "http_proxy")
             e5 == MoveProxy(e4, "HTTPS_PROXY")
             e6 == MoveProxy(e5, "https_proxy")
  <1>1. configureProxy(env).env = e6.env
    <2>1. e6 = [env |-> e6.env, proxyEnv |-> e6.proxyEnv]
      BY Zenon DEF MoveProxy
    <2>2. \/ configureProxy(env) = e6
          \/ configureProxy(env) = [e6 EXCEPT !.proxyEnv = Upsert(e6.proxyEnv, "NO_PROXY", StaticNoProxyRules)]
      BY Zenon DEF configureProxy
    <2> HIDE DEF e6
    <2> QED BY <2>1, <2>2
  <1>2. e0.env = env
    OBVIOUS
  <1> HIDE DEF e0, e1, e2, e3, e4, e5, e6
  <1> ProxyNames \subseteq Strings /\ {"NO_PROXY", "no_proxy", "HTTP_PROXY", "http_proxy",
                                       "HTTPS_PROXY", "https_proxy"} \subseteq Strings
    BY DEF ProxyNames, ProxyVariables, ProxyExceptions, Strings, Literals
  <1>3. /\ e1.env \in EnvVars /\ \A j : j # "NO_PROXY" => Same(e1.env, e0.env, j)
        /\ Once(e0.env, "NO_PROXY") => Named(e1.env, "NO_PROXY") = {}
    BY <1>2, Moves, Zenon DEF e1
  <1>4. /\ e2.env \in EnvVars /\ \A j : j # "no_proxy" => Same(e2.env, e1.env, j)
        /\ Once(e1.env, "no_proxy") => Named(e2.env, "no_proxy") = {}
    BY <1>3, Moves, Zenon DEF e2
  <1>5. /\ e3.env \in EnvVars /\ \A j : j # "HTTP_PROXY" => Same(e3.env, e2.env, j)
        /\ Once(e2.env, "HTTP_PROXY") => Named(e3.env, "HTTP_PROXY") = {}
    BY <1>4, Moves, Zenon DEF e3
  <1>6. /\ e4.env \in EnvVars /\ \A j : j # "http_proxy" => Same(e4.env, e3.env, j)
        /\ Once(e3.env, "http_proxy") => Named(e4.env, "http_proxy") = {}
    BY <1>5, Moves, Zenon DEF e4
  <1>7. /\ e5.env \in EnvVars /\ \A j : j # "HTTPS_PROXY" => Same(e5.env, e4.env, j)
        /\ Once(e4.env, "HTTPS_PROXY") => Named(e5.env, "HTTPS_PROXY") = {}
    BY <1>6, Moves, Zenon DEF e5
  <1>8. /\ e6.env \in EnvVars /\ \A j : j # "https_proxy" => Same(e6.env, e5.env, j)
        /\ Once(e5.env, "https_proxy") => Named(e6.env, "https_proxy") = {}
    BY <1>7, Moves, Zenon DEF e6
  <1> USE DEF ProxyNames, ProxyVariables, ProxyExceptions
  <1>9. ASSUME NEW j, j \notin ProxyNames PROVE Same(e6.env, env, j)
    <2>1. Same(e2.env, env, j)
      BY <1>2, <1>3, <1>4, <1>9, SameTrans
    <2>2. Same(e4.env, env, j)
      BY <1>5, <1>6, <1>9, <2>1, SameTrans
    <2> QED BY <1>7, <1>8, <1>9, <2>2, SameTrans
  <1>10. ASSUME NEW j \in ProxyNames, Once(env, j) PROVE Named(e6.env, j) = {}
    <2>1. /\ j # "NO_PROXY" => Once(e1.env, j)
          /\ j = "NO_PROXY" => Named(e1.env, j) = {}
      BY <1>2, <1>3, <1>10 DEF Same
    <2>2. /\ j \notin {"NO_PROXY", "no_proxy"} => Once(e2.env, j)
          /\ j \in {"NO_PROXY", "no_proxy"} => Named(e2.env, j) = {}
      BY <1>4, <2>1 DEF Same
    <2>3. /\ j \notin {"NO_PROXY", "no_proxy", "HTTP_PROXY"} => Once(e3.env, j)
          /\ j \in {"NO_PROXY", "no_proxy", "HTTP_PROXY"} => Named(e3.env, j) = {}
      BY <1>5, <2>2 DEF Same
    <2>4. /\ j \notin {"NO_PROXY", "no_proxy", "HTTP_PROXY", "http_proxy"} => Once(e4.env, j)
          /\ j \in {"NO_PROXY", "no_proxy", "HTTP_PROXY", "http_proxy"} => Named(e4.env, j) = {}
      BY <1>6, <2>3 DEF Same
    <2>5. /\ j = "https_proxy" => Once(e5.env, j)
          /\ j # "https_proxy" => Named(e5.env, j) = {}
      BY <1>7, <1>10, <2>4 DEF Same
    <2> QED BY <1>8, <2>5 DEF Same
  <1> QED BY <1>1, <1>8, <1>9, <1>10

(***************************************************************************)
(* configureProxy: the user's proxies are in the other list as they were   *)
(* given, the exceptions with the static rules before them, and there is   *)
(* always one list of exceptions with those rules.  No name is there       *)
(* twice.                                                                  *)
(***************************************************************************)
LEMMA Apart ==
    ASSUME NEW env \in EnvVars
    PROVE  LET apart(k) == ReadEnvironment(configureProxy(env).proxyEnv, k)
           IN /\ Unrepeated(configureProxy(env).proxyEnv)
              /\ \A k \in ProxyVariables : apart(k) = Get(env, k)
              /\ \A k \in ProxyExceptions : \E rules \in {<<>>, StaticNoProxyRules} :
                     apart(k) = rules \o Get(env, k)
              /\ \E k \in ProxyExceptions : apart(k) = StaticNoProxyRules \o Get(env, k)
  <1> DEFINE R == StaticNoProxyRules
             e0 == [env |-> env, proxyEnv |-> <<>>]
             e1 == MoveExceptions(e0, "NO_PROXY")
             e2 == MoveExceptions(e1, "no_proxy")
             e3 == MoveProxy(e2, "HTTP_PROXY")
             e4 == MoveProxy(e3, "http_proxy")
             e5 == MoveProxy(e4, "HTTPS_PROXY")
             e6 == MoveProxy(e5, "https_proxy")
             p == configureProxy(env).proxyEnv
             a == Get(env, "NO_PROXY")
             b == Get(env, "no_proxy")
  <1>1. /\ e2.proxyEnv # <<>> => p = e6.proxyEnv
        /\ e2.proxyEnv = <<>> => p = Upsert(e6.proxyEnv, "NO_PROXY", R)
    <2>1. e6 = [env |-> e6.env, proxyEnv |-> e6.proxyEnv]
      BY Zenon DEF MoveProxy
    <2>2. /\ e2.proxyEnv # <<>> => configureProxy(env) = e6
          /\ e2.proxyEnv = <<>> => configureProxy(env)
                = [e6 EXCEPT !.proxyEnv = Upsert(e6.proxyEnv, "NO_PROXY", R)]
      BY Zenon DEF configureProxy
    <2> HIDE DEF e6, e2
    <2> QED BY <2>1, <2>2
  <1>2. e0.env = env /\ e0.proxyEnv = <<>>
    OBVIOUS
  <1>3. /\ e1.env = Delete(e0.env, "NO_PROXY") /\ e2.env = Delete(e1.env, "no_proxy")
        /\ e3.env = Delete(e2.env, "HTTP_PROXY") /\ e4.env = Delete(e3.env, "http_proxy")
        /\ e5.env = Delete(e4.env, "HTTPS_PROXY")
    BY Zenon DEF MoveExceptions, MoveProxy
  <1>4. /\ e1.proxyEnv = IF Get(e0.env, "NO_PROXY") = <<>> THEN e0.proxyEnv
                         ELSE Upsert(e0.proxyEnv, "NO_PROXY", R \o Get(e0.env, "NO_PROXY"))
        /\ e2.proxyEnv = IF Get(e1.env, "no_proxy") = <<>> THEN e1.proxyEnv
                         ELSE Upsert(e1.proxyEnv, "no_proxy", R \o Get(e1.env, "no_proxy"))
    BY Zenon DEF MoveExceptions
  <1>5. /\ e3.proxyEnv = Upsert(e2.proxyEnv, "HTTP_PROXY", Get(e2.env, "HTTP_PROXY"))
        /\ e4.proxyEnv = Upsert(e3.proxyEnv, "http_proxy", Get(e3.env, "http_proxy"))
        /\ e5.proxyEnv = Upsert(e4.proxyEnv, "HTTPS_PROXY", Get(e4.env, "HTTPS_PROXY"))
        /\ e6.proxyEnv = Upsert(e5.proxyEnv, "https_proxy", Get(e5.env, "https_proxy"))
    BY Zenon DEF MoveProxy
  <1> HIDE DEF e0, e1, e2, e3, e4, e5, e6
  <1>6. {"NO_PROXY", "no_proxy", "HTTP_PROXY", "http_proxy", "HTTPS_PROXY", "https_proxy"}
            \subseteq Strings
    BY DEF Strings, Literals
  \* What is still to be moved is as the user gave it.
  <1>7. /\ e1.env \in EnvVars /\ \A j : j # "NO_PROXY" => Get(e1.env, j) = Get(env, j)
    BY <1>2, <1>3, <1>6, DeleteValues
  <1>8. /\ e2.env \in EnvVars
        /\ \A j : j \notin {"NO_PROXY", "no_proxy"} => Get(e2.env, j) = Get(env, j)
    <2>1. e2.env \in EnvVars /\ \A j : j # "no_proxy" => Get(e2.env, j) = Get(e1.env, j)
      BY <1>3, <1>6, <1>7, DeleteValues
    <2> QED BY <1>7, <2>1, Zenon
  <1>9. /\ e3.env \in EnvVars
        /\ \A j : j \notin {"NO_PROXY", "no_proxy", "HTTP_PROXY"} => Get(e3.env, j) = Get(env, j)
    <2>1. e3.env \in EnvVars /\ \A j : j # "HTTP_PROXY" => Get(e3.env, j) = Get(e2.env, j)
      BY <1>3, <1>6, <1>8, DeleteValues
    <2> QED BY <1>8, <2>1, Zenon
  <1>10. /\ e4.env \in EnvVars
         /\ \A j : j \notin {"NO_PROXY", "no_proxy", "HTTP_PROXY", "http_proxy"}
                       => Get(e4.env, j) = Get(env, j)
    <2>1. e4.env \in EnvVars /\ \A j : j # "http_proxy" => Get(e4.env, j) = Get(e3.env, j)
      BY <1>3, <1>6, <1>9, DeleteValues
    <2> QED BY <1>9, <2>1, Zenon
  <1>11. /\ e5.env \in EnvVars /\ Get(e5.env, "https_proxy") = Get(env, "https_proxy")
    <2>1. e5.env \in EnvVars /\ Get(e5.env, "https_proxy") = Get(e4.env, "https_proxy")
      BY <1>3, <1>6, <1>10, DeleteValues
    <2> QED BY <1>10, <2>1
  <1>12. \A k : Get(env, k) \in Seq(Strings)
    BY GetType
  <1>13. R \in Seq(Strings) /\ \A v \in Seq(Strings) : R \o v \in Seq(Strings)
    <2>1. R \in Seq(Strings)
      <3>1. "0.0.0.0/0" \in Strings /\ ".local" \in Strings
        BY DEF Strings, Literals
      <3> QED BY <3>1 DEF StaticNoProxyRules
    <2> HIDE DEF R
    <2> QED BY <2>1, ConcatProperties
  <1> DEFINE Read(q, k) == ReadEnvironment(q, k)
  \* The list, name by name.
  <1>14. Unrepeated(<<>>) /\ \A k : Read(<<>>, k) = <<>>
    BY DEF Unrepeated, EnvVars, Once, Named, ReadEnvironment
  <1> HIDE DEF R, a, b, p
  <1>15. /\ Unrepeated(e1.proxyEnv) /\ (e1.proxyEnv = <<>> <=> a = <<>>)
         /\ Read(e1.proxyEnv, "NO_PROXY") = IF a = <<>> THEN <<>> ELSE R \o a
         /\ \A j : j # "NO_PROXY" => Read(e1.proxyEnv, j) = <<>>
    <2>1. CASE a = <<>>
      BY <1>2, <1>4, <1>14, <2>1 DEF a
    <2>2. CASE a # <<>>
      <3> DEFINE v == R \o a
      <3>1. e1.proxyEnv = Upsert(<<>>, "NO_PROXY", v) /\ v \in Seq(Strings) /\ "NO_PROXY" \in Strings
        BY <1>2, <1>4, <1>6, <1>12, <1>13, <2>2 DEF a
      <3> HIDE DEF v
      <3>2. /\ Unrepeated(e1.proxyEnv) /\ e1.proxyEnv # <<>> /\ Read(e1.proxyEnv, "NO_PROXY") = v
            /\ \A j : j # "NO_PROXY" => Read(e1.proxyEnv, j) = Read(<<>>, j)
        BY <1>14, <3>1, UpsertSets
      <3> QED BY <1>14, <2>2, <3>2, Zenon DEF v
    <2> QED BY <2>1, <2>2
  <1>16. /\ Unrepeated(e2.proxyEnv) /\ (e2.proxyEnv = <<>> <=> a = <<>> /\ b = <<>>)
         /\ Read(e2.proxyEnv, "NO_PROXY") = IF a = <<>> THEN <<>> ELSE R \o a
         /\ Read(e2.proxyEnv, "no_proxy") = IF b = <<>> THEN <<>> ELSE R \o b
    <2>0. Get(e1.env, "no_proxy") = b
      BY <1>7 DEF b
    <2>1. CASE b = <<>>
      BY <1>4, <1>15, <2>0, <2>1
    <2>2. CASE b # <<>>
      <3> DEFINE v == R \o b
      <3>1. e2.proxyEnv = Upsert(e1.proxyEnv, "no_proxy", v) /\ v \in Seq(Strings) /\ "no_proxy" \in Strings
        BY <1>4, <1>6, <1>12, <1>13, <2>0, <2>2 DEF b
      <3> HIDE DEF v
      <3>2. /\ Unrepeated(e2.proxyEnv) /\ e2.proxyEnv # <<>> /\ Read(e2.proxyEnv, "no_proxy") = v
            /\ Read(e2.proxyEnv, "NO_PROXY") = Read(e1.proxyEnv, "NO_PROXY")
        BY <1>15, <3>1, UpsertSets
      <3> QED BY <1>15, <2>2, <3>2, Zenon DEF v
    <2> QED BY <2>1, <2>2
  <1>17. /\ Unrepeated(e3.proxyEnv) /\ Read(e3.proxyEnv, "HTTP_PROXY") = Get(env, "HTTP_PROXY")
         /\ \A j : j # "HTTP_PROXY" => Read(e3.proxyEnv, j) = Read(e2.proxyEnv, j)
    BY <1>5, <1>6, <1>8, <1>12, <1>16, UpsertSets, SMTT(60)
  <1>18. /\ Unrepeated(e4.proxyEnv) /\ Read(e4.proxyEnv, "http_proxy") = Get(env, "http_proxy")
         /\ \A j : j # "http_proxy" => Read(e4.proxyEnv, j) = Read(e3.proxyEnv, j)
    BY <1>5, <1>6, <1>9, <1>12, <1>17, UpsertSets, SMTT(20)
  <1>19. /\ Unrepeated(e5.proxyEnv) /\ Read(e5.proxyEnv, "HTTPS_PROXY") = Get(env, "HTTPS_PROXY")
         /\ \A j : j # "HTTPS_PROXY" => Read(e5.proxyEnv, j) = Read(e4.proxyEnv, j)
    BY <1>5, <1>6, <1>10, <1>12, <1>18, UpsertSets, SMTT(20)
  <1>20. /\ Unrepeated(e6.proxyEnv) /\ Read(e6.proxyEnv, "https_proxy") = Get(env, "https_proxy")
         /\ \A j : j # "https_proxy" => Read(e6.proxyEnv, j) = Read(e5.proxyEnv, j)
    BY <1>5, <1>6, <1>11, <1>12, <1>19, UpsertSets, SMTT(20)
  <1> HIDE DEF Read
  <1>21. /\ \A k \in ProxyVariables : Read(e6.proxyEnv, k) = Get(env, k)
         /\ Read(e6.proxyEnv, "NO_PROXY") = IF a = <<>> THEN <<>> ELSE R \o a
         /\ Read(e6.proxyEnv, "no_proxy") = IF b = <<>> THEN <<>> ELSE R \o b
    BY <1>16, <1>17, <1>18, <1>19, <1>20 DEF ProxyVariables
  <1>22. /\ \A k \in ProxyVariables : Read(p, k) = Get(env, k)
         /\ Read(p, "NO_PROXY") = IF a # <<>> THEN R \o a ELSE IF b = <<>> THEN R ELSE <<>>
         /\ Read(p, "no_proxy") = IF b = <<>> THEN <<>> ELSE R \o b
    <2>1. CASE a = <<>> /\ b = <<>>
      <3>1. p = Upsert(e6.proxyEnv, "NO_PROXY", R)
        BY <1>1, <1>16, <2>1
      <3>2. Read(p, "NO_PROXY") = R /\ \A j : j # "NO_PROXY" => Read(p, j) = Read(e6.proxyEnv, j)
        BY <1>6, <1>13, <1>20, <3>1, UpsertSets DEF Read
      <3>3. "NO_PROXY" \notin ProxyVariables
        BY DEF ProxyVariables
      <3> QED BY <1>21, <2>1, <3>2, <3>3
    <2>2. CASE ~(a = <<>> /\ b = <<>>)
      BY <1>1, <1>16, <1>21, <2>2, Zenon
    <2> QED BY <2>1, <2>2
  <1>23. <<>> \o <<>> = <<>> /\ R \o <<>> = R
    BY <1>13, ConcatEmptySeq, EmptySeq
  <1>24. ASSUME NEW k \in ProxyExceptions
         PROVE  \E rules \in {<<>>, R} : Read(p, k) = rules \o Get(env, k)
    BY <1>22, <1>23, Zenon DEF ProxyExceptions, a, b
  <1>25. \E k \in ProxyExceptions : Read(p, k) = R \o Get(env, k)
    <2>1. CASE b # <<>>
      BY <1>22, <2>1 DEF ProxyExceptions, b
    <2>2. CASE b = <<>>
      BY <1>22, <1>23, <2>2, Zenon DEF ProxyExceptions, a
    <2> QED BY <2>1, <2>2
  <1>26. Unrepeated(p)
    BY <1>1, <1>6, <1>13, <1>20, UpsertSets
  <1> QED BY <1>22, <1>24, <1>25, <1>26 DEF Read, p, R

(***************************************************************************)
(* enterEnvironment takes the variables of the proxy one after the other.  *)
(***************************************************************************)
LEMMA OneByOne ==
    ASSUME NEW env, NEW q \in EnvVars
    PROVE  \E g : /\ enterEnvironment(env, q) = g[Len(q)] /\ g[0] = env
                  /\ \A i \in 1..Len(q) : g[i] = Joined(g[i - 1], q[i])
  <1> DEFINE F(g, n) == [i \in 0..n |-> IF i = 0 THEN env ELSE Joined(g[i - 1], q[i])]
             T == {n \in Nat : ~\E g : g = F(g, n)}
  <1>1. T = {}
    <2> SUFFICES ASSUME T # {} PROVE FALSE
      OBVIOUS
    <2>1. PICK m \in T : \A n \in T : m <= n
      BY Least, Zenon
    <2>2. m \in Nat /\ ~\E g : g = F(g, m)
      OBVIOUS
    <2>3. CASE m = 0
      <3> DEFINE g == [i \in 0..0 |-> env]
      <3>1. F(g, 0) = g
        OBVIOUS
      <3> QED BY <2>2, <2>3, <3>1, Zenon
    <2>4. CASE m # 0
      <3>1. m - 1 \in Nat /\ ~(m <= m - 1)
        BY <2>2, <2>4
      <3>2. PICK g : g = F(g, m - 1)
        BY <2>1, <3>1
      <3> DEFINE h == [i \in 0..m |-> IF i = m THEN Joined(g[m - 1], q[m]) ELSE g[i]]
      <3>3. ASSUME NEW i \in 0..m PROVE h[i] = F(h, m)[i]
        <4>1. CASE i = 0
          BY <2>2, <2>4, <3>2, <4>1
        <4>2. CASE i # 0
          <5>1. i - 1 \in 0..(m - 1) /\ i - 1 \in 0..m /\ i - 1 # m
            BY <2>2, <4>2
          <5>2. h[i - 1] = g[i - 1] /\ F(h, m)[i] = Joined(h[i - 1], q[i])
            BY <4>2, <5>1
          <5>3. h[i] = Joined(g[i - 1], q[i])
            <6>1. CASE i = m
              BY <6>1
            <6>2. CASE i # m
              <7>1. i \in 0..(m - 1) /\ h[i] = g[i]
                BY <2>2, <6>2
              <7>2. F(g, m - 1)[i] = Joined(g[i - 1], q[i])
                BY <4>2, <7>1
              <7> QED BY <3>2, <7>1, <7>2
            <6> QED BY <6>1, <6>2
          <5> QED BY <5>2, <5>3
        <4> QED BY <4>1, <4>2
      <3>4. h = F(h, m)
        BY <3>3, Zenon
      <3> QED BY <2>2, <3>4, Zenon
    <2> QED BY <2>3, <2>4
  <1> DEFINE g == CHOOSE f : f = F(f, Len(q))
  <1>2. Len(q) \in Nat
    BY LenProperties DEF EnvVars
  <1>3. g = F(g, Len(q))
    BY <1>1, <1>2, Zenon
  <1>4. enterEnvironment(env, q) = g[Len(q)]
    BY Zenon DEF enterEnvironment
  <1> HIDE DEF g
  <1>5. g[0] = env
    BY <1>2, <1>3
  <1>6. ASSUME NEW i \in 1..Len(q) PROVE g[i] = Joined(g[i - 1], q[i])
    BY <1>2, <1>3
  <1> QED BY <1>4, <1>5, <1>6

(***************************************************************************)
(* In a list without repetitions the first line of a name is the last.     *)
(***************************************************************************)
LEMMA OneLine ==
    ASSUME NEW vars, Unrepeated(vars), NEW k
    PROVE  /\ Get(vars, k) = ReadEnvironment(vars, k)
           /\ \A i \in DOMAIN vars : vars[i].name = k => ReadEnvironment(vars, k) = vars[i].val
  <1>1. vars \in EnvVars /\ Once(vars, k)
    BY DEF Unrepeated
  <1>2. CASE Named(vars, k) = {}
    BY <1>2 DEF Get, ReadEnvironment, Named
  <1>3. CASE Named(vars, k) # {}
    <2>1. First(vars, k) \in Named(vars, k) /\ Final(vars, k) \in Named(vars, k)
      BY <1>1, <1>3, Occurrences, Zenon
    <2>2. First(vars, k) = Final(vars, k)
      BY <1>1, <2>1, Zenon DEF Once
    <2>3. ASSUME NEW i \in DOMAIN vars, vars[i].name = k PROVE i = Final(vars, k)
      <3>1. i \in Named(vars, k)
        BY <2>3 DEF Named
      <3> QED BY <1>1, <2>1, <3>1, Zenon DEF Once
    <2> QED BY <1>3, <2>2, <2>3, Zenon DEF Get, ReadEnvironment
  <1> QED BY <1>2, <1>3

(***************************************************************************)
(* A variable of the proxy is set where there is none.                     *)
(***************************************************************************)
LEMMA JoinedSets ==
    ASSUME NEW vars, Unrepeated(vars), NEW pair \in [name : Strings, val : Seq(Strings)], NEW k
    PROVE  /\ Unrepeated(Joined(vars, pair))
           /\ pair.name = k /\ ReadEnvironment(vars, k) = <<>>
                  => ReadEnvironment(Joined(vars, pair), k) = pair.val
           /\ ~(pair.name = k /\ ReadEnvironment(vars, k) = <<>>)
                  => ReadEnvironment(Joined(vars, pair), k) = ReadEnvironment(vars, k)
  <1> DEFINE n == pair.name  v == pair.val
  <1>1. n \in Strings /\ v \in Seq(Strings) /\ Get(vars, n) = ReadEnvironment(vars, n)
    BY OneLine
  <1>2. Joined(vars, pair) = IF Get(vars, n) = <<>> THEN Upsert(vars, n, v) ELSE vars
    BY Zenon DEF Joined
  <1> HIDE DEF n, v
  <1>3. /\ Unrepeated(Upsert(vars, n, v)) /\ ReadEnvironment(Upsert(vars, n, v), n) = v
        /\ \A j : j # n => ReadEnvironment(Upsert(vars, n, v), j) = ReadEnvironment(vars, j)
    BY <1>1, UpsertSets, Zenon
  <1> QED BY <1>1, <1>2, <1>3, Zenon DEF n, v

(***************************************************************************)
(* A command that enters the container has its own value of a variable, or *)
(* if it has none the one in the proxy's file.                             *)
(***************************************************************************)
LEMMA EnteredValue ==
    ASSUME NEW env, Unrepeated(env), NEW q, Unrepeated(q), NEW k
    PROVE  ReadEnvironment(enterEnvironment(env, q), k)
             = IF ReadEnvironment(env, k) = <<>> THEN ReadEnvironment(q, k) ELSE ReadEnvironment(env, k)
  <1> DEFINE own == ReadEnvironment(env, k)
             P == [name : Strings, val : Seq(Strings)]
  <1>1. q \in EnvVars /\ Once(q, k)
    BY DEF Unrepeated
  <1>2. Len(q) \in Nat /\ DOMAIN q = 1..Len(q) /\ \A i \in 1..Len(q) : q[i] \in P
    <2>1. q \in Seq(P)
      BY <1>1 DEF EnvVars
    <2> HIDE DEF P
    <2> QED BY <2>1, LenProperties, ElementOfSeq
  <1> HIDE DEF P
  <1>3. PICK g : /\ enterEnvironment(env, q) = g[Len(q)] /\ g[0] = env
                 /\ \A i \in 1..Len(q) : g[i] = Joined(g[i - 1], q[i])
    BY <1>1, OneByOne
  <1> DEFINE read(i) == ReadEnvironment(g[i], k)
             Kept(i) == own # <<>> => read(i) = own
             Taken(i) == own = <<>> => \/ \E j \in 1..i : q[j].name = k /\ read(i) = q[j].val
                                       \/ (\A j \in 1..i : q[j].name # k) /\ read(i) = <<>>
             T == {i \in 0..Len(q) : ~(Unrepeated(g[i]) /\ Kept(i) /\ Taken(i))}
  <1>4. T = {}
    <2> SUFFICES ASSUME T # {} PROVE FALSE
      OBVIOUS
    <2>1. PICK m \in T : \A n \in T : m <= n
      <3>1. T \in SUBSET Nat
        BY <1>2
      <3> HIDE DEF T
      <3> QED BY <3>1, Least
    <2>2. m \in 0..Len(q) /\ ~(Unrepeated(g[m]) /\ Kept(m) /\ Taken(m))
      OBVIOUS
    <2>3. m # 0
      <3>1. Unrepeated(g[0]) /\ Kept(0) /\ Taken(0)
        BY <1>3
      <3> QED BY <2>2, <3>1
    <2>4. m \in 1..Len(q) /\ m - 1 \in 0..Len(q) /\ ~(m <= m - 1)
      BY <1>2, <2>2, <2>3
    <2>5. Unrepeated(g[m - 1]) /\ Kept(m - 1) /\ Taken(m - 1)
      BY <2>1, <2>4
    <2>6. /\ Unrepeated(g[m])
          /\ q[m].name = k /\ read(m - 1) = <<>> => read(m) = q[m].val
          /\ ~(q[m].name = k /\ read(m - 1) = <<>>) => read(m) = read(m - 1)
      <3> DEFINE old == g[m - 1]  pair == q[m]
      <3>1. g[m] = Joined(old, pair) /\ pair \in P /\ Unrepeated(old)
        BY <1>2, <1>3, <2>4, <2>5
      <3> HIDE DEF old, pair
      <3>2. /\ Unrepeated(Joined(old, pair))
            /\ pair.name = k /\ ReadEnvironment(old, k) = <<>>
                   => ReadEnvironment(Joined(old, pair), k) = pair.val
            /\ ~(pair.name = k /\ ReadEnvironment(old, k) = <<>>)
                   => ReadEnvironment(Joined(old, pair), k) = ReadEnvironment(old, k)
        BY <3>1, JoinedSets, Zenon DEF P
      <3> QED BY <3>1, <3>2, Zenon DEF old, pair
    <2> HIDE DEF own, read
    <2>7. Kept(m)
      BY <2>5, <2>6
    <2>8. Taken(m)
      <3> SUFFICES ASSUME own = <<>>
                   PROVE  \/ \E j \in 1..m : q[j].name = k /\ read(m) = q[j].val
                          \/ (\A j \in 1..m : q[j].name # k) /\ read(m) = <<>>
        OBVIOUS
      <3>1. CASE \E j \in 1..(m - 1) : q[j].name = k /\ read(m - 1) = q[j].val
        <4>1. PICK j \in 1..(m - 1) : q[j].name = k /\ read(m - 1) = q[j].val
          BY <3>1
        <4>2. j \in 1..Len(q) /\ j # m /\ j \in 1..m
          BY <1>2, <2>4
        <4>3. q[m].name # k
          BY <1>1, <1>2, <2>4, <4>1, <4>2 DEF Once, Named
        <4> QED BY <2>6, <4>1, <4>2, <4>3
      <3>2. CASE (\A j \in 1..(m - 1) : q[j].name # k) /\ read(m - 1) = <<>>
        <4>1. CASE q[m].name = k
          <5>1. m \in 1..m
            BY <2>4
          <5> QED BY <2>6, <3>2, <4>1, <5>1
        <4>2. CASE q[m].name # k
          <5>1. \A j \in 1..m : j = m \/ j \in 1..(m - 1)
            BY <2>4
          <5> QED BY <2>6, <3>2, <4>2, <5>1
        <4> QED BY <4>1, <4>2
      <3> QED BY <2>5, <3>1, <3>2
    <2> QED BY <2>2, <2>6, <2>7, <2>8
  <1>5. Kept(Len(q)) /\ Taken(Len(q))
    <2>1. Len(q) \in 0..Len(q)
      BY <1>2
    <2> QED BY <1>4, <2>1
  <1>6. read(Len(q)) = ReadEnvironment(enterEnvironment(env, q), k)
    BY <1>3
  <1> HIDE DEF read, own
  <1>7. own = <<>> => read(Len(q)) = ReadEnvironment(q, k)
    <2> SUFFICES ASSUME own = <<>> PROVE read(Len(q)) = ReadEnvironment(q, k)
      OBVIOUS
    <2>1. CASE \E j \in 1..Len(q) : q[j].name = k /\ read(Len(q)) = q[j].val
      BY <1>2, <2>1, OneLine
    <2>2. CASE (\A j \in 1..Len(q) : q[j].name # k) /\ read(Len(q)) = <<>>
      <3>1. Named(q, k) = {}
        BY <1>2, <2>2 DEF Named
      <3> QED BY <2>2, <3>1 DEF ReadEnvironment
    <2> QED BY <1>5, <2>1, <2>2
  <1> QED BY <1>5, <1>6, <1>7, Zenon DEF own

\* The variables that the options of docker, the components, flannel and the cloud are added to.
LaterNames == {"KUBE_KUBELET_FLAGS", "KUBE_ENABLE_IPAM", "FLANNEL_BACKEND", "KUBE_CLOUD_FLAGS"}

(***************************************************************************)
(* The options that are added after docker's say nothing of other          *)
(* variables.                                                              *)
(***************************************************************************)
LEMMA OptionsAdded ==
    ASSUME NEW env \in EnvVars, NEW c \in Flags, NEW k, k \notin LaterNames
    PROVE  Same(cloudVariables(flannelVariables(addComponentOptions(env, c), c), c), env, k)
  <1> DEFINE e1 == addComponentOptions(env, c)
             ipam == IF c.flannel THEN <<"false">> ELSE <<"true">>
             backend == <<CASE c.cloud = "aws" -> "aws-vpc" [] c.cloud = "gce" -> "gce" [] OTHER -> "vxlan">>
             e2 == Upsert(e1, "KUBE_ENABLE_IPAM", ipam)
             e3 == IF c.flannel THEN Upsert(e2, "FLANNEL_BACKEND", backend) ELSE e2
             e4 == IF c.cloud = Unset THEN e3 ELSE Upsert(e3, "KUBE_CLOUD_FLAGS", <<c.cloud>>)
  <1>0. /\ k # "KUBE_KUBELET_FLAGS" /\ k # "KUBE_ENABLE_IPAM" /\ k # "FLANNEL_BACKEND"
        /\ k # "KUBE_CLOUD_FLAGS"
    BY DEF LaterNames
  <1>1. /\ "KUBE_KUBELET_FLAGS" \in Strings /\ "KUBE_ENABLE_IPAM" \in Strings
        /\ "FLANNEL_BACKEND" \in Strings /\ "KUBE_CLOUD_FLAGS" \in Strings
    BY DEF Strings, Literals
  <1>2. cloudVariables(flannelVariables(e1, c), c) = e4
    BY Zenon DEF cloudVariables, flannelVariables
  <1>3. ipam \in Seq(Strings) /\ backend \in Seq(Strings) /\ <<c.cloud>> \in Seq(Strings)
    <2>1. /\ "true" \in Strings /\ "false" \in Strings /\ "aws-vpc" \in Strings
          /\ "gce" \in Strings /\ "vxlan" \in Strings
      BY DEF Strings, Literals
    <2>2. c.cloud \in Strings
      BY FlagTypes
    <2> QED BY <2>1, <2>2
  <1>4. e1 \in EnvVars /\ Same(e1, env, k)
    <2>1. CASE c.kubeletOptions = <<>>
      BY <2>1 DEF addComponentOptions, AppendWords, Same
    <2>2. CASE c.kubeletOptions # <<>>
      <3> DEFINE v == Get(env, "KUBE_KUBELET_FLAGS") \o c.kubeletOptions
      <3>1. v \in Seq(Strings)
        BY GetType, FlagTypes, ConcatProperties
      <3>2. e1 = Upsert(env, "KUBE_KUBELET_FLAGS", v)
        BY <2>2 DEF addComponentOptions, AppendWords
      <3> HIDE DEF v
      <3> QED BY <1>0, <1>1, <3>1, <3>2, UpsertOther
    <2> QED BY <2>1, <2>2
  <1> HIDE DEF e1, ipam, backend
  <1>5. e2 \in EnvVars /\ Same(e2, e1, k)
    BY <1>0, <1>1, <1>3, <1>4, UpsertOther
  <1> HIDE DEF e2
  <1>6. e3 \in EnvVars /\ Same(e3, e2, k)
    <2>1. CASE c.flannel
      BY <1>0, <1>1, <1>3, <1>5, <2>1, UpsertOther
    <2>2. CASE ~c.flannel
      BY <1>5, <2>2 DEF Same
    <2> QED BY <2>1, <2>2
  <1> HIDE DEF e3
  <1>7. Same(e4, e3, k)
    <2> DEFINE v == <<c.cloud>>
    <2>0. v \in Seq(Strings)
      BY <1>3
    <2> HIDE DEF v
    <2>1. CASE c.cloud = Unset
      BY <1>6, <2>1 DEF Same
    <2>2. CASE c.cloud # Unset
      <3>1. e4 = Upsert(e3, "KUBE_CLOUD_FLAGS", v)
        BY <2>2 DEF v
      <3> QED BY <1>0, <1>1, <1>6, <2>0, <3>1, UpsertOther
    <2> QED BY <2>1, <2>2
  <1> HIDE DEF e4
  <1> QED BY <1>2, <1>4, <1>5, <1>6, <1>7, SameTrans, Zenon DEF e1

\* What the user must not pass twice: planet moves, or appends to, the first only.
PassedOnce ==
    \A c \in Flags : \A k \in ProxyNames \cup {"DOCKER_OPTS"} : Once(c.env, k)

(***************************************************************************)
(* The environment files say what they must, for every list of variables   *)
(* in which the user passes none of those twice.                           *)
(***************************************************************************)
THEOREM EnvironmentsRight ==
    ASSUME PassedOnce, NEW c \in Flags
    PROVE  OwnVariablesWin[c] /\ ProxyMoved[c] /\ ProxyEntered[c]
  <1> DEFINE e0 == c.env \o ownPairs(c)
             s == configureProxy(e0)
             e1 == addDockerOptions(s.env, c)
             e2 == cloudVariables(flannelVariables(addComponentOptions(e1, c), c), c)
             opts == <<dockerBackend(c)>> \o c.dockerOptions
  <1>1. Environment[c].env = e2 /\ Environment[c].proxyEnv = s.proxyEnv
    <2>1. s = [env |-> s.env, proxyEnv |-> s.proxyEnv]
      BY Zenon DEF configureProxy, MoveProxy
    <2>2. Environment[c] = [s EXCEPT !.env = e2]
      BY Zenon DEF Environment
    <2> HIDE DEF s, e2
    <2> QED BY <2>1, <2>2
  <1>2. /\ e0 \in EnvVars
        /\ \A i \in DOMAIN ownPairs(c) : ReadEnvironment(e0, ownPairs(c)[i].name) = ownPairs(c)[i].val
        /\ \A k : k \notin OwnNames => Same(e0, c.env, k)
    BY OwnAppended, Zenon
  <1> HIDE DEF e0
  <1>3. /\ s.env \in EnvVars
        /\ \A k : k \notin ProxyNames => Same(s.env, e0, k)
        /\ \A k \in ProxyNames : Once(e0, k) => Named(s.env, k) = {}
    BY <1>2, Separated, Zenon
  <1>4. /\ Unrepeated(s.proxyEnv)
        /\ \A k \in ProxyVariables : ReadEnvironment(s.proxyEnv, k) = Get(e0, k)
        /\ \A k \in ProxyExceptions : \E rules \in {<<>>, StaticNoProxyRules} :
               ReadEnvironment(s.proxyEnv, k) = rules \o Get(e0, k)
        /\ \E k \in ProxyExceptions : ReadEnvironment(s.proxyEnv, k) = StaticNoProxyRules \o Get(e0, k)
    BY <1>2, Apart, Zenon
  <1> HIDE DEF s
  <1>14. <<dockerBackend(c)>> \in Seq(Strings)
    <2>1. "btrfs" \in Strings /\ "overlay" \in Strings /\ c.backend \in Strings
      BY FlagTypes DEF Strings, Literals
    <2>2. dockerBackend(c) \in Strings
      BY <2>1 DEF dockerBackend
    <2> QED BY <2>2
  <1>5. opts \in Seq(Strings) /\ opts # <<>>
    <2>1. c.dockerOptions \in Seq(Strings) /\ <<dockerBackend(c)>> # <<>>
      BY FlagTypes
    <2> QED BY <1>14, <2>1, ConcatProperties, ConcatEqualIffEmpty
  <1>6. e1 = Upsert(s.env, "DOCKER_OPTS", Get(s.env, "DOCKER_OPTS") \o opts)
    BY <1>5, Zenon DEF addDockerOptions, AppendWords
  <1> HIDE DEF opts, e1
  <1>7. "DOCKER_OPTS" \in Strings /\ "DOCKER_OPTS" \notin ProxyNames /\ "DOCKER_OPTS" \notin OwnNames
        /\ "DOCKER_OPTS" \notin LaterNames
    BY DEF Strings, Literals, ProxyNames, ProxyVariables, ProxyExceptions, OwnNames, LaterNames
  <1>8. Get(s.env, "DOCKER_OPTS") = Get(c.env, "DOCKER_OPTS") /\ Once(s.env, "DOCKER_OPTS")
    <2>1. Once(c.env, "DOCKER_OPTS")
      BY DEF PassedOnce
    <2>2. Same(e0, c.env, "DOCKER_OPTS") /\ Same(s.env, e0, "DOCKER_OPTS")
      BY <1>2, <1>3, <1>7
    <2> QED BY <2>1, <2>2, Zenon DEF Same
  <1> DEFINE v == Get(s.env, "DOCKER_OPTS") \o opts
  <1>9. v \in Seq(Strings)
    BY <1>3, <1>5, GetType, ConcatProperties
  <1>10. e1 = Upsert(s.env, "DOCKER_OPTS", v)
    BY <1>6
  <1> HIDE DEF v
  <1>11. /\ e1 \in EnvVars /\ ReadEnvironment(e1, "DOCKER_OPTS") = v
         /\ \A k : k # "DOCKER_OPTS" => Same(e1, s.env, k)
    BY <1>3, <1>7, <1>8, <1>9, <1>10, UpsertOther, UpsertOwn
  <1>12. \A k : k \notin LaterNames => Same(e2, e1, k)
    BY <1>11, OptionsAdded, Zenon
  <1> HIDE DEF e2
  <1>13. ReadEnvironment(e2, "DOCKER_OPTS")
           = Get(c.env, "DOCKER_OPTS") \o <<dockerBackend(c)>> \o c.dockerOptions
    <2>1. ReadEnvironment(e2, "DOCKER_OPTS") = v
      BY <1>7, <1>11, <1>12, Zenon DEF Same
    <2>2. v = Get(c.env, "DOCKER_OPTS") \o opts
      BY <1>8 DEF v
    <2>3. Get(c.env, "DOCKER_OPTS") \in Seq(Strings)
      BY FlagTypes, GetType
    <2>4. <<dockerBackend(c)>> \in Seq(Strings) /\ c.dockerOptions \in Seq(Strings)
      BY <1>14, FlagTypes
    <2> DEFINE p == Get(c.env, "DOCKER_OPTS")
               q == <<dockerBackend(c)>>
               r == c.dockerOptions
    <2>5. p \in Seq(Strings) /\ q \in Seq(Strings) /\ r \in Seq(Strings)
      BY <2>3, <2>4
    <2>6. ReadEnvironment(e2, "DOCKER_OPTS") = p \o (q \o r)
      BY <2>1, <2>2, Zenon DEF opts
    <2> HIDE DEF p, q, r
    <2>7. p \o (q \o r) = p \o q \o r
      BY <2>5, Regrouped, Zenon
    <2> QED BY <2>6, <2>7, Zenon DEF p, q, r
  <1>15. \A k : k \notin LaterNames \cup {"DOCKER_OPTS"} \cup ProxyNames => Same(e2, e0, k)
    BY <1>3, <1>11, <1>12, SameTrans, Zenon
  <1>16. \A k : k \notin LaterNames \cup {"DOCKER_OPTS"} => Same(e2, s.env, k)
    BY <1>11, <1>12, SameTrans, Zenon
  <1>17. OwnVariablesWin[c]
    <2>1. ASSUME NEW i \in DOMAIN ownPairs(c)
          PROVE  ReadEnvironment(e2, ownPairs(c)[i].name) = ownPairs(c)[i].val
      <3>1. ownPairs(c)[i].name \in OwnNames
        BY DEF ownPairs, OwnNames
      <3>2. ownPairs(c)[i].name \notin LaterNames \cup {"DOCKER_OPTS"} \cup ProxyNames
        BY <3>1 DEF OwnNames, LaterNames, ProxyNames, ProxyVariables, ProxyExceptions
      <3>3. Same(e2, e0, ownPairs(c)[i].name)
        BY <1>15, <3>2
      <3> QED BY <1>2, <3>3, Zenon DEF Same
    <2> QED BY <1>1, <1>13, <2>1, Zenon DEF OwnVariablesWin
  <1>18. ASSUME NEW k \in ProxyNames
         PROVE  ReadEnvironment(e2, k) = <<>> /\ Get(e0, k) = Get(c.env, k)
    <2>1. k \notin OwnNames /\ k \notin LaterNames \cup {"DOCKER_OPTS"}
      BY DEF OwnNames, LaterNames, ProxyNames, ProxyVariables, ProxyExceptions
    <2>2. Same(e0, c.env, k) /\ Same(e2, s.env, k)
      BY <1>2, <1>16, <2>1
    <2>3. Once(c.env, k)
      BY DEF PassedOnce
    <2>4. Once(e0, k) /\ Get(e0, k) = Get(c.env, k)
      BY <2>2, <2>3, Zenon DEF Same
    <2>5. Named(s.env, k) = {}
      BY <1>3, <2>4
    <2>6. Named(e2, k) = {}
      BY <2>2, <2>5, Zenon DEF Same
    <2> QED BY <2>4, <2>6 DEF ReadEnvironment
  <1>19. ProxyMoved[c]
    <2>1. \A k \in ProxyVariables : ReadEnvironment(e2, k) = <<>>
                                    /\ ReadEnvironment(s.proxyEnv, k) = Get(c.env, k)
      BY <1>4, <1>18, Zenon DEF ProxyNames
    <2>2. \A k \in ProxyExceptions :
             ReadEnvironment(e2, k) = <<>> /\ \E rules \in {<<>>, StaticNoProxyRules} :
                 ReadEnvironment(s.proxyEnv, k) = rules \o Get(c.env, k)
      BY <1>4, <1>18, Zenon DEF ProxyNames
    <2>3. \E k \in ProxyExceptions :
             ReadEnvironment(s.proxyEnv, k) = StaticNoProxyRules \o Get(c.env, k)
      BY <1>4, <1>18, Zenon DEF ProxyNames
    <2> QED BY <1>1, <2>1, <2>2, <2>3, Zenon DEF ProxyMoved
  <1>20. ProxyEntered[c]
    <2> DEFINE q == s.proxyEnv
    <2>1. ASSUME NEW k \in ProxyNames
          PROVE  /\ ReadEnvironment(enterEnvironment(<<>>, q), k) = ReadEnvironment(q, k)
                 /\ ReadEnvironment(enterEnvironment(<<[name |-> k, val |-> <<"own">>]>>, q), k)
                      = <<"own">>
      <3> DEFINE none == <<>>  mine == <<[name |-> k, val |-> <<"own">>]>>
      <3>1. k \in Strings /\ "own" \in Strings
        BY DEF Strings, Literals, ProxyNames, ProxyVariables, ProxyExceptions
      <3>2. Unrepeated(none) /\ ReadEnvironment(none, k) = <<>>
        BY DEF Unrepeated, EnvVars, Once, Named, ReadEnvironment
      <3>3. mine = Upsert(none, k, <<"own">>)
        BY DEF Upsert, Named
      <3>4. Unrepeated(mine) /\ ReadEnvironment(mine, k) = <<"own">>
        <4> DEFINE w == <<"own">>
        <4>1. w \in Seq(Strings)
          BY <3>1
        <4> HIDE DEF w, none
        <4> QED BY <3>1, <3>2, <3>3, <4>1, UpsertSets DEF w
      <3> HIDE DEF none, mine, q
      <3>5. /\ ReadEnvironment(enterEnvironment(none, q), k) = ReadEnvironment(q, k)
            /\ ReadEnvironment(enterEnvironment(mine, q), k) = ReadEnvironment(mine, k)
        <4>1. Unrepeated(q)
          BY <1>4 DEF q
        <4>2. ReadEnvironment(mine, k) # <<>>
          BY <3>4
        <4> QED BY <3>2, <3>4, <4>1, <4>2, EnteredValue, Zenon
      <3> QED BY <3>4, <3>5, Zenon DEF none, mine
    <2> QED BY <1>1, <2>1, Zenon DEF ProxyEntered, ProxyNames
  <1> QED BY <1>17, <1>19, <1>20

-----------------------------------------------------------------------------
(***************************************************************************)
(* A container is started with the configuration of this start's flags     *)
(* (start, box.Start), for all command lines that pass none of the proxy's *)
(* variables or DOCKER_OPTS twice, after any number of starts with other   *)
(* flags, however they ended; but for a kill between truncating an account *)
(* file and writing it.                                                    *)
(***************************************************************************)
THEOREM AppliesConfig ==
    ASSUME PassedOnce, "killedInRewrite" \notin Faults
    PROVE  StartSpec => []ConfigApplied
  <1> DEFINE Inv == RootTyped /\ FilesWritten
  <1>1. StartInit => Inv
    <2> SUFFICES ASSUME StartInit PROVE Inv
      OBVIOUS
    <2>1. /\ step = "off" /\ flags \in Flags
          /\ \A db \in {"passwd", "group"} : rootfs[db] = [u \in BaseUsers |-> 0]
      BY StartAssumption DEF StartInit
    <2>2. DOMAIN rootfs = RootFiles
      BY DEF StartInit, RootFiles
    <2>3. RootTyped
      BY <2>1, <2>2 DEF RootTyped
    <2>4. FilesWritten
      BY <2>1 DEF FilesWritten, AfterPasswd, AfterGroup, AfterFlannel, AfterEtcd,
                  AfterCoreDNS, AfterFiles
    <2> QED BY <2>3, <2>4
  <1>2. Inv /\ [StartNext]_startVars => Inv'
    BY KeepsRoot, WritesFiles
  <1>3. Inv => ConfigApplied
    <2> SUFFICES ASSUME Inv, Configured PROVE ConfigApplied
      BY DEF ConfigApplied
    <2>1. step \in AfterPasswd /\ step \in AfterGroup /\ step \in AfterFlannel /\ step \in AfterEtcd
          /\ step \in AfterFiles
      BY DEF Configured, AfterPasswd, AfterGroup, AfterFlannel, AfterEtcd, AfterCoreDNS, AfterFiles
    <2>2. flags \in Flags
      BY DEF RootTyped
    <2>3. OwnVariablesWin[flags] /\ ProxyMoved[flags] /\ ProxyEntered[flags]
      BY <2>2, EnvironmentsRight
    <2>4. KubeletProtected[flags]
      BY <2>2, KubeletFields
    <2>5. \A db \in {"passwd", "group"} : rootfs[db] = Accounts
      BY <2>1 DEF FilesWritten
    <2>6. /\ rootfs.gateway = (flags.etcdProxy = "on") /\ rootfs.flanneld = flags.flannel
          /\ rootfs.env = Environment[flags].env /\ rootfs.proxyEnv = Environment[flags].proxyEnv
          /\ rootfs.kubelet = KubeletFile[flags] /\ flags.hostname \in {Unset, rootfs.hostname}
      BY <2>1 DEF FilesWritten
    <2> QED BY <2>3, <2>4, <2>5, <2>6, Zenon DEF ConfigApplied, Accounts
  <1> QED BY <1>1, <1>2, <1>3, PTL DEF StartSpec
=============================================================================
