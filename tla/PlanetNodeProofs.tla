--------------------------- MODULE PlanetNodeProofs ---------------------------
(***************************************************************************)
(* planet start with its daemon, its container and the commands it runs    *)
(* there: for every set of flags, of state directories, of commands and of *)
(* devices, however often it is started, killed and signalled.             *)
(***************************************************************************)
EXTENDS PlanetNode, TLAPS

-----------------------------------------------------------------------------
(* The state of start(). *)

(***************************************************************************)
(* What start() does after each of its steps.                              *)
(***************************************************************************)
LEMMA Successors ==
    ASSUME NEW r
    PROVE  /\ Becomes("passwd", r) => step' = "group"
           /\ Becomes("group", r) => step' = "mounts"
           /\ Becomes("mounts", r) => step' = "flannel"
           /\ Becomes("flannel", r) => step' = "cloud"
           /\ Becomes("cloud", r) => step' = "etcd"
           /\ Becomes("etcd", r) => step' = "resolv"
           /\ Becomes("resolv", r) => step' = "coredns"
           /\ Becomes("coredns", r) => step' = "listener"
           /\ Becomes("listener", r) => step' = "files"
           /\ Becomes("files", r) => step' = "create"
           /\ Becomes("create", r) => step' = "run"
           /\ Becomes("run", r) => step' = "wait"
  <1>1. DOMAIN Steps = 1..13
    BY DEF Steps
  <1>2. /\ Steps[1] = "passwd" /\ Steps[2] = "group" /\ Steps[3] = "mounts" /\ Steps[4] = "flannel"
        /\ Steps[5] = "cloud" /\ Steps[6] = "etcd" /\ Steps[7] = "resolv" /\ Steps[8] = "coredns"
        /\ Steps[9] = "listener" /\ Steps[10] = "files" /\ Steps[11] = "create"
        /\ Steps[12] = "run" /\ Steps[13] = "wait"
    BY DEF Steps
  <1>3. ASSUME NEW j \in 1..12, NEW i \in DOMAIN Steps, Steps[i] = Steps[j] PROVE i = j
    BY <1>1, <1>2, <1>3
  <1>4. ASSUME NEW j \in 1..12, Becomes(Steps[j], r) PROVE step' = Steps[j + 1]
    <2>1. (CHOOSE i \in DOMAIN Steps : Steps[i] = Steps[j]) = j
      BY <1>1, <1>3
    <2> QED BY <1>4, <2>1, Zenon DEF Becomes
  <1> QED BY <1>2, <1>4

Early == {"passwd", "group", "mounts", "flannel", "cloud", "etcd", "resolv", "coredns", "listener",
          "files"}

(***************************************************************************)
(* The order of start()'s steps: up to Create there is no container.       *)
(***************************************************************************)
LEMMA Onward ==
    ASSUME NEW r
    PROVE  /\ \A s \in Early : Becomes(s, r) => step = s /\ step' \in Early \cup {"create"}
           /\ Becomes("create", r) => step' = "run"
           /\ Becomes("run", r) => step' = "wait"
  <1>1. ASSUME NEW s, Becomes(s, r) PROVE step = s
    BY <1>1 DEF Becomes
  <1> QED BY <1>1, Successors DEF Early

(***************************************************************************)
(* No step of start() before Create is one of those with a container.      *)
(***************************************************************************)
LEMMA EarlySteps ==
    ASSUME StartStep
    PROVE  step \notin {"off", "run", "wait"} /\ step' \notin {"off", "run", "wait"}
  <1>1. PICK s \in Early : \E r : Becomes(s, r)
    BY Zenon DEF StartStep, Early, addUserToContainer, addGroupToContainer, checkRequiredMounts,
                 setupFlannel, addCloudOptions, setupEtcdDropin, addResolv, setCoreDNS, WriteFiles
  <1> QED BY <1>1, Onward DEF Early

(***************************************************************************)
(* The state of start() and of the rootfs keeps its types, through kills   *)
(* in the middle of a rewrite too.                                         *)
(***************************************************************************)
LEMMA StartTypes ==
    ASSUME StartTypeOK, [StartNext]_startVars
    PROVE  StartTypeOK'
  <1> USE StartAssumption DEF StartTypeOK
  <1>1. Flags \subseteq Config /\ flags \in Config
    OBVIOUS
  <1>2. {Steps[i] : i \in DOMAIN Steps}
          = {"passwd", "group", "mounts", "flannel", "cloud", "etcd", "resolv", "coredns",
             "listener", "files", "create", "run", "wait"}
    BY DEF Steps
  <1>3. ASSUME NEW c \in Flags, startAndWait(c) PROVE StartTypeOK'
    <2>1. c.listen \in Seq(STRING)
      BY DEF Config
    <2> QED BY <1>2, <1>3, <2>1, Zenon DEF startAndWait
  <1>4. CASE Ends
    <2>1. CASE rootfs' = rootfs
      BY <1>2, <1>4, <2>1 DEF Ends
    <2>2. CASE step \in {"passwd", "group"} /\ rootfs' = [rootfs EXCEPT ![step] = <<>>]
      BY <1>2, <1>4, <2>2 DEF Ends, RootFiles
    <2> QED BY <1>4, <2>1, <2>2 DEF Ends, LeftByKill
  <1>5. CASE UNCHANGED startVars
    BY <1>5 DEF startVars
  <1>6. ASSUME NEW s \in {"listener", "create", "run"}, Passes(s) PROVE StartTypeOK'
    BY <1>2, <1>6, Successors, ZenonT(30) DEF Passes, Becomes
  <1>7. CASE addUserToContainer
    <2>1. step' = "group" /\ UNCHANGED <<flags, listen>>
          /\ rootfs' = [rootfs EXCEPT !.passwd = UpsertAccount(rootfs.passwd, flags.uid)]
      BY <1>7, Successors DEF addUserToContainer, Becomes
    <2>2. DOMAIN UpsertAccount(rootfs.passwd, flags.uid) \subseteq BaseUsers \cup {ServiceUser}
      BY DEF UpsertAccount
    <2> QED BY <1>2, <2>1, <2>2, ZenonT(30) DEF RootFiles
  <1>8. CASE addGroupToContainer
    <2>1. step' = "mounts" /\ UNCHANGED <<flags, listen>>
          /\ rootfs' = [rootfs EXCEPT !.group = UpsertAccount(rootfs.group, flags.uid)]
      BY <1>8, Successors DEF addGroupToContainer, Becomes
    <2>2. DOMAIN UpsertAccount(rootfs.group, flags.uid) \subseteq BaseUsers \cup {ServiceUser}
      BY DEF UpsertAccount
    <2> QED BY <1>2, <2>1, <2>2, ZenonT(30) DEF RootFiles
  <1>9. CASE checkRequiredMounts \/ addCloudOptions
    BY <1>2, <1>9, Successors, ZenonT(30) DEF checkRequiredMounts, addCloudOptions, Becomes
  <1>10. CASE setupFlannel
    <2>1. step' = "cloud" /\ UNCHANGED <<flags, listen>>
          /\ rootfs' = [rootfs EXCEPT !.flanneld = flags.flannel,
                                      !.conflist = rootfs.conflist \/ flags.flannel]
      BY <1>10, Successors DEF setupFlannel, Becomes
    <2>2. flags.flannel \in BOOLEAN
      BY <1>1 DEF Config
    <2> QED BY <1>2, <2>1, <2>2, ZenonT(30) DEF RootFiles
  <1>11. CASE setupEtcdDropin
    <2>1. step' = "resolv" /\ UNCHANGED <<flags, listen>>
          /\ rootfs' = [rootfs EXCEPT !.gateway = (flags.etcdProxy = "on")]
      BY <1>11, Successors DEF setupEtcdDropin, Becomes
    <2> QED BY <1>2, <2>1, ZenonT(30) DEF RootFiles
  <1>12. CASE addResolv
    <2>1. step' = "coredns" /\ UNCHANGED flags
          /\ rootfs' = [rootfs EXCEPT !.resolv = SubSeq(listen, 1, 1) \o flags.servers]
      BY <1>12, Successors, ZenonT(30) DEF addResolv, Becomes
    <2>2. listen' \in Seq(STRING) /\ Len(listen') = Len(listen)
      <3>1. flags.servers \in Seq(STRING)
        BY <1>1 DEF Config
      <3>2. PICK hit \in BOOLEAN : listen' = [i \in DOMAIN listen |->
                 IF hit /\ i \in 2..(1 + Len(flags.servers)) THEN flags.servers[i - 1] ELSE listen[i]]
        BY <1>12, ZenonT(30) DEF addResolv
      <3>3. DOMAIN listen = 1..Len(listen) /\ Len(listen) \in Nat
        OBVIOUS
      <3>4. listen' \in [1..Len(listen) -> STRING]
        BY <3>1, <3>2, <3>3
      <3> QED BY <3>3, <3>4
    <2> QED BY <1>2, <2>1, <2>2, ZenonT(30) DEF RootFiles
  <1>13. CASE setCoreDNS
    <2>1. step' = "listener" /\ UNCHANGED <<flags, listen>>
          /\ rootfs' = [rootfs EXCEPT !.bind = listen, !.upstream = flags.servers]
      BY <1>13, Successors DEF setCoreDNS, Becomes
    <2> QED BY <1>2, <2>1, ZenonT(30) DEF RootFiles
  <1>14. CASE WriteFiles
    <2>1. step' = "create" /\ UNCHANGED <<flags, listen>>
      BY <1>14, Successors DEF WriteFiles, Becomes
    <2>2. PICK e, p, l, k, h : rootfs' = [rootfs EXCEPT !.env = e, !.proxyEnv = p, !.local = l,
                                                        !.kubelet = k, !.hostname = h]
      BY <1>14, ZenonT(30) DEF WriteFiles, Becomes
    <2> QED BY <1>2, <2>1, <2>2, ZenonT(30) DEF RootFiles
  <1> QED BY <1>3, <1>4, <1>5, <1>6, <1>7, <1>8, <1>9, <1>10, <1>11, <1>12, <1>13, <1>14
          DEF StartNext, StartStep

\* The steps of start() after setCoreDNS, and those after WriteFiles.
AfterFiles == {"create", "run", "wait"}
AfterCoreDNS == {"listener", "files"} \cup AfterFiles

\* The flags with which the append of addResolv writes over no listen address: there is none
\* to write over, nothing to write, or no room in the slice.
ListenApart ==
    \A c \in Flags : \/ Len(c.listen) <= 1 \/ c.servers = <<>>
                     \/ ~(1 + Len(c.servers) <= Cap(Len(c.listen)))

\* Those addresses stay as they were given, and are written as they were given.
ListenKept ==
    /\ listen = flags.listen
    /\ step \in AfterCoreDNS => rootfs.bind = flags.listen
    /\ step \in AfterFiles => rootfs.local = flags.listen

(***************************************************************************)
(* With such flags, no step changes the listen addresses of a start.       *)
(***************************************************************************)
LEMMA KeepsListen ==
    ASSUME ListenApart, StartTypeOK, ListenKept, [StartNext]_startVars
    PROVE  ListenKept'
  <1> USE DEF AfterFiles, AfterCoreDNS
  <1>0. DOMAIN rootfs = RootFiles /\ flags \in Config
    BY StartAssumption DEF StartTypeOK
  <1>1. ASSUME NEW c \in Flags, startAndWait(c) PROVE ListenKept'
    BY <1>1 DEF startAndWait, ListenKept
  <1>2. CASE Ends
    BY <1>2 DEF Ends, ListenKept
  <1>3. CASE UNCHANGED startVars
    BY <1>3 DEF startVars, ListenKept
  <1>4. ASSUME NEW s \in {"listener", "create", "run"}, Passes(s) PROVE ListenKept'
    <2>1. step = s /\ UNCHANGED <<flags, listen, rootfs>>
      BY <1>4 DEF Passes, Becomes
    <2>2. step' = CASE s = "listener" -> "files" [] s = "create" -> "run" [] s = "run" -> "wait"
      BY <1>4, Successors DEF Passes
    <2> QED BY <2>1, <2>2 DEF ListenKept
  <1>5. CASE addUserToContainer \/ addGroupToContainer \/ checkRequiredMounts
             \/ setupFlannel \/ addCloudOptions \/ setupEtcdDropin
    <2>1. UNCHANGED <<flags, listen>>
      BY <1>5 DEF addUserToContainer, addGroupToContainer, checkRequiredMounts,
                  setupFlannel, addCloudOptions, setupEtcdDropin, Becomes
    <2>2. step' \in {"group", "mounts", "flannel", "cloud", "etcd", "resolv"}
      BY <1>5, Successors DEF addUserToContainer, addGroupToContainer, checkRequiredMounts,
                              setupFlannel, addCloudOptions, setupEtcdDropin
    <2> QED BY <2>1, <2>2 DEF ListenKept
  <1>6. CASE addResolv
    <2>1. step' = "coredns" /\ UNCHANGED flags
      BY <1>6, Successors, ZenonT(30) DEF addResolv, Becomes
    <2>2. listen \in Seq(STRING) /\ DOMAIN listen = 1..Len(listen) /\ Len(listen) \in Nat
      BY DEF StartTypeOK
    <2>3. flags.servers \in Seq(STRING) /\ Len(flags.servers) \in Nat
      BY <1>0 DEF Config
    <2>4. listen' = listen
      <3> DEFINE hit == listen # <<>> /\ 1 + Len(flags.servers) <= Cap(Len(listen))
                 new == [i \in DOMAIN listen |->
                           IF hit /\ i \in 2..(1 + Len(flags.servers))
                           THEN flags.servers[i - 1] ELSE listen[i]]
      <3>1. listen' = new
        BY <1>6, ZenonT(30) DEF addResolv
      <3>2. \/ Len(listen) <= 1 \/ flags.servers = <<>>
            \/ ~(1 + Len(flags.servers) <= Cap(Len(listen)))
        BY DEF ListenApart, ListenKept, StartTypeOK
      <3>3. ASSUME NEW i \in DOMAIN listen PROVE ~(hit /\ i \in 2..(1 + Len(flags.servers)))
        <4>1. CASE Len(listen) <= 1
          BY <2>2, <4>1
        <4>2. CASE flags.servers = <<>>
          BY <2>2, <4>2
        <4>3. CASE ~(1 + Len(flags.servers) <= Cap(Len(listen)))
          BY <4>3
        <4> QED BY <3>2, <4>1, <4>2, <4>3
      <3>4. new = [i \in DOMAIN listen |-> listen[i]]
        BY <3>3
      <3> QED BY <2>2, <3>1, <3>4
    <2> QED BY <2>1, <2>4 DEF ListenKept
  <1>7. CASE setCoreDNS
    <2>1. step' = "listener" /\ UNCHANGED <<flags, listen>>
          /\ rootfs' = [rootfs EXCEPT !.bind = listen, !.upstream = flags.servers]
      BY <1>7, Successors DEF setCoreDNS, Becomes
    <2>2. rootfs'.bind = listen
      BY <1>0, <2>1 DEF RootFiles
    <2> QED BY <2>1, <2>2 DEF ListenKept
  <1>8. CASE WriteFiles
    <2>1. step = "files" /\ step' = "create" /\ UNCHANGED <<flags, listen>>
      BY <1>8, Successors DEF WriteFiles, Becomes
    <2>2. rootfs'.bind = rootfs.bind /\ rootfs'.local = listen
      BY <1>0, <1>8 DEF WriteFiles, Becomes, RootFiles
    <2> QED BY <2>1, <2>2 DEF ListenKept
  <1> QED BY <1>1, <1>2, <1>3, <1>4, <1>5, <1>6, <1>7, <1>8 DEF StartNext, StartStep

(***************************************************************************)
(* The daemon's steps change start()'s state by one of start()'s own       *)
(* steps, by a new start, or by ending it.                                 *)
(***************************************************************************)
LEMMA StartMoves ==
    ASSUME [NodeNext]_nodeVars
    PROVE  [StartNext]_startVars
  <1> USE DEF startVars, StartNext
  <1>1. CASE Configure
    BY <1>1 DEF Configure
  <1>2. CASE newUdevListener \/ Create \/ Started
    BY <1>2 DEF newUdevListener, Create, Started, Passes
  <1>3. CASE \E c \in Flags : Start(c)
    BY <1>3 DEF Start
  <1>4. CASE StartFails \/ StartRefused \/ WaitReturns
    BY <1>4 DEF StartFails, StartRefused, WaitReturns, Exit, Ends, LeftByKill
  <1>5. CASE Killed
    BY <1>5 DEF Killed, Exit, Ends
  <1>6. CASE Run \/ Halts \/ InitDies
    BY <1>6 DEF Run, Halts, InitDies
  <1>7. CASE HandleSignal \/ stop \/ HaltAccepted \/ StopReturns \/ Terminate \/ Hangup
    BY <1>7 DEF HandleSignal, stop, HaltAccepted, StopReturns, Terminate, Hangup, Arrives
  <1>8. CASE NextEvent \/ DeviceDone \/ ListenerReturns \/ \E d \in Devices : DeviceChanges(d)
    BY <1>8, Zenon DEF NextEvent, DeviceDone, ListenerReturns, DeviceChanges
  <1>9. CASE getStatus \/ StatusKnown \/ monitorUnits \/ CommandStep
    BY <1>9 DEF getStatus, StatusKnown, monitorUnits, CommandStep
  <1>10. CASE UNCHANGED nodeVars
    BY <1>10 DEF nodeVars
  <1> QED BY <1>1, <1>2, <1>3, <1>4, <1>5, <1>6, <1>7, <1>8, <1>9, <1>10, Zenon DEF NodeNext, Proceeds

-----------------------------------------------------------------------------
(* The channels of the forwarders. *)

Signals == {"CHLD", "TERM", "HUP"}

\* No two neighbours are equal; no SIGHUP; a SIGCHLD.
Alternating(box) == \A i \in 1..(Len(box) - 1) : box[i] # box[i + 1]
Quiet(box) == \A i \in 1..Len(box) : box[i] # "HUP"
HasChild(box) == \E i \in 1..Len(box) : box[i] = "CHLD"

(***************************************************************************)
(* A channel either takes a signal in, at its end, or has no room or ends  *)
(* with an equal one (signal.Notify).                                      *)
(***************************************************************************)
LEMMA QueuedType ==
    ASSUME NEW box \in Seq(Signals), Len(box) <= Buffer, NEW s \in Signals
    PROVE  /\ Queued(box, s) \in Seq(Signals) /\ Len(Queued(box, s)) <= Buffer
           /\ \/ Queued(box, s) = box /\ (Len(box) = Buffer \/ (Len(box) > 0 /\ box[Len(box)] = s))
              \/ /\ Len(Queued(box, s)) = Len(box) + 1 /\ Queued(box, s)[Len(box) + 1] = s
                 /\ \A i \in 1..Len(box) : Queued(box, s)[i] = box[i]
                 /\ Len(box) > 0 => box[Len(box)] # s
  <1>0. Buffer \in Nat
    BY BoxAssumption
  <1>1. CASE Len(box) = Buffer \/ (box # <<>> /\ box[Len(box)] = s)
    BY <1>0, <1>1 DEF Queued
  <1>2. CASE ~(Len(box) = Buffer \/ (box # <<>> /\ box[Len(box)] = s))
    <2>1. Queued(box, s) = Append(box, s)
      BY <1>2 DEF Queued
    <2> QED BY <1>0, <1>2, <2>1
  <1> QED BY <1>1, <1>2

(***************************************************************************)
(* A channel of at least two signals that holds no SIGHUP never loses a    *)
(* SIGCHLD: if it is full there is one in it.                              *)
(***************************************************************************)
LEMMA QueuedChild ==
    ASSUME NEW box \in Seq(Signals), Len(box) <= Buffer, Buffer >= 2,
           Alternating(box), Quiet(box), NEW s \in {"CHLD", "TERM"}
    PROVE  /\ Alternating(Queued(box, s)) /\ Quiet(Queued(box, s))
           /\ HasChild(box) \/ s = "CHLD" => HasChild(Queued(box, s))
  <1>0. Buffer \in Nat
    BY BoxAssumption
  <1> DEFINE new == Queued(box, s)
  <1>1. s \in Signals /\ s # "HUP" /\ Len(box) \in Nat
    BY DEF Signals
  <1>2. CASE new = box /\ (Len(box) = Buffer \/ (Len(box) > 0 /\ box[Len(box)] = s))
    <2>1. s = "CHLD" => HasChild(box)
      <3>1. CASE Len(box) > 0 /\ box[Len(box)] = s
        BY <1>1, <3>1 DEF HasChild
      <3>2. CASE Len(box) = Buffer
        <4>1. box[1] # box[2] /\ box[1] # "HUP" /\ box[2] # "HUP" /\ {1, 2} \subseteq 1..Len(box)
          BY <1>0, <1>1, <3>2 DEF Alternating, Quiet
        <4>2. box[1] \in Signals /\ box[2] \in Signals
          BY <4>1
        <4> QED BY <4>1, <4>2 DEF HasChild, Signals
      <3> QED BY <1>2, <3>1, <3>2
    <2> QED BY <1>2, <2>1
  <1>3. CASE /\ Len(new) = Len(box) + 1 /\ new[Len(box) + 1] = s
             /\ \A i \in 1..Len(box) : new[i] = box[i]
             /\ Len(box) > 0 => box[Len(box)] # s
    <2>1. Alternating(new)
      <3> SUFFICES ASSUME NEW i \in 1..Len(box) PROVE new[i] # new[i + 1]
        BY <1>1, <1>3 DEF Alternating
      <3>1. CASE i = Len(box)
        BY <1>1, <1>3, <3>1
      <3>2. CASE i # Len(box)
        <4>1. i \in 1..(Len(box) - 1) /\ i + 1 \in 1..Len(box)
          BY <1>1, <3>2
        <4> QED BY <1>3, <4>1 DEF Alternating
      <3> QED BY <3>1, <3>2
    <2>2. Quiet(new)
      BY <1>1, <1>3 DEF Quiet
    <2>3. HasChild(box) => HasChild(new)
      <3> SUFFICES ASSUME NEW i \in 1..Len(box), box[i] = "CHLD" PROVE HasChild(new)
        BY DEF HasChild
      <3>1. i \in 1..Len(new) /\ new[i] = "CHLD"
        BY <1>1, <1>3
      <3> QED BY <3>1 DEF HasChild
    <2>4. s = "CHLD" => HasChild(new)
      <3>1. Len(new) \in 1..Len(new)
        BY <1>1, <1>3
      <3> QED BY <1>3, <3>1 DEF HasChild
    <2> QED BY <2>1, <2>2, <2>3, <2>4
  <1> QED BY <1>1, <1>2, <1>3, QueuedType

(***************************************************************************)
(* What is left of a channel when its first signal is taken.               *)
(***************************************************************************)
LEMMA TailBox ==
    ASSUME NEW box \in Seq(Signals), box # <<>>
    PROVE  /\ Tail(box) \in Seq(Signals) /\ Len(Tail(box)) = Len(box) - 1
           /\ Head(box) \in Signals
           /\ Alternating(box) => Alternating(Tail(box))
           /\ Quiet(box) => Quiet(Tail(box)) /\ Head(box) # "HUP"
           /\ HasChild(box) /\ Head(box) # "CHLD" => HasChild(Tail(box))
  <1> DEFINE new == Tail(box)
  <1>1. /\ new \in Seq(Signals) /\ Len(new) = Len(box) - 1 /\ Len(box) \in Nat /\ Len(box) > 0
        /\ Head(box) = box[1] /\ box[1] \in Signals
        /\ \A i \in 1..Len(new) : new[i] = box[i + 1]
    OBVIOUS
  <1> HIDE DEF new
  <1>2. Alternating(box) => Alternating(new)
    BY <1>1 DEF Alternating
  <1>3. Quiet(box) => Quiet(new) /\ Head(box) # "HUP"
    BY <1>1 DEF Quiet
  <1>4. ASSUME NEW i \in 1..Len(box), box[i] = "CHLD", Head(box) # "CHLD" PROVE HasChild(new)
    <2>1. i # 1 /\ i - 1 \in 1..Len(new)
      BY <1>1, <1>4
    <2>2. new[i - 1] = box[i - 1 + 1] /\ i - 1 + 1 = i
      BY <1>1, <2>1
    <2> QED BY <1>4, <2>1, <2>2 DEF HasChild
  <1> QED BY <1>1, <1>2, <1>3, <1>4 DEF new, HasChild

-----------------------------------------------------------------------------
(* The container a command finds. *)

(***************************************************************************)
(* getContainer finds a container that is created or runs, or none; and    *)
(* one that runs if there is one, whatever directories are beside it.      *)
(***************************************************************************)
LEMMA GotContainer ==
    ASSUME dir \in [Dirs -> {"none", "empty", "created", "running", "stopped"}]
    PROVE  /\ getContainer \in Dirs \cup {0}
           /\ getContainer # 0 => dir[getContainer] \in {"created", "running"}
           /\ (\E d \in Dirs : dir[d] = "running")
                  => getContainer # 0 /\ dir[getContainer] = "running"
  <1> DEFINE present == {d \in Dirs : dir[d] # "none"}
             running == {d \in Dirs : dir[d] = "running"}
  <1>1. getContainer = IF running # {} THEN FirstDir(running)
                       ELSE IF present = {} \/ dir[LastDir(present)] \in {"empty", "stopped"}
                       THEN 0 ELSE LastDir(present)
    BY Zenon DEF getContainer
  <1>2. CASE running # {}
    <2>1. running \in SUBSET Dirs
      OBVIOUS
    <2>2. FirstDir(running) \in running
      <3> HIDE DEF running
      <3>1. \E m \in running : \A d \in running : m <= d
        BY <1>2, <2>1, BoxAssumption
      <3> QED BY <3>1, Zenon DEF FirstDir
    <2>3. getContainer = FirstDir(running)
      BY <1>1, <1>2, Zenon
    <2>4. FirstDir(running) # 0
      BY <2>2, BoxAssumption, Zenon
    <2> QED BY <2>2, <2>3, <2>4
  <1>3. CASE running = {} /\ present # {}
    <2>1. LastDir(present) \in present
      <3>1. present \in SUBSET Dirs
        OBVIOUS
      <3> HIDE DEF present
      <3>2. \E m \in present : \A d \in present : d <= m
        BY <1>3, <3>1, BoxAssumption
      <3> QED BY <3>2, Zenon DEF LastDir
    <2>2. getContainer = IF dir[LastDir(present)] \in {"empty", "stopped"} THEN 0
                         ELSE LastDir(present)
      BY <1>1, <1>3, Zenon
    <2> QED BY <1>3, <2>1, <2>2
  <1>4. CASE running = {} /\ present = {}
    BY <1>1, <1>4
  <1> QED BY <1>2, <1>3, <1>4

-----------------------------------------------------------------------------
(* Types. *)

Active == {"entered", "started", "forwarding"}
States == {"none", "empty", "created", "running", "stopped"}

\* A command has a process from RunProcess on, until it returns.
BoxInv ==
    /\ BoxTypeOK
    /\ \A c \in Commands : process[c] # "none" => phase[c] \in {"started", "forwarding", "done"}

Signalled(s) ==
    /\ inbox' = Caught(inbox, s) /\ UNCHANGED <<dir, own, phase, target, process>>
    /\ s = "HUP" => "hangupForwarded" \in Faults \/ \A c \in Commands : phase[c] \notin Active

\* What a step of the daemon does to the containers and commands; Quietly, no command is called.
Quietly ==
    \/ \E c \in Commands : Working(c) \/ ProcessExits(c) \/ Return(c)
    \/ CreateContainer \/ RunContainer \/ ContainerStops
    \/ \E d \in [Dirs -> States] : DaemonGone(d)
    \/ \E s \in {"TERM", "HUP"} : Signalled(s)
    \/ UNCHANGED boxVars

BoxMove == Quietly \/ \E c \in Commands, d \in Dirs \cup {0} : Enter(c, d)

(***************************************************************************)
(* A step that leaves the containers and commands alone calls no command.  *)
(***************************************************************************)
LEMMA NoneCalled == UNCHANGED boxVars => Quietly
  BY Zenon DEF Quietly

(***************************************************************************)
(* A signal that is caught reaches the channels of the active commands.    *)
(***************************************************************************)
LEMMA CaughtType ==
    ASSUME NEW boxes \in [Commands -> Seq(Signals)], \A c \in Commands : Len(boxes[c]) <= Buffer,
           NEW s \in Signals
    PROVE  /\ Caught(boxes, s) \in [Commands -> Seq(Signals)]
           /\ \A c \in Commands : Len(Caught(boxes, s)[c]) <= Buffer
           /\ \A c \in Commands : Caught(boxes, s)[c]
                  = IF phase[c] \in Active THEN Queued(boxes[c], s) ELSE boxes[c]
  <1>1. Caught(boxes, s) = [c \in Commands |-> IF phase[c] \in Active
                                               THEN Queued(boxes[c], s) ELSE boxes[c]]
    BY DEF Caught, Active
  <1>2. ASSUME NEW c \in Commands
        PROVE  Queued(boxes[c], s) \in Seq(Signals) /\ Len(Queued(boxes[c], s)) <= Buffer
    BY QueuedType, Zenon
  <1> QED BY <1>1, <1>2

(***************************************************************************)
(* The containers and the commands keep their types.                       *)
(***************************************************************************)
LEMMA BoxTypes ==
    ASSUME BoxInv, BoxMove
    PROVE  BoxInv'
  <1>0. /\ dir \in [Dirs -> States] /\ own \in Dirs \cup {0}
        /\ phase \in [Commands -> {"idle", "entered", "started", "forwarding", "done", "failed"}]
        /\ target \in [Commands -> Dirs \cup {0}]
        /\ process \in [Commands -> {"none", "up", "exited", "killed"}]
        /\ inbox \in [Commands -> Seq(Signals)] /\ \A c \in Commands : Len(inbox[c]) <= Buffer
        /\ \A c \in Commands : process[c] # "none" => phase[c] \in {"started", "forwarding", "done"}
    BY DEF BoxInv, BoxTypeOK, States, Signals
  <1>1. SUFFICES
          /\ dir' \in [Dirs -> States] /\ own' \in Dirs \cup {0}
          /\ phase' \in [Commands -> {"idle", "entered", "started", "forwarding", "done", "failed"}]
          /\ target' \in [Commands -> Dirs \cup {0}]
          /\ process' \in [Commands -> {"none", "up", "exited", "killed"}]
          /\ inbox' \in [Commands -> Seq(Signals)] /\ \A c \in Commands : Len(inbox'[c]) <= Buffer
          /\ \A c \in Commands : process'[c] # "none" => phase'[c] \in {"started", "forwarding", "done"}
    BY DEF BoxInv, BoxTypeOK, States, Signals
  <1>2. <<>> \in Seq(Signals) /\ Len(<<>>) <= Buffer
    BY BoxAssumption
  <1>3. ASSUME NEW s \in Signals
        PROVE  /\ Caught(inbox, s) \in [Commands -> Seq(Signals)]
               /\ \A c \in Commands : Len(Caught(inbox, s)[c]) <= Buffer
    BY <1>0, CaughtType, Zenon
  <1>4. "CHLD" \in Signals /\ "TERM" \in Signals /\ "HUP" \in Signals
    BY DEF Signals
  <1>5. ASSUME NEW c \in Commands, NEW d \in Dirs \cup {0}, Enter(c, d) PROVE <1>1!1
    BY <1>0, <1>2, <1>5 DEF Enter
  <1>6. ASSUME NEW c \in Commands, RunProcess(c) \/ StartForwarding(c) PROVE <1>1!1
    <2>1. UNCHANGED <<dir, own, target, inbox>>
      BY <1>6 DEF RunProcess, StartForwarding
    <2>2. \/ phase' = [phase EXCEPT ![c] = "started"] /\ process' = [process EXCEPT ![c] = "up"]
          \/ phase' = [phase EXCEPT ![c] = "failed"] /\ process' = process /\ phase[c] = "entered"
          \/ phase' = [phase EXCEPT ![c] = "forwarding"] /\ process' = process
      BY <1>6, Zenon DEF RunProcess, StartForwarding
    <2> QED BY <1>0, <2>1, <2>2, Zenon
  <1>7. ASSUME NEW c \in Commands, Forward(c) PROVE <1>1!1
    <2> DEFINE rest == [inbox EXCEPT ![c] = Tail(inbox[c])]
    <2>1. rest \in [Commands -> Seq(Signals)] /\ \A e \in Commands : Len(rest[e]) <= Buffer
      <3>1. inbox[c] \in Seq(Signals) /\ inbox[c] # <<>>
        BY <1>0, <1>7 DEF Forward
      <3>2. Tail(inbox[c]) \in Seq(Signals) /\ Len(Tail(inbox[c])) <= Len(inbox[c])
        BY <3>1
      <3>3. Len(Tail(inbox[c])) <= Buffer
        BY <1>0, <3>1, <3>2, BoxAssumption
      <3> QED BY <1>0, <3>2, <3>3
    <2>2. /\ Caught(rest, "CHLD") \in [Commands -> Seq(Signals)]
          /\ \A e \in Commands : Len(Caught(rest, "CHLD")[e]) <= Buffer
      BY <1>4, <2>1, CaughtType, Zenon
    <2> HIDE DEF rest
    <2>3. inbox' \in {rest, Caught(rest, "CHLD")} /\ UNCHANGED <<dir, own, target>>
      BY <1>7, Zenon DEF Forward, rest
    <2>4. /\ phase' = phase \/ phase' = [phase EXCEPT ![c] = "done"]
          /\ process' = process \/ (process' = [process EXCEPT ![c] = "killed"] /\ phase' = phase)
          /\ phase[c] = "forwarding"
      BY <1>7, Zenon DEF Forward
    <2> QED BY <1>0, <2>1, <2>2, <2>3, <2>4, ZenonT(30)
  <1>8. ASSUME NEW c \in Commands, ProcessExits(c) PROVE <1>1!1
    BY <1>0, <1>3, <1>4, <1>8 DEF ProcessExits
  <1>9. ASSUME NEW c \in Commands, Return(c) PROVE <1>1!1
    BY <1>0, <1>2, <1>9 DEF Return
  <1>10. CASE CreateContainer \/ RunContainer
    BY <1>0, <1>10 DEF CreateContainer, RunContainer, States
  <1>11. CASE ContainerStops
    BY <1>0, <1>3, <1>4, <1>11 DEF ContainerStops, States
  <1>12. ASSUME NEW d \in [Dirs -> States], DaemonGone(d) PROVE <1>1!1
    BY <1>2, <1>12 DEF DaemonGone
  <1>13. ASSUME NEW s \in {"TERM", "HUP"}, Signalled(s) PROVE <1>1!1
    BY <1>0, <1>3, <1>4, <1>13 DEF Signalled
  <1>14. CASE UNCHANGED boxVars
    BY <1>0, <1>14 DEF boxVars
  <1> QED BY <1>5, <1>6, <1>7, <1>8, <1>9, <1>10, <1>11, <1>12, <1>13, <1>14 DEF BoxMove, Quietly, Working

(***************************************************************************)
(* Nothing but a call takes a command out of idle.                         *)
(***************************************************************************)
LEMMA StaysIdle ==
    ASSUME BoxInv, Quietly, NEW e \in Commands, phase[e] = "idle"
    PROVE  phase'[e] = "idle"
  <1>0. phase \in [Commands -> {"idle", "entered", "started", "forwarding", "done", "failed"}]
    BY DEF BoxInv, BoxTypeOK
  <1>1. ASSUME NEW c \in Commands, Working(c) PROVE phase'[e] = "idle"
    <2>1. phase[c] # "idle" /\ (phase' = phase \/ \E p : phase' = [phase EXCEPT ![c] = p])
      BY <1>1, Zenon DEF Working, RunProcess, StartForwarding, Forward
    <2> QED BY <1>0, <2>1
  <1>2. ASSUME NEW c \in Commands, ProcessExits(c) \/ Return(c) PROVE phase'[e] = "idle"
    BY <1>0, <1>2 DEF ProcessExits, Return
  <1>3. CASE CreateContainer \/ RunContainer \/ ContainerStops \/ UNCHANGED boxVars
    BY <1>3 DEF CreateContainer, RunContainer, ContainerStops, boxVars
  <1>4. ASSUME NEW d, DaemonGone(d) PROVE phase'[e] = "idle"
    BY <1>4 DEF DaemonGone
  <1> QED BY <1>1, <1>2, <1>3, <1>4 DEF Quietly, Signalled

\* The channel of an active command holds no SIGHUP and no two equal signals in a row, and a
\* SIGCHLD if the command's process has ended.
SignalsKept ==
    \A c \in Commands : phase[c] \in Active =>
        /\ Alternating(inbox[c]) /\ Quiet(inbox[c])
        /\ process[c] \in {"exited", "killed"} => HasChild(inbox[c])

(***************************************************************************)
(* No step of the commands or of the container loses the SIGCHLD of a      *)
(* process that has ended.                                                 *)
(***************************************************************************)
LEMMA KeepsSignals ==
    ASSUME Buffer >= 2, "hangupForwarded" \notin Faults, BoxInv, SignalsKept, BoxMove
    PROVE  SignalsKept'
  <1>0. /\ phase \in [Commands -> {"idle", "entered", "started", "forwarding", "done", "failed"}]
        /\ process \in [Commands -> {"none", "up", "exited", "killed"}]
        /\ inbox \in [Commands -> Seq(Signals)] /\ \A c \in Commands : Len(inbox[c]) <= Buffer
        /\ \A c \in Commands : process[c] # "none" => phase[c] \in {"started", "forwarding", "done"}
    BY DEF BoxInv, BoxTypeOK, Signals
  <1>1. SUFFICES ASSUME NEW e \in Commands, phase'[e] \in Active
                 PROVE  /\ Alternating(inbox'[e]) /\ Quiet(inbox'[e])
                        /\ process'[e] \in {"exited", "killed"} => HasChild(inbox'[e])
    BY Zenon DEF SignalsKept
  <1>2. phase[e] \in Active => /\ Alternating(inbox[e]) /\ Quiet(inbox[e])
                               /\ process[e] \in {"exited", "killed"} => HasChild(inbox[e])
    BY DEF SignalsKept
  <1>3. CASE phase'[e] = phase[e] /\ inbox'[e] = inbox[e] /\ process'[e] = process[e]
    BY <1>1, <1>2, <1>3
  <1>4. ASSUME NEW s \in {"CHLD", "TERM"}, phase'[e] = phase[e], inbox'[e] = Caught(inbox, s)[e],
               s = "CHLD" \/ process'[e] = process[e]
        PROVE  <1>1!1!3
    <2>1. s \in Signals
      BY DEF Signals
    <2>2. inbox'[e] = Queued(inbox[e], s)
      BY <1>0, <1>1, <1>4, <2>1, CaughtType, Zenon
    <2>3. phase[e] \in Active
      BY <1>1, <1>4
    <2>4. inbox[e] \in Seq(Signals) /\ Len(inbox[e]) <= Buffer
      BY <1>0
    <2>5. /\ Alternating(inbox'[e]) /\ Quiet(inbox'[e])
          /\ HasChild(inbox[e]) \/ s = "CHLD" => HasChild(inbox'[e])
      BY <1>2, <2>2, <2>3, <2>4, QueuedChild, Zenon
    <2> QED BY <1>2, <1>4, <2>3, <2>5
  <1>5. ASSUME NEW c \in Commands, NEW d \in Dirs \cup {0}, Enter(c, d) PROVE <1>1!1!3
    <2>1. CASE e = c
      <3>1. inbox'[e] = <<>> /\ process'[e] = "none"
        BY <1>0, <1>5, <2>1, Zenon DEF Enter
      <3> QED BY <3>1 DEF Alternating, Quiet
    <2>2. CASE e # c
      BY <1>0, <1>3, <1>5, <2>2 DEF Enter
    <2> QED BY <2>1, <2>2
  <1>6. ASSUME NEW c \in Commands, RunProcess(c) PROVE <1>1!1!3
    <2>1. CASE e = c
      <3>1. phase[e] = "entered" /\ inbox'[e] = inbox[e] /\ process'[e] \in {"up", process[e]}
        BY <1>0, <1>6, <2>1, Zenon DEF RunProcess
      <3> QED BY <1>0, <1>2, <3>1 DEF Active
    <2>2. CASE e # c
      <3>1. phase'[e] = phase[e] /\ inbox'[e] = inbox[e] /\ process'[e] = process[e]
        BY <1>0, <1>6, <2>2, Zenon DEF RunProcess
      <3> QED BY <1>3, <3>1
    <2> QED BY <2>1, <2>2
  <1>7. ASSUME NEW c \in Commands, StartForwarding(c) PROVE <1>1!1!3
    <2>1. phase[c] = "started" /\ phase' = [phase EXCEPT ![c] = "forwarding"]
          /\ inbox' = inbox /\ process' = process
      BY <1>7, Zenon DEF StartForwarding
    <2>2. phase[e] \in Active
      <3>1. CASE e = c
        BY <2>1, <3>1 DEF Active
      <3>2. CASE e # c
        BY <1>0, <1>1, <2>1, <3>2, Zenon
      <3> QED BY <3>1, <3>2
    <2> QED BY <1>2, <2>1, <2>2
  <1>8. ASSUME NEW c \in Commands, ProcessExits(c) PROVE <1>1!1!3
    BY <1>4, <1>8 DEF ProcessExits
  <1>9. ASSUME NEW c \in Commands, Return(c) PROVE <1>1!1!3
    <2>1. phase'[c] = "idle"
      BY <1>0, <1>9 DEF Return
    <2>2. e # c
      BY <1>1, <2>1 DEF Active
    <2> QED BY <1>0, <1>3, <1>9, <2>2 DEF Return
  <1>10. CASE CreateContainer \/ RunContainer \/ UNCHANGED boxVars
    BY <1>3, <1>10, Zenon DEF CreateContainer, RunContainer, boxVars
  <1>11. CASE ContainerStops
    BY <1>4, <1>11 DEF ContainerStops
  <1>12. ASSUME NEW d, DaemonGone(d) PROVE <1>1!1!3
    BY <1>1, <1>12 DEF DaemonGone, Active
  <1>13. ASSUME NEW s \in {"TERM", "HUP"}, Signalled(s) PROVE <1>1!1!3
    BY <1>1, <1>4, <1>13, Zenon DEF Signalled
  <1>14. ASSUME NEW c \in Commands, Forward(c) PROVE <1>1!1!3
    <2> DEFINE rest == [inbox EXCEPT ![c] = Tail(inbox[c])]
    <2>0. phase[c] = "forwarding" /\ inbox[c] # <<>> /\ inbox[c] \in Seq(Signals)
      BY <1>0, <1>14, Zenon DEF Forward
    <2>1. /\ Tail(inbox[c]) \in Seq(Signals) /\ Len(Tail(inbox[c])) = Len(inbox[c]) - 1
          /\ Alternating(inbox[c]) => Alternating(Tail(inbox[c]))
          /\ Quiet(inbox[c]) => Quiet(Tail(inbox[c]))
          /\ HasChild(inbox[c]) /\ Head(inbox[c]) # "CHLD" => HasChild(Tail(inbox[c]))
      BY <2>0, TailBox
    <2>2. /\ rest \in [Commands -> Seq(Signals)] /\ \A x \in Commands : Len(rest[x]) <= Buffer
          /\ rest[c] = Tail(inbox[c]) /\ \A x \in Commands : x # c => rest[x] = inbox[x]
      <3>1. Len(Tail(inbox[c])) <= Buffer
        <4>1. Len(inbox[c]) \in Nat /\ Len(inbox[c]) <= Buffer /\ Buffer \in Nat
          BY <1>0, <2>0, BoxAssumption
        <4> QED BY <2>1, <4>1
      <3> QED BY <1>0, <2>1, <3>1
    <2> HIDE DEF rest
    <2>3. \/ /\ Head(inbox[c]) = "CHLD" /\ inbox' = rest /\ process' = process
             /\ phase' = IF process[c] # "up" THEN [phase EXCEPT ![c] = "done"] ELSE phase
          \/ /\ Head(inbox[c]) # "CHLD" /\ phase' = phase /\ process[c] # "up"
             /\ inbox' = rest /\ process' = process
          \/ /\ phase' = phase /\ process[c] = "up" /\ inbox' = Caught(rest, "CHLD")
             /\ process' = [process EXCEPT ![c] = "killed"]
      BY <1>14, Zenon DEF Forward, rest
    <2>4. CASE inbox' = Caught(rest, "CHLD") /\ phase' = phase
      <3>1. inbox'[e] = Queued(rest[e], "CHLD")
        <4>1. "CHLD" \in Signals
          BY DEF Signals
        <4> QED BY <1>1, <2>2, <2>4, <4>1, CaughtType, Zenon
      <3>2. Alternating(rest[e]) /\ Quiet(rest[e]) /\ rest[e] \in Seq(Signals) /\ Len(rest[e]) <= Buffer
        BY <1>1, <1>2, <2>1, <2>2, <2>4, Zenon
      <3>3. Alternating(inbox'[e]) /\ Quiet(inbox'[e]) /\ HasChild(inbox'[e])
        BY <3>1, <3>2, QueuedChild, Zenon
      <3> QED BY <3>3
    <2>5. CASE e # c /\ inbox' = rest /\ process' = process
      <3>1. phase'[e] = phase[e]
        BY <1>0, <2>3, <2>5, Zenon
      <3> QED BY <1>3, <2>2, <2>5, <3>1
    <2>6. CASE e = c /\ inbox' = rest /\ process' = process
      <3>1. Alternating(inbox'[e]) /\ Quiet(inbox'[e])
        BY <1>2, <2>0, <2>1, <2>2, <2>6, Zenon DEF Active
      <3>2. process[c] = "up" \/ (Head(inbox[c]) # "CHLD" /\ phase' = phase)
        <4>1. CASE process[c] # "up" /\ phase' = [phase EXCEPT ![c] = "done"]
          BY <1>0, <1>1, <2>6, <4>1 DEF Active
        <4> QED BY <2>3, <2>6, <4>1, Zenon
      <3>3. process'[e] \in {"exited", "killed"} => HasChild(inbox'[e])
        BY <1>2, <2>0, <2>1, <2>2, <2>6, <3>2, Zenon DEF Active
      <3> QED BY <3>1, <3>3
    <2> QED BY <2>3, <2>4, <2>5, <2>6
  <1> QED BY <1>5, <1>6, <1>7, <1>8, <1>9, <1>10, <1>11, <1>12, <1>13, <1>14, Zenon
          DEF BoxMove, Quietly, Working

\* A command waits for its process.
Attended == \A c \in Commands : process[c] = "up" => phase[c] \in Active

(***************************************************************************)
(* No command is over while its process is up.                             *)
(***************************************************************************)
LEMMA KeepsAttended ==
    ASSUME BoxInv, Attended, BoxMove
    PROVE  Attended'
  <1>0. /\ phase \in [Commands -> {"idle", "entered", "started", "forwarding", "done", "failed"}]
        /\ process \in [Commands -> {"none", "up", "exited", "killed"}]
        /\ \A c \in Commands : process[c] # "none" => phase[c] \in {"started", "forwarding", "done"}
    BY DEF BoxInv, BoxTypeOK
  <1>1. SUFFICES ASSUME NEW e \in Commands, process'[e] = "up" PROVE phase'[e] \in Active
    BY Zenon DEF Attended
  <1>2. process[e] = "up" => phase[e] \in Active
    BY DEF Attended
  <1>3. CASE phase'[e] = phase[e] /\ process[e] = "up"
    BY <1>2, <1>3
  <1>4. ASSUME NEW c \in Commands, NEW d, Enter(c, d) PROVE phase'[e] \in Active
    BY <1>0, <1>1, <1>3, <1>4 DEF Enter
  <1>5. ASSUME NEW c \in Commands, RunProcess(c) PROVE phase'[e] \in Active
    <2>1. \/ phase' = [phase EXCEPT ![c] = "started"] /\ process' = [process EXCEPT ![c] = "up"]
          \/ phase[c] = "entered" /\ phase' = [phase EXCEPT ![c] = "failed"] /\ process' = process
      BY <1>5, Zenon DEF RunProcess
    <2> QED BY <1>0, <1>1, <1>2, <2>1 DEF Active
  <1>6. ASSUME NEW c \in Commands, StartForwarding(c) PROVE phase'[e] \in Active
    <2>1. phase' = [phase EXCEPT ![c] = "forwarding"] /\ process' = process
      BY <1>6 DEF StartForwarding
    <2> QED BY <1>0, <1>1, <1>2, <2>1 DEF Active
  <1>7. ASSUME NEW c \in Commands, Forward(c) PROVE phase'[e] \in Active
    <2>1. \/ phase' = phase
          \/ process[c] # "up" /\ process' = process /\ phase' = [phase EXCEPT ![c] = "done"]
      BY <1>7, Zenon DEF Forward
    <2>2. process' = process \/ process' = [process EXCEPT ![c] = "killed"]
      BY <1>7, Zenon DEF Forward
    <2>3. process[e] = "up"
      BY <1>0, <1>1, <2>2
    <2> QED BY <1>0, <1>1, <1>2, <2>1, <2>3
  <1>8. ASSUME NEW c \in Commands, ProcessExits(c) \/ Return(c) PROVE phase'[e] \in Active
    BY <1>0, <1>1, <1>3, <1>8 DEF ProcessExits, Return
  <1>9. CASE CreateContainer \/ RunContainer \/ ContainerStops \/ UNCHANGED boxVars
    BY <1>0, <1>1, <1>3, <1>9 DEF CreateContainer, RunContainer, ContainerStops, boxVars
  <1>10. ASSUME NEW d, DaemonGone(d) PROVE phase'[e] \in Active
    BY <1>1, <1>10 DEF DaemonGone
  <1>11. ASSUME NEW s, Signalled(s) PROVE phase'[e] \in Active
    BY <1>1, <1>3, <1>11 DEF Signalled
  <1> QED BY <1>4, <1>5, <1>6, <1>7, <1>8, <1>9, <1>10, <1>11 DEF BoxMove, Quietly, Working

-----------------------------------------------------------------------------
(* The actions of the daemon. *)

\* The variables of the daemon and of the devices are in their ranges; the listener has an
\* event while it runs a command, and the monitor a round to count.
DaemonTyped ==
    /\ handler \in {"none", "on", "stopping", "calling", "gone"} /\ sig \in {"none", "TERM", "HUP"}
    /\ told \in BOOLEAN /\ halting \in BOOLEAN /\ polls \in 0..MaxPolls /\ events \in 0..MaxEvents
    /\ host \in Devs /\ node \in Devs
    /\ job.act \in {"none", "add", "remove"} /\ queue \in Seq(Events)
    /\ phase["listener"] # "idle"
           => job \in [act : {"add", "remove"}, dev : Devices, number : Numbers \cup {0}]
    /\ phase["monitor"] # "idle" => polls < MaxPolls

DaemonInv == BoxInv /\ DaemonTyped

(***************************************************************************)
(* What the actions of the daemon do to the containers and commands.       *)
(***************************************************************************)
LEMMA QuietActions ==
    ASSUME DaemonInv,
           \/ Proceeds /\ ~(stop \/ NextEvent \/ getStatus)
           \/ \E c \in Flags : Start(c)
           \/ StartFails \/ Killed \/ InitDies \/ Terminate \/ Hangup
           \/ \E d \in Devices : DeviceChanges(d)
           \/ UNCHANGED nodeVars
    PROVE  Quietly
  <1>0. dir \in [Dirs -> States] /\ {"stop", "listener", "monitor"} \subseteq Commands
    BY NodeAssumption DEF DaemonInv, BoxInv, BoxTypeOK, States
  <1>1. CASE Configure \/ newUdevListener \/ Started \/ HandleSignal \/ \E c \in Flags : Start(c)
    BY <1>1 DEF Configure, newUdevListener, Started, HandleSignal, Start, Quietly
  <1>2. CASE (\E d \in Devices : DeviceChanges(d)) \/ UNCHANGED nodeVars
    BY <1>2, Zenon DEF DeviceChanges, nodeVars, Quietly
  <1>3. CASE Create \/ Run \/ InitDies \/ Halts
    BY <1>3 DEF Create, Run, InitDies, Halts, Quietly
  <1>4. ASSUME NEW d \in [Dirs -> States], NEW r, Exit(d, r) PROVE Quietly
    BY <1>4 DEF Exit, Quietly
  <1>5. CASE StartFails \/ WaitReturns
    <2>1. Destroyed \in [Dirs -> States]
      BY <1>0, Zenon DEF Destroyed, States
    <2> QED BY <1>4, <1>5, <2>1 DEF StartFails, WaitReturns
  <1>6. CASE StartRefused
    BY <1>0, <1>4, <1>6 DEF StartRefused
  <1>7. CASE Killed
    <2> DEFINE down == [d \in Dirs |-> IF d = own /\ dir[d] \in {"created", "running"}
                                       THEN "stopped" ELSE dir[d]]
    <2>1. down \in [Dirs -> States]
      BY <1>0 DEF States
    <2>2. PICK d \in {down, dir}, r \in LeftByKill : Exit(d, r)
      BY <1>7, Zenon DEF Killed
    <2> QED BY <1>0, <1>4, <2>1, <2>2
  <1>8. CASE Terminate \/ Hangup
    <2>1. CASE Terminate
      BY <2>1 DEF Terminate, Arrives, Signalled, Quietly
    <2>2. CASE Hangup
      BY <2>2 DEF Hangup, Arrives, Signalled, Quietly, Active
    <2> QED BY <1>8, <2>1, <2>2
  <1>9. CASE HaltAccepted \/ DeviceDone \/ StatusKnown
    BY <1>0, <1>9 DEF HaltAccepted, DeviceDone, StatusKnown, Quietly
  <1>10. CASE StopReturns \/ ListenerReturns \/ monitorUnits
    BY <1>0, <1>10 DEF StopReturns, ListenerReturns, monitorUnits, Quietly
  <1>11. CASE CommandStep
    BY <1>11 DEF CommandStep, Quietly
  <1> QED BY <1>1, <1>2, <1>3, <1>5, <1>6, <1>7, <1>8, <1>9, <1>10, <1>11 DEF Proceeds

(***************************************************************************)
(* The three actions that call a command.                                  *)
(***************************************************************************)
LEMMA CallingActions ==
    ASSUME DaemonInv, stop \/ NextEvent \/ getStatus
    PROVE  BoxMove
  <1>0. /\ dir \in [Dirs -> States] /\ own \in Dirs \cup {0}
        /\ {"stop", "listener", "monitor"} \subseteq Commands
    BY NodeAssumption DEF DaemonInv, BoxInv, BoxTypeOK, States
  <1>1. getContainer \in Dirs \cup {0}
    BY <1>0, GotContainer DEF States
  <1>2. CASE stop
    BY <1>0, <1>1, <1>2, Zenon DEF stop, BoxMove
  <1>3. CASE NextEvent
    <2>1. Enter("listener", getContainer) \/ UNCHANGED boxVars
      BY <1>3, Zenon DEF NextEvent
    <2> QED BY <1>0, <1>1, <2>1, NoneCalled, Zenon DEF BoxMove
  <1>4. CASE getStatus
    BY <1>0, <1>4, Zenon DEF getStatus, BoxMove
  <1> QED BY <1>2, <1>3, <1>4

(***************************************************************************)
(* Every action of the daemon keeps those ranges.                          *)
(***************************************************************************)
LEMMA DaemonTypes ==
    ASSUME DaemonInv, [NodeNext]_nodeVars
    PROVE  DaemonTyped'
  <1> USE DEF DaemonTyped
  <1>0. /\ DaemonTyped /\ BoxInv /\ {"listener", "monitor", "stop"} \subseteq Commands
        /\ MaxPolls \in Nat /\ MaxEvents \in Nat
    BY NodeAssumption DEF DaemonInv
  <1>1. NoDevices \in Devs /\ <<>> \in Seq(Events) /\ NoJob.act = "none"
    BY DEF NoDevices, Devs, NoJob
  <1>2. Quietly => \A c \in {"listener", "monitor"} : phase[c] = "idle" => phase'[c] = "idle"
    BY <1>0, StaysIdle
  <1>3. Bounded => events' \in 0..MaxEvents
    BY <1>0 DEF Bounded
  <1>4. phase \in [Commands -> {"idle", "entered", "started", "forwarding", "done", "failed"}]
    BY <1>0 DEF BoxInv, BoxTypeOK
  <1>5. ASSUME NEW d, NEW r, Exit(d, r), node' \in Devs, halting' \in BOOLEAN, events' \in 0..MaxEvents
        PROVE  DaemonTyped'
    <2>1. phase'["listener"] = "idle" /\ phase'["monitor"] = "idle"
      BY <1>0, <1>5 DEF Exit, DaemonGone
    <2>2. /\ handler' = "none" /\ sig' = "none" /\ told' = FALSE /\ polls' = 0
          /\ queue' = <<>> /\ job' = NoJob /\ host' = host
      BY <1>5 DEF Exit
    <2>3. polls' \in 0..MaxPolls /\ queue' \in Seq(Events) /\ job'.act = "none" /\ host' \in Devs
      BY <1>0, <1>1, <2>2
    <2> QED BY <1>5, <2>1, <2>2, <2>3, Zenon
  <1>6. CASE StartFails
    BY <1>0, <1>1, <1>3, <1>5, <1>6, Zenon DEF StartFails
  <1>7. CASE StartRefused \/ WaitReturns
    BY <1>0, <1>1, <1>5, <1>7 DEF StartRefused, WaitReturns
  <1>8. CASE Killed
    <2>1. PICK d, r : Exit(d, r)
      BY <1>8, Zenon DEF Killed
    <2> QED BY <1>1, <1>3, <1>5, <1>8, <2>1, Zenon DEF Killed
  <1>9. CASE Quietly /\ UNCHANGED <<daemonVars, deviceVars, events>>
    BY <1>0, <1>2, <1>9 DEF daemonVars, deviceVars
  <1>10. CASE Quietly /\ UNCHANGED nodeVars
    BY <1>9, <1>10 DEF nodeVars
  <1>11. CASE Quietly /\ (Configure \/ newUdevListener \/ Run \/ Started \/ StatusKnown \/ CommandStep)
    BY <1>9, <1>11 DEF Configure, newUdevListener, Run, Started, StatusKnown, CommandStep
  <1>12. CASE Quietly /\ Create
    BY <1>0, <1>2, <1>12 DEF Create, daemonVars
  <1>13. CASE Quietly /\ (Halts \/ InitDies)
    BY <1>0, <1>1, <1>2, <1>3, <1>13, Zenon DEF Halts, InitDies
  <1>14. CASE Quietly /\ (HandleSignal \/ HaltAccepted \/ StopReturns)
    BY <1>0, <1>2, <1>14, Zenon DEF HandleSignal, HaltAccepted, StopReturns, deviceVars
  <1>15. CASE Quietly /\ (Terminate \/ Hangup)
    BY <1>0, <1>2, <1>3, <1>15, Zenon DEF Terminate, Hangup, Arrives, deviceVars
  <1>16. ASSUME NEW c \in Flags, Start(c), Quietly PROVE DaemonTyped'
    BY <1>0, <1>2, <1>3, <1>16 DEF Start, deviceVars
  <1>17. ASSUME NEW d \in Devices, DeviceChanges(d), Quietly PROVE DaemonTyped'
    <2>1. queue' \in Seq(Events)
      <3>1. [act |-> "add", dev |-> d] \in Events /\ [act |-> "remove", dev |-> d] \in Events
        BY DEF Events
      <3>2. queue' \in {queue, Append(queue, [act |-> "add", dev |-> d]),
                         Append(queue, [act |-> "remove", dev |-> d])}
        BY <1>17, Zenon DEF DeviceChanges, Announce
      <3>3. queue \in Seq(Events)
        BY <1>0
      <3> HIDE DEF Events
      <3> QED BY <3>1, <3>2, <3>3
    <2>2. host' \in Devs
      BY <1>0, <1>17 DEF DeviceChanges, Devs
    <2>3. UNCHANGED <<boxVars, daemonVars, node, job>> /\ events' \in 0..MaxEvents
      BY <1>3, <1>17 DEF DeviceChanges
    <2> QED BY <1>0, <2>1, <2>2, <2>3 DEF boxVars, daemonVars
  <1>18. CASE Quietly /\ DeviceDone
    <2>1. node' \in Devs
      <3>1. phase["listener"] # "idle"
        BY <1>0, <1>18 DEF DeviceDone, ProcessExits, BoxInv
      <3>2. job.act \in {"add", "remove"} /\ job.number \in Numbers \cup {0}
        BY <1>0, <3>1
      <3>3. createDevice(job.dev, job.number) \in Devs /\ removeDevice(job.dev) \in Devs
        BY <1>0, <3>2, Zenon DEF createDevice, removeDevice, Devs
      <3>4. node' = CASE target["listener"] # own -> node
                      [] job.act = "add" -> createDevice(job.dev, job.number)
                      [] job.act = "remove" -> removeDevice(job.dev)
        BY <1>18 DEF DeviceDone
      <3> QED BY <1>0, <3>2, <3>3, <3>4
    <2>2. UNCHANGED <<daemonVars, host, queue, job, events>>
      BY <1>18 DEF DeviceDone
    <2> QED BY <1>0, <1>2, <1>18, <2>1, <2>2 DEF daemonVars
  <1>19. CASE Quietly /\ ListenerReturns
    <2>1. phase'["listener"] = "idle"
      BY <1>0, <1>4, <1>19, Zenon DEF ListenerReturns, Return
    <2> QED BY <1>0, <1>1, <1>2, <1>19, <2>1, Zenon DEF ListenerReturns, daemonVars
  <1>20. CASE Quietly /\ monitorUnits
    <2>1. polls < MaxPolls /\ polls' \in 0..MaxPolls /\ phase'["monitor"] = "idle"
      BY <1>0, <1>4, <1>20 DEF monitorUnits, Return
    <2> QED BY <1>0, <1>2, <1>20, <2>1 DEF monitorUnits, deviceVars
  <1>21. CASE stop
    <2>1. phase'["listener"] = phase["listener"] /\ phase'["monitor"] = phase["monitor"]
      BY <1>0, <1>4, <1>21, Zenon DEF stop, Enter
    <2> QED BY <1>0, <1>21, <2>1 DEF stop, deviceVars
  <1>22. CASE getStatus
    <2>1. phase'["listener"] = phase["listener"] /\ polls < MaxPolls
      BY <1>0, <1>4, <1>22 DEF getStatus, Enter
    <2> QED BY <1>0, <1>22, <2>1 DEF getStatus, daemonVars, deviceVars
  <1>23. CASE NextEvent
    <2>0. queue # <<>> /\ queue' = Tail(queue) /\ queue \in Seq(Events)
      BY <1>0, <1>23, Zenon DEF NextEvent
    <2>1. queue # <<>> /\ queue' = Tail(queue) /\ Head(queue) \in Events /\ queue' \in Seq(Events)
      BY <2>0
    <2>2. UNCHANGED <<daemonVars, host, node, events>>
      BY <1>23 DEF NextEvent
    <2>3. CASE UNCHANGED <<boxVars, job>>
      BY <1>0, <2>1, <2>2, <2>3 DEF daemonVars, boxVars
    <2>4. CASE Enter("listener", getContainer) /\ job' = [act |-> Head(queue).act,
                     dev |-> Head(queue).dev, number |-> host[Head(queue).dev]]
      <3>1. job' \in [act : {"add", "remove"}, dev : Devices, number : Numbers \cup {0}]
        BY <1>0, <2>1, <2>4, Zenon DEF Events, Devs
      <3>2. phase'["monitor"] = phase["monitor"]
        BY <1>0, <1>4, <2>4 DEF Enter
      <3> QED BY <1>0, <2>1, <2>2, <3>1, <3>2, Zenon DEF daemonVars
    <2> QED BY <1>23, <2>3, <2>4, Zenon DEF NextEvent
  <1> HIDE DEF DaemonTyped
  <1>24. Quietly \/ stop \/ NextEvent \/ getStatus
    BY QuietActions DEF NodeNext
  <1> QED BY <1>6, <1>7, <1>8, <1>10, <1>11, <1>12, <1>13, <1>14, <1>15, <1>16, <1>17, <1>18,
             <1>19, <1>20, <1>21, <1>22, <1>23, <1>24 DEF NodeNext, Proceeds

(***************************************************************************)
(* The invariant of types is inductive: it holds when the host is new.     *)
(***************************************************************************)
LEMMA DaemonInvInit == NodeInit => DaemonInv
  <1> SUFFICES ASSUME NodeInit PROVE DaemonInv
    OBVIOUS
  <1>1. BoxInv
    <2>1. <<>> \in Seq({"CHLD", "TERM", "HUP"}) /\ Len(<<>>) <= Buffer
      BY BoxAssumption
    <2> QED BY <2>1, BoxAssumption DEF NodeInit, BoxInit, BoxInv, BoxTypeOK
  <1>2. DaemonTyped
    <2>1. /\ "listener" \in Commands /\ "monitor" \in Commands /\ MaxPolls \in Nat /\ MaxEvents \in Nat
          /\ (CHOOSE n \in Numbers : TRUE) \in Numbers
      BY NodeAssumption
    <2>2. host \in Devs /\ node \in Devs /\ queue \in Seq(Events) /\ job.act = "none"
      BY <2>1 DEF NodeInit, Devs, NoDevices, NoJob
    <2>3. phase["listener"] = "idle" /\ phase["monitor"] = "idle"
      BY <2>1 DEF NodeInit, BoxInit
    <2>4. polls \in 0..MaxPolls /\ events \in 0..MaxEvents
      BY <2>1 DEF NodeInit
    <2>5. handler = "none" /\ sig = "none" /\ told = FALSE /\ halting = FALSE
      BY DEF NodeInit
    <2> QED BY <2>2, <2>3, <2>4, <2>5, Zenon DEF DaemonTyped
  <1> QED BY <1>1, <1>2 DEF DaemonInv

(***************************************************************************)
(* And every step of the daemon keeps it.                                  *)
(***************************************************************************)
LEMMA DaemonInvStep == DaemonInv /\ [NodeNext]_nodeVars => DaemonInv'
  <1> SUFFICES ASSUME DaemonInv, [NodeNext]_nodeVars PROVE DaemonInv'
    OBVIOUS
  <1>1. BoxMove
    BY QuietActions, CallingActions DEF NodeNext, BoxMove
  <1>2. BoxInv'
    BY <1>1, BoxTypes DEF DaemonInv
  <1>3. DaemonTyped'
    BY DaemonTypes
  <1> QED BY <1>2, <1>3 DEF DaemonInv

-----------------------------------------------------------------------------
(* The container and the commands that run in it. *)

\* The containers of daemons before this one have stopped, and the daemon has one of its own
\* from Create on.
OwnContainer ==
    /\ \A d \in Dirs : dir[d] \in {"created", "running"} => d = own
    /\ own = 0 <=> step \notin {"run", "wait"}
    /\ own # 0 => dir[own] # "none"
    /\ step = "wait" => dir[own] \in {"running", "stopped"}

(***************************************************************************)
(* Every step keeps OwnContainer, if a kill takes the container with the   *)
(* daemon and a container that runs answers for its status.                *)
(***************************************************************************)
LEMMA KeepsContainer ==
    ASSUME {"killedAlone", "statusFails"} \cap Faults = {}, DaemonInv, OwnContainer,
           [NodeNext]_nodeVars
    PROVE  OwnContainer'
  <1> USE DEF OwnContainer
  <1>0. dir \in [Dirs -> States] /\ own \in Dirs \cup {0} /\ 0 \notin Dirs
    BY BoxAssumption DEF DaemonInv, BoxInv, BoxTypeOK, States
  <1>1. CASE UNCHANGED <<step, dir, own>>
    BY <1>1
  <1>2. CASE /\ step \notin {"run", "wait"} /\ step' \notin {"run", "wait"}
             /\ UNCHANGED <<dir, own>>
    BY <1>2
  <1>3. ASSUME NEW r, NEW d \in [Dirs -> States], Exit(d, r),
               \A e \in Dirs : d[e] \notin {"created", "running"}
        PROVE  OwnContainer'
    BY <1>0, <1>3 DEF Exit, DaemonGone
  <1>4. CASE Configure
    BY <1>2, <1>4, EarlySteps, Zenon DEF Configure, boxVars
  <1>5. CASE newUdevListener
    BY <1>2, <1>5, Onward DEF newUdevListener, Early, boxVars
  <1>6. ASSUME NEW c \in Flags, Start(c) PROVE OwnContainer'
    BY <1>2, <1>6 DEF Start, startAndWait, boxVars
  <1>7. CASE Create
    <2>1. step = "create" /\ step' = "run" /\ own = 0
      BY <1>7, Onward DEF Create, Becomes
    <2>2. PICK d \in Dirs : dir[d] = "none" /\ own' = d /\ dir' = [dir EXCEPT ![d] = "empty"]
      BY <1>7, Zenon DEF Create, CreateContainer
    <2> QED BY <1>0, <2>1, <2>2
  <1>8. CASE Run
    <2>1. own # 0 /\ own' = own /\ step' = step /\ step = "run"
          /\ (dir' = [dir EXCEPT ![own] = "created"] \/ dir' = [dir EXCEPT ![own] = "running"])
      BY <1>8, Zenon DEF Run, RunContainer, startVars
    <2> QED BY <1>0, <2>1
  <1>9. CASE Started
    BY <1>0, <1>9, Onward DEF Started, Becomes, boxVars
  <1>10. CASE InitDies \/ Halts
    <2>1. own # 0 /\ own' = own /\ step' = step /\ dir' = [dir EXCEPT ![own] = "stopped"]
      BY <1>10 DEF InitDies, Halts, ContainerStops, startVars
    <2> QED BY <1>0, <2>1, Zenon
  <1>11. CASE StartFails \/ WaitReturns
    <2>1. PICK r : Exit(Destroyed, r)
      BY <1>11 DEF StartFails, WaitReturns
    <2>2. own = 0 \/ dir[own] # "running"
      BY <1>11 DEF StartFails, WaitReturns, Running
    <2>3. Destroyed = IF own = 0 THEN dir ELSE [dir EXCEPT ![own] = "none"]
      BY <2>2 DEF Destroyed
    <2>4. /\ Destroyed \in [Dirs -> States]
          /\ \A e \in Dirs : Destroyed[e] \notin {"created", "running"}
      BY <1>0, <2>3 DEF States
    <2> QED BY <1>3, <2>1, <2>4
  <1>12. CASE StartRefused
    <2>1. own = 0 /\ Exit(dir, rootfs)
      BY <1>12 DEF StartRefused, Refused
    <2> QED BY <1>0, <1>3, <2>1, Zenon
  <1>13. CASE Killed
    <2> DEFINE down == [d \in Dirs |-> IF d = own /\ dir[d] \in {"created", "running"}
                                       THEN "stopped" ELSE dir[d]]
    <2>1. down \in [Dirs -> States] /\ \A e \in Dirs : down[e] \notin {"created", "running"}
      BY <1>0 DEF States
    <2>2. PICK d \in {down}, r \in LeftByKill : Exit(d, r)
      <3>1. "killedAlone" \notin Faults
        OBVIOUS
      <3>2. \E d \in {down} \cup {}, r \in LeftByKill : Exit(d, r)
        BY <1>13, <3>1, Zenon DEF Killed
      <3> QED BY <3>2, Zenon
    <2> HIDE DEF down
    <2> QED BY <1>3, <2>1, <2>2
  <1>14. CASE HandleSignal \/ stop \/ HaltAccepted \/ StopReturns \/ Terminate \/ Hangup
    BY <1>1, <1>14 DEF HandleSignal, stop, HaltAccepted, StopReturns, Terminate, Hangup, Arrives,
                       startVars, boxVars, Enter, ProcessExits, Return
  <1>15. CASE NextEvent \/ DeviceDone \/ ListenerReturns \/ \E d \in Devices : DeviceChanges(d)
    BY <1>1, <1>15, Zenon DEF NextEvent, DeviceDone, ListenerReturns, DeviceChanges,
                       startVars, boxVars, Enter, ProcessExits, Return
  <1>16. CASE getStatus \/ StatusKnown \/ monitorUnits \/ CommandStep
    BY <1>1, <1>16, Zenon DEF getStatus, StatusKnown, monitorUnits, CommandStep, Working,
                       startVars, Enter, ProcessExits, Return, RunProcess, StartForwarding, Forward
  <1>17. CASE UNCHANGED nodeVars
    BY <1>1, <1>17, Zenon DEF nodeVars, startVars, boxVars
  <1> HIDE DEF OwnContainer
  <1> QED BY Zenon, <1>4, <1>5, <1>6, <1>7, <1>8, <1>9, <1>10, <1>11, <1>12, <1>13, <1>14, <1>15, <1>16,
             <1>17 DEF NodeNext, Proceeds

(***************************************************************************)
(* In the first state there are only stopped containers.                   *)
(***************************************************************************)
LEMMA ContainerInit == NodeInit => OwnContainer
  BY BoxAssumption DEF NodeInit, StartInit, BoxInit, OwnContainer

(***************************************************************************)
(* A daemon that ends leaves no container running, for any number of state *)
(* directories and of starts, unless one of the faults killedAlone and     *)
(* statusFails happens.                                                    *)
(***************************************************************************)
THEOREM LeavesNothingRunning ==
    ASSUME {"killedAlone", "statusFails"} \cap Faults = {}
    PROVE  NodeSpec => []NothingLeftRunning
  <1> DEFINE Inv == DaemonInv /\ OwnContainer
  <1>1. Inv /\ [NodeNext]_nodeVars => OwnContainer'
    BY KeepsContainer
  <1>2. Inv => NothingLeftRunning
    BY BoxAssumption DEF OwnContainer, NothingLeftRunning
  <1> QED BY <1>1, <1>2, ContainerInit, DaemonInvInit, DaemonInvStep, PTL DEF NodeSpec

(***************************************************************************)
(* A command is called in the running container, if there is one, for all  *)
(* state directories that are left beside it.                              *)
(***************************************************************************)
THEOREM CommandsEnterRunning ==
    ASSUME {"killedAlone", "statusFails"} \cap Faults = {}
    PROVE  NodeSpec => EntersRunning
  <1> DEFINE Inv == DaemonInv /\ OwnContainer
             Entered == \A c \in Commands :
                 (phase[c] = "idle" /\ phase'[c] # "idle" /\ \E d \in Dirs : dir[d] = "running")
                     => phase'[c] = "entered" /\ dir[target'[c]] = "running"
  <1>1. Inv /\ [NodeNext]_nodeVars => OwnContainer'
    BY KeepsContainer, Zenon
  <1>2. ASSUME Inv, [NodeNext]_nodeVars PROVE Entered
    <2> SUFFICES ASSUME NEW c \in Commands, phase[c] = "idle", phase'[c] # "idle",
                        NEW d \in Dirs, dir[d] = "running"
                 PROVE  phase'[c] = "entered" /\ dir[target'[c]] = "running"
      OBVIOUS
    <2>0. /\ phase \in [Commands -> {"idle", "entered", "started", "forwarding", "done", "failed"}]
          /\ dir \in [Dirs -> States] /\ target \in [Commands -> Dirs \cup {0}] /\ BoxInv
      BY <1>2 DEF DaemonInv, BoxInv, BoxTypeOK, States
    <2>1. ~Quietly
      BY <2>0, StaysIdle
    <2>2. ASSUME NEW e, NEW x, Enter(e, x), x # 0, dir[x] = "running"
          PROVE  phase'[c] = "entered" /\ dir[target'[c]] = "running"
      <3>1. e = c
        BY <2>0, <2>2 DEF Enter
      <3> QED BY <2>0, <2>2, <3>1 DEF Enter
    <2>3. getContainer # 0 /\ dir[getContainer] = "running"
      BY <2>0, GotContainer, Zenon DEF States
    <2>4. CASE stop
      BY <2>2, <2>3, <2>4, Zenon DEF stop
    <2>5. CASE NextEvent
      <3>1. Enter("listener", getContainer) \/ UNCHANGED boxVars
        BY <2>5, Zenon DEF NextEvent
      <3> QED BY <2>1, <2>2, <2>3, <3>1, NoneCalled, Zenon
    <2>6. CASE getStatus
      <3>1. own # 0 /\ dir[own] = "running"
        BY <1>2, BoxAssumption DEF OwnContainer
      <3> QED BY <2>2, <2>6, <3>1, Zenon DEF getStatus
    <2> QED BY <1>2, <2>1, <2>4, <2>5, <2>6, QuietActions, Zenon DEF NodeNext
  <1>3. Inv /\ [NodeNext]_nodeVars => [Entered]_boxVars
    BY <1>2
  <1> QED BY <1>1, <1>3, ContainerInit, DaemonInvInit, DaemonInvStep, PTL DEF NodeSpec, EntersRunning

-----------------------------------------------------------------------------
(* The SIGCHLD of a command. *)

(***************************************************************************)
(* A command whose process has ended has seen the SIGCHLD that says so, or *)
(* has it in its channel: it cannot wait for one that was lost.            *)
(***************************************************************************)
ChildSeen ==
    \A c \in Commands :
        process[c] \in {"exited", "killed"} => phase[c] = "done" \/ HasChild(inbox[c])

(***************************************************************************)
(* No command of the daemon misses the end of its process, for any number  *)
(* of commands that end and are signalled in any order, with channels of   *)
(* at least two signals, unless a SIGHUP is forwarded.                     *)
(***************************************************************************)
THEOREM NoChildLost ==
    ASSUME Buffer >= 2, "hangupForwarded" \notin Faults
    PROVE  NodeSpec => []ChildSeen
  <1> DEFINE Inv == DaemonInv /\ SignalsKept
  <1>1. NodeInit => SignalsKept
    BY DEF NodeInit, BoxInit, SignalsKept, Active
  <1>2. Inv /\ [NodeNext]_nodeVars => SignalsKept'
    <2> SUFFICES ASSUME Inv, [NodeNext]_nodeVars PROVE SignalsKept'
      OBVIOUS
    <2>1. BoxMove
      BY QuietActions, CallingActions DEF NodeNext, BoxMove
    <2> QED BY <2>1, KeepsSignals DEF DaemonInv
  <1>3. Inv => ChildSeen
    BY DEF DaemonInv, BoxInv, SignalsKept, ChildSeen, Active
  <1> QED BY <1>1, <1>2, <1>3, DaemonInvInit, DaemonInvStep, PTL DEF NodeSpec

-----------------------------------------------------------------------------
(* The signal to stop. *)

OnlyChild(box) == \A i \in DOMAIN box : box[i] = "CHLD"

(***************************************************************************)
(* A channel that only holds SIGCHLDs stays so when one more is caught,    *)
(* and when one is taken.                                                  *)
(***************************************************************************)
LEMMA ChildrenOnly ==
    ASSUME NEW box \in Seq(Signals), OnlyChild(box)
    PROVE  /\ OnlyChild(Queued(box, "CHLD"))
           /\ box # <<>> => OnlyChild(Tail(box)) /\ Head(box) = "CHLD"
  <1>1. ASSUME box # <<>> PROVE OnlyChild(Tail(box)) /\ Head(box) = "CHLD"
    BY <1>1 DEF OnlyChild
  <1>2. OnlyChild(Append(box, "CHLD"))
    <2>1. "CHLD" \in Signals
      BY DEF Signals
    <2> QED BY <2>1 DEF OnlyChild
  <1>3. Queued(box, "CHLD") \in {box, Append(box, "CHLD")}
    BY DEF Queued
  <1> QED BY <1>1, <1>2, <1>3, Zenon

\* The handler is there as long as the daemon; it calls stop only when told to, and then for
\* the daemon's container, and no signal to terminate comes between.
HandlerInv ==
    /\ handler = "none" <=> step = "off"
    /\ handler \in {"stopping", "calling", "gone"} \/ sig = "TERM" => told
    /\ handler # "calling" => phase["stop"] = "idle"
    /\ phase["stop"] \in Active => target["stop"] = own /\ OnlyChild(inbox["stop"])

\* systemctl halt is about to be run, or runs.
Calling ==
    /\ handler = "calling"
    /\ \/ phase["stop"] = "entered"
       \/ phase["stop"] \in {"started", "forwarding"} /\ process["stop"] = "up"

(***************************************************************************)
(* Once the daemon has been told to stop, its container has stopped, or    *)
(* systemd is halting it, or the signal is on its way there: in the        *)
(* handler's channel, in the handler, in the systemctl halt it runs        *)
(* (setupSignalHandlers, stop).                                            *)
(***************************************************************************)
StopUnderWay ==
    told => /\ own # 0 /\ dir[own] \in {"running", "stopped"}
            /\ dir[own] = "running" => \/ handler = "on" /\ sig = "TERM"
                                       \/ handler = "stopping" \/ Calling \/ halting

StopFaults == {"earlySignal", "burst", "repeatedSignal", "hangupForwarded", "killedAlone",
               "statusFails"}

(***************************************************************************)
(* What the signals do: a signal to terminate waits for the handler.       *)
(***************************************************************************)
LEMMA SignalsWait ==
    ASSUME StopFaults \cap Faults = {}, DaemonInv, HandlerInv, StopUnderWay, Terminate \/ Hangup
    PROVE  HandlerInv' /\ StopUnderWay'
  <1>0. "stop" \in Commands /\ inbox \in [Commands -> Seq(Signals)]
        /\ \A c \in Commands : Len(inbox[c]) <= Buffer
    BY NodeAssumption DEF DaemonInv, BoxInv, BoxTypeOK, Signals
  <1>1. ASSUME NEW s \in {"TERM", "HUP"}, Arrives(s)
        PROVE  /\ UNCHANGED <<step, own, dir, phase, target, process, handler, halting>>
               /\ step # "off" /\ told' = (told \/ s = "TERM")
               /\ sig' = IF sig = "none" THEN s ELSE sig
               /\ phase["stop"] \notin Active => phase'["stop"] \notin Active
    BY <1>1, Zenon DEF Arrives, startVars
  <1>2. CASE Terminate
    <2>1. Arrives("TERM") /\ Running /\ sig = "none" /\ handler \notin {"stopping", "calling"}
      BY <1>2 DEF Terminate, StopFaults
    <2>2. phase["stop"] = "idle"
      BY <2>1 DEF HandlerInv
    <2>3. HandlerInv'
      BY <1>1, <2>1, <2>2, Zenon DEF HandlerInv, Active
    <2>4. handler \in {"on", "gone"}
      BY <1>1, <2>1 DEF HandlerInv, DaemonInv, DaemonTyped
    <2>5. CASE handler = "on"
      BY <1>1, <2>1, <2>3, <2>5, Zenon DEF StopUnderWay, Running
    <2>6. CASE handler = "gone"
      <3>1. told /\ halting
        BY <2>1, <2>6 DEF HandlerInv, StopUnderWay, Running, Calling
      <3> QED BY <1>1, <2>1, <2>3, <3>1 DEF StopUnderWay, Running
    <2> QED BY <2>3, <2>4, <2>5, <2>6
  <1>3. CASE Hangup
    <2>1. Arrives("HUP") /\ phase["stop"] \notin Active
      BY <1>0, <1>3 DEF Hangup, StopFaults, Active
    <2>2. HandlerInv'
      BY <1>1, <2>1, Zenon DEF HandlerInv
    <2>3. StopUnderWay'
      BY <1>1, <2>1, Zenon DEF StopUnderWay, Calling
    <2> QED BY <2>2, <2>3
  <1> QED BY <1>2, <1>3

(***************************************************************************)
(* What the commands do: halt is run to its end, as nothing but SIGCHLDs   *)
(* reaches it, and it is not failed while the container runs.              *)
(***************************************************************************)
LEMMA CommandsKeepStop ==
    ASSUME DaemonInv, HandlerInv, StopUnderWay, CommandStep
    PROVE  HandlerInv' /\ StopUnderWay'
  <1>0. /\ phase \in [Commands -> {"idle", "entered", "started", "forwarding", "done", "failed"}]
        /\ process \in [Commands -> {"none", "up", "exited", "killed"}]
        /\ inbox \in [Commands -> Seq(Signals)] /\ \A c \in Commands : Len(inbox[c]) <= Buffer
        /\ "stop" \in Commands /\ "CHLD" \in Signals
    BY NodeAssumption DEF DaemonInv, BoxInv, BoxTypeOK, Signals
  <1>1. PICK c \in Commands : Working(c)
    BY DEF CommandStep
  <1>2. UNCHANGED <<step, own, dir, target, handler, sig, told, halting>>
    BY Zenon DEF CommandStep, Working, RunProcess, StartForwarding, Forward, startVars, daemonVars
  <1>3. SUFFICES /\ handler # "calling" => phase'["stop"] = "idle"
                 /\ phase'["stop"] \in Active => phase["stop"] \in Active
                 /\ OnlyChild(inbox["stop"]) /\ phase["stop"] \in Active => OnlyChild(inbox'["stop"])
                 /\ told /\ dir[own] = "running" /\ Calling => Calling'
    <2>1. HandlerInv'
      BY <1>2, <1>3, Zenon DEF HandlerInv
    <2>2. StopUnderWay'
      BY <1>2, <1>3, Zenon DEF StopUnderWay
    <2> QED BY <2>1, <2>2
  <1>4. CASE /\ phase'["stop"] = phase["stop"] /\ process'["stop"] = process["stop"]
             /\ OnlyChild(inbox["stop"]) /\ phase["stop"] \in Active => OnlyChild(inbox'["stop"])
    BY <1>2, <1>4, Zenon DEF HandlerInv, Calling
  <1>5. CASE RunProcess(c)
    <2>1. CASE c # "stop"
      <3>1. phase'["stop"] = phase["stop"] /\ process'["stop"] = process["stop"] /\ inbox' = inbox
        BY <1>0, <1>5, <2>1, Zenon DEF RunProcess
      <3> QED BY <1>4, <3>1
    <2>2. CASE c = "stop"
      <3>1. phase["stop"] = "entered" /\ inbox' = inbox
        BY <1>5, <2>2, Zenon DEF RunProcess
      <3>2. CASE dir[target["stop"]] \in {"created", "running"}
        <4>1. /\ phase' = [phase EXCEPT !["stop"] = "started"]
              /\ process' = [process EXCEPT !["stop"] = "up"]
          BY <1>5, <2>2, <3>2, Zenon DEF RunProcess
        <4>2. phase'["stop"] = "started" /\ process'["stop"] = "up"
          BY <1>0, <4>1, Zenon
        <4> QED BY <1>2, <3>1, <4>2 DEF HandlerInv, Calling, Active
      <3>3. CASE dir[target["stop"]] \notin {"created", "running"}
        <4>1. phase'["stop"] = "failed"
          BY <1>0, <1>5, <2>2, <3>3, Zenon DEF RunProcess
        <4>2. dir[own] # "running"
          BY <3>1, <3>3, Zenon DEF HandlerInv, Active
        <4> QED BY <3>1, <4>1, <4>2 DEF HandlerInv, Active
      <3> QED BY <3>2, <3>3
    <2> QED BY <2>1, <2>2, Zenon
  <1>6. CASE StartForwarding(c)
    <2>1. phase[c] = "started" /\ phase' = [phase EXCEPT ![c] = "forwarding"]
          /\ UNCHANGED <<process, inbox>>
      BY <1>6, Zenon DEF StartForwarding
    <2>2. CASE c # "stop"
      BY <1>0, <1>4, <2>1, <2>2, Zenon
    <2>3. CASE c = "stop"
      <3>1. phase["stop"] = "started" /\ phase'["stop"] = "forwarding"
        BY <1>0, <2>1, <2>3, Zenon
      <3> QED BY <1>2, <2>1, <3>1 DEF HandlerInv, Calling, Active
    <2> QED BY <2>2, <2>3
  <1>7. CASE Forward(c)
    <2> DEFINE rest == [inbox EXCEPT ![c] = Tail(inbox[c])]
    <2>0. phase[c] = "forwarding" /\ inbox[c] # <<>> /\ inbox[c] \in Seq(Signals)
      BY <1>0, <1>7 DEF Forward
    <2>1. Tail(inbox[c]) \in Seq(Signals) /\ Len(Tail(inbox[c])) = Len(inbox[c]) - 1
      BY <2>0, TailBox
    <2>2. /\ rest \in [Commands -> Seq(Signals)] /\ \A x \in Commands : Len(rest[x]) <= Buffer
          /\ rest[c] = Tail(inbox[c]) /\ \A x \in Commands : x # c => rest[x] = inbox[x]
      <3>1. Len(Tail(inbox[c])) <= Buffer
        <4>1. Len(inbox[c]) \in Nat /\ Len(inbox[c]) <= Buffer /\ Buffer \in Nat
          BY <1>0, <2>0, BoxAssumption
        <4> QED BY <2>1, <4>1
      <3> QED BY <1>0, <2>1, <3>1
    <2> HIDE DEF rest
    <2>3. ASSUME OnlyChild(rest["stop"]), phase["stop"] \in Active
          PROVE  OnlyChild(Caught(rest, "CHLD")["stop"])
      <3>1. Caught(rest, "CHLD")["stop"] = Queued(rest["stop"], "CHLD")
        BY <1>0, <2>2, <2>3, CaughtType, ZenonT(30)
      <3> QED BY <1>0, <2>2, <2>3, <3>1, ChildrenOnly
    <2>4. CASE c # "stop"
      <3>1. /\ \/ phase' = phase
               \/ phase' = [phase EXCEPT ![c] = "done"]
            /\ process' = process \/ process' = [process EXCEPT ![c] = "killed"]
            /\ inbox' \in {rest, Caught(rest, "CHLD")}
        BY <1>7, Zenon DEF Forward, rest
      <3>2. phase'["stop"] = phase["stop"] /\ process'["stop"] = process["stop"]
        BY <1>0, <2>4, <3>1
      <3>3. rest["stop"] = inbox["stop"]
        BY <1>0, <2>2, <2>4, Zenon
      <3> QED BY <1>4, <2>3, <3>1, <3>2, <3>3, Zenon
    <2>5. CASE c = "stop"
      <3>1. OnlyChild(inbox["stop"])
        BY <2>0, <2>5 DEF HandlerInv, Active
      <3>2. Head(inbox["stop"]) = "CHLD" /\ OnlyChild(Tail(inbox["stop"]))
        BY <2>0, <2>5, <3>1, ChildrenOnly
      <3>3. /\ phase' = IF process["stop"] # "up" THEN [phase EXCEPT !["stop"] = "done"] ELSE phase
            /\ inbox' = rest /\ process' = process
        BY <1>7, <2>5, <3>2, Zenon DEF Forward, rest
      <3>4. OnlyChild(inbox'["stop"])
        BY <2>2, <2>5, <3>2, <3>3, Zenon
      <3>5. CASE process["stop"] = "up"
        BY <1>4, <3>3, <3>4, <3>5
      <3>6. CASE process["stop"] # "up"
        <4>1. phase'["stop"] = "done" /\ handler = "calling" /\ ~Calling
          BY <1>0, <2>0, <2>5, <3>3, <3>6, Zenon DEF HandlerInv, Calling
        <4> QED BY <3>4, <4>1 DEF Active
      <3> QED BY <3>5, <3>6
    <2> QED BY <2>4, <2>5, Zenon
  <1> QED BY <1>1, <1>5, <1>6, <1>7 DEF Working

(***************************************************************************)
(* Every step keeps what is said of the handler and of the signal to stop. *)
(***************************************************************************)
LEMMA KeepsStop ==
    ASSUME StopFaults \cap Faults = {}, DaemonInv, OwnContainer, HandlerInv, StopUnderWay,
           Attended, [NodeNext]_nodeVars
    PROVE  HandlerInv' /\ StopUnderWay'
  <1>0. /\ dir \in [Dirs -> States] /\ own \in Dirs \cup {0} /\ 0 \notin Dirs
        /\ phase \in [Commands -> {"idle", "entered", "started", "forwarding", "done", "failed"}]
        /\ target \in [Commands -> Dirs \cup {0}]
        /\ process \in [Commands -> {"none", "up", "exited", "killed"}]
        /\ inbox \in [Commands -> Seq(Signals)] /\ \A c \in Commands : Len(inbox[c]) <= Buffer
        /\ {"stop", "listener", "monitor"} \subseteq Commands /\ "CHLD" \in Signals
    BY BoxAssumption, NodeAssumption DEF DaemonInv, BoxInv, BoxTypeOK, States, Signals
  <1>1. CASE /\ UNCHANGED <<step, own, dir, handler, sig, told, halting>>
             /\ phase'["stop"] = phase["stop"] /\ target'["stop"] = target["stop"]
             /\ process'["stop"] = process["stop"]
             /\ phase["stop"] \in Active /\ OnlyChild(inbox["stop"]) => OnlyChild(inbox'["stop"])
    <2>1. HandlerInv'
      BY <1>1, Zenon DEF HandlerInv
    <2>2. StopUnderWay'
      BY <1>1, Zenon DEF StopUnderWay, Calling
    <2> QED BY <2>1, <2>2
  <1>2. ASSUME phase["stop"] \in Active, OnlyChild(inbox["stop"])
        PROVE  OnlyChild(Caught(inbox, "CHLD")["stop"])
    <2>1. Caught(inbox, "CHLD")["stop"] = Queued(inbox["stop"], "CHLD")
      BY <1>0, <1>2, CaughtType, Zenon
    <2> QED BY <1>0, <1>2, <2>1, ChildrenOnly
  <1>3. ASSUME NEW d, NEW r, Exit(d, r) PROVE HandlerInv' /\ StopUnderWay'
    BY <1>0, <1>3, Zenon DEF Exit, DaemonGone, HandlerInv, StopUnderWay, Active
  <1>4. CASE ~told /\ step # "off" /\ step' # "off" /\ UNCHANGED <<handler, sig, told, phase>>
    BY <1>4, Zenon DEF HandlerInv, StopUnderWay, Active
  <1>5. ASSUME NEW c \in Flags, Start(c) PROVE HandlerInv' /\ StopUnderWay'
    <2>1. step = "off" /\ step' # "off"
      BY <1>5 DEF Start, startAndWait
    <2>2. ~told /\ phase["stop"] = "idle"
      BY <2>1 DEF HandlerInv, StopUnderWay, OwnContainer
    <2>3. handler' = "on" /\ sig' = "none" /\ told' = told /\ phase' = phase
      BY <1>5 DEF Start, boxVars
    <2> QED BY <2>1, <2>2, <2>3 DEF HandlerInv, StopUnderWay, Active
  <1>6. CASE Configure \/ newUdevListener \/ Create \/ Run
    <2>1. step # "off" /\ step' # "off"
      <3>1. CASE Configure
        BY <3>1, EarlySteps DEF Configure
      <3>2. CASE newUdevListener
        BY <3>2, Onward, Zenon DEF newUdevListener, Early
      <3>3. CASE Create \/ Run
        BY <3>3, Onward DEF Create, Run, Becomes, startVars
      <3> QED BY <1>6, <3>1, <3>2, <3>3
    <2>2. UNCHANGED <<handler, sig, told, phase>>
      BY <1>6, Zenon DEF Configure, newUdevListener, Create, Run, boxVars, daemonVars, CreateContainer,
                         RunContainer
    <2>3. own = 0 \/ dir[own] \in {"empty", "created"}
      <3>1. CASE Configure
        BY <3>1, EarlySteps DEF Configure, OwnContainer
      <3>2. CASE newUdevListener
        BY <3>2 DEF newUdevListener, Becomes, OwnContainer
      <3>3. CASE Create \/ Run
        BY <3>3 DEF Create, Run, CreateContainer, RunContainer
      <3> QED BY <1>6, <3>1, <3>2, <3>3
    <2>4. ~told
      BY <2>3 DEF StopUnderWay
    <2> QED BY <1>4, <2>1, <2>2, <2>4
  <1>7. CASE Started
    <2>1. step = "run" /\ step' = "wait"
      BY <1>7, Onward DEF Started, Becomes
    <2>2. UNCHANGED <<own, dir, phase, target, process, inbox, handler, sig, told, halting>>
      BY <1>7 DEF Started, boxVars, daemonVars
    <2>3. HandlerInv'
      BY <2>1, <2>2, Zenon DEF HandlerInv
    <2> QED BY <2>2, <2>3, Zenon DEF StopUnderWay, Calling
  <1>8. CASE StartFails \/ StartRefused \/ WaitReturns \/ Killed
    BY <1>3, <1>8, Zenon DEF StartFails, StartRefused, WaitReturns, Killed
  <1>9. CASE InitDies \/ Halts
    <2>1. ContainerStops /\ UNCHANGED <<step, handler, sig, told>>
      BY <1>9 DEF InitDies, Halts, startVars
    <2>2. dir'[own] = "stopped" /\ own # 0
          /\ UNCHANGED <<own, phase, target>> /\ inbox' = Caught(inbox, "CHLD")
      BY <1>0, <2>1 DEF ContainerStops
    <2>3. HandlerInv'
      BY <1>2, <2>1, <2>2, Zenon DEF HandlerInv
    <2> QED BY <2>2, <2>3 DEF StopUnderWay
  <1>10. CASE Terminate \/ Hangup
    BY <1>10, SignalsWait
  <1>11. CASE HandleSignal
    <2>1. handler = "on" /\ sig # "none" /\ sig' = "none"
          /\ handler' = (IF sig = "TERM" THEN "stopping" ELSE "on")
          /\ UNCHANGED <<step, own, dir, phase, target, process, inbox, told, halting>>
      BY <1>11, Zenon DEF HandleSignal, startVars, boxVars
    <2>2. HandlerInv'
      BY <2>1, Zenon DEF HandlerInv, Active
    <2> QED BY <2>1, <2>2 DEF StopUnderWay, Calling
  <1>12. CASE stop
    <2>1. handler = "stopping" /\ handler' = "calling" /\ Enter("stop", getContainer)
          /\ UNCHANGED <<step, sig, told, halting>>
      BY <1>12, Zenon DEF stop, startVars
    <2>2. getContainer = 0 \/ getContainer = own
      <3>1. \/ getContainer \in Dirs /\ dir[getContainer] \in {"created", "running"}
            \/ getContainer = 0
        BY <1>0, GotContainer DEF States
      <3> QED BY <3>1 DEF OwnContainer
    <2>3. /\ phase'["stop"] = IF getContainer = 0 THEN "failed" ELSE "entered"
          /\ target'["stop"] = getContainer /\ inbox'["stop"] = <<>> /\ UNCHANGED <<dir, own>>
      BY <1>0, <2>1, Zenon DEF Enter
    <2>4. OnlyChild(<<>>)
      BY DEF OnlyChild
    <2>5. HandlerInv'
      BY <2>1, <2>2, <2>3, <2>4, Zenon DEF HandlerInv, Active
    <2>6. told /\ own # 0 /\ dir[own] \in {"running", "stopped"}
      BY <2>1 DEF HandlerInv, StopUnderWay
    <2>7. dir[own] = "running" => getContainer # 0
      BY <1>0, <2>6, GotContainer DEF States
    <2> QED BY <2>1, <2>3, <2>5, <2>6, <2>7 DEF StopUnderWay, Calling
  <1>13. CASE HaltAccepted
    <2>1. ProcessExits("stop") /\ halting' = (target["stop"] = own)
          /\ UNCHANGED <<step, handler, sig, told>>
      BY <1>13 DEF HaltAccepted, startVars
    <2>2. process["stop"] = "up" /\ inbox' = Caught(inbox, "CHLD") /\ UNCHANGED <<dir, own, phase, target>>
      BY <2>1 DEF ProcessExits
    <2>3. HandlerInv'
      BY <1>2, <2>1, <2>2, Zenon DEF HandlerInv
    <2>4. halting'
      BY <1>0, <2>1, <2>2, Zenon DEF HandlerInv, Attended
    <2> QED BY <2>1, <2>2, <2>3, <2>4 DEF StopUnderWay
  <1>14. CASE StopReturns
    <2>1. handler = "calling" /\ handler' = "gone" /\ phase["stop"] \in {"done", "failed"}
          /\ phase' = [phase EXCEPT !["stop"] = "idle"]
          /\ UNCHANGED <<step, dir, own, sig, told, halting>>
      BY <1>14, Zenon DEF StopReturns, Return, startVars
    <2>2. phase'["stop"] = "idle"
      BY <1>0, <2>1
    <2>3. HandlerInv'
      BY <2>1, <2>2, Zenon DEF HandlerInv, Active
    <2> QED BY <2>1, <2>3 DEF StopUnderWay, Calling
  <1>15. ASSUME NEW c \in {"listener", "monitor"}, NEW d,
                ProcessExits(c) \/ Return(c) \/ Enter(c, d) \/ UNCHANGED boxVars,
                UNCHANGED <<step, handler, sig, told, halting>>
         PROVE  HandlerInv' /\ StopUnderWay'
    <2>1. CASE ProcessExits(c)
      BY <1>0, <1>1, <1>2, <1>15, <2>1, Zenon DEF ProcessExits
    <2>2. CASE Return(c)
      BY <1>0, <1>1, <1>15, <2>2, Zenon DEF Return
    <2>3. CASE Enter(c, d)
      BY <1>0, <1>1, <1>15, <2>3 DEF Enter
    <2>4. CASE UNCHANGED boxVars
      BY <1>1, <1>15, <2>4, Zenon DEF boxVars
    <2> QED BY <1>15, <2>1, <2>2, <2>3, <2>4, Zenon
  <1>16. CASE NextEvent \/ DeviceDone \/ ListenerReturns \/ \E d \in Devices : DeviceChanges(d)
    <2>1. UNCHANGED <<step, handler, sig, told, halting>>
      BY <1>16, Zenon DEF NextEvent, DeviceDone, ListenerReturns, DeviceChanges, startVars, daemonVars
    <2>2. \/ ProcessExits("listener") \/ Return("listener") \/ Enter("listener", getContainer)
          \/ UNCHANGED boxVars
      BY <1>16, Zenon DEF NextEvent, DeviceDone, ListenerReturns, DeviceChanges
    <2> QED BY <1>15, <2>1, <2>2
  <1>17. CASE getStatus \/ StatusKnown \/ monitorUnits
    <2>1. UNCHANGED <<step, handler, sig, told, halting>>
      BY <1>17, Zenon DEF getStatus, StatusKnown, monitorUnits, startVars, daemonVars
    <2>2. ProcessExits("monitor") \/ Return("monitor") \/ Enter("monitor", own)
      BY <1>17, Zenon DEF getStatus, StatusKnown, monitorUnits
    <2> QED BY <1>15, <2>1, <2>2
  <1>18. CASE CommandStep
    BY <1>18, CommandsKeepStop
  <1>19. CASE UNCHANGED nodeVars
    <2>1. UNCHANGED <<step, handler, sig, told, halting>> /\ UNCHANGED boxVars
      BY <1>19 DEF nodeVars, startVars, daemonVars
    <2> QED BY <1>15, <2>1, Zenon
  <1> QED BY Zenon, <1>5, <1>6, <1>7, <1>8, <1>9, <1>10, <1>11, <1>12, <1>13, <1>14, <1>16, <1>17, <1>18,
             <1>19 DEF NodeNext, Proceeds

(***************************************************************************)
(* A signal to stop is never lost on its way to systemd, whatever commands *)
(* the daemon runs in the container, and for all state directories beside  *)
(* it; unless it comes before the container runs, or other signals with    *)
(* it, the faults in StopFaults.                                           *)
(***************************************************************************)
THEOREM StopNotLost ==
    ASSUME StopFaults \cap Faults = {}
    PROVE  NodeSpec => []StopUnderWay
  <1> DEFINE Inv == DaemonInv /\ OwnContainer /\ HandlerInv /\ StopUnderWay /\ Attended
  <1>1. NodeInit => HandlerInv /\ StopUnderWay /\ Attended
    BY NodeAssumption DEF NodeInit, StartInit, BoxInit, HandlerInv, StopUnderWay, Attended, Active
  <1>2. Inv /\ [NodeNext]_nodeVars => HandlerInv' /\ StopUnderWay'
    BY KeepsStop
  <1>3. Inv /\ [NodeNext]_nodeVars => OwnContainer'
    BY KeepsContainer DEF StopFaults
  <1>4. Inv /\ [NodeNext]_nodeVars => Attended'
    <2> SUFFICES ASSUME Inv, [NodeNext]_nodeVars PROVE Attended'
      OBVIOUS
    <2>1. BoxMove
      BY QuietActions, CallingActions DEF NodeNext, BoxMove
    <2> QED BY <2>1, KeepsAttended DEF DaemonInv
  <1> QED BY <1>1, <1>2, <1>3, <1>4, ContainerInit, DaemonInvInit, DaemonInvStep, PTL DEF NodeSpec

-----------------------------------------------------------------------------
(* The whole. *)

NodeInv == StartTypeOK /\ DaemonInv

(***************************************************************************)
(* The invariant of types is inductive: it holds when the host is new.     *)
(***************************************************************************)
LEMMA NodeInvInit == NodeInit => NodeInv
  <1> SUFFICES ASSUME NodeInit PROVE NodeInv
    OBVIOUS
  <1>1. StartTypeOK
    <2>1. (CHOOSE c \in Flags : TRUE) \in Flags
      BY StartAssumption, Zenon
    <2>2. flags \in Flags /\ listen = flags.listen /\ step = "off"
      BY <2>1 DEF NodeInit, StartInit
    <2>3. flags.listen \in Seq(STRING)
      BY <2>2, StartAssumption, Zenon DEF Config
    <2>4. /\ DOMAIN rootfs = RootFiles
          /\ \A db \in {"passwd", "group"} : DOMAIN rootfs[db] = BaseUsers
          /\ rootfs.flanneld = FALSE /\ rootfs.conflist = FALSE /\ rootfs.gateway = FALSE
      BY DEF NodeInit, StartInit, RootFiles
    <2> QED BY <2>2, <2>3, <2>4, Zenon DEF StartTypeOK
  <1> QED BY <1>1, DaemonInvInit DEF NodeInv

(***************************************************************************)
(* And every step of the daemon keeps it.                                  *)
(***************************************************************************)
LEMMA NodeInvStep == NodeInv /\ [NodeNext]_nodeVars => NodeInv'
  <1> SUFFICES ASSUME NodeInv, [NodeNext]_nodeVars PROVE NodeInv'
    OBVIOUS
  <1>1. StartTypeOK'
    BY StartMoves, StartTypes DEF NodeInv
  <1> QED BY <1>1, DaemonInvStep DEF NodeInv

(***************************************************************************)
(* Every variable of the daemon, of its containers and commands and of the *)
(* devices stays in its range, with any of the faults.                     *)
(***************************************************************************)
THEOREM NodeTypeCorrect == NodeSpec => []NodeTypeOK
  <1>1. NodeInv => NodeTypeOK
    <2>1. told \in BOOLEAN /\ halting \in BOOLEAN => {told, halting} \subseteq BOOLEAN
      OBVIOUS
    <2>2. host \in Devs /\ node \in Devs => {host, node} \subseteq Devs
      OBVIOUS
    <2> QED BY <2>1, <2>2, Zenon DEF NodeInv, DaemonInv, BoxInv, DaemonTyped, NodeTypeOK
  <1> QED BY <1>1, NodeInvInit, NodeInvStep, PTL DEF NodeSpec

(***************************************************************************)
(* The daemon with its container, its signals and its devices does to the  *)
(* rootfs what the starts by themselves do: what PlanetStartProofs shows   *)
(* of them, ConfigApplied among it, holds of the whole.                    *)
(***************************************************************************)
THEOREM NodeImplementsStart == NodeSpec => StartSpec
  <1>1. NodeInit => StartInit
    BY DEF NodeInit
  <1>2. [NodeNext]_nodeVars => [StartNext]_startVars
    BY StartMoves
  <1> QED BY <1>1, <1>2, PTL DEF NodeSpec, StartSpec

(***************************************************************************)
(* CoreDNS listens on the addresses of the command line, for all command   *)
(* lines whose addresses the append of addResolv cannot write over.        *)
(***************************************************************************)
THEOREM ListensThere ==
    ASSUME ListenApart
    PROVE  NodeSpec => []ListensAsTold
  <1> DEFINE Inv == NodeInv /\ ListenKept
  <1>1. NodeInit => ListenKept
    BY DEF NodeInit, StartInit, ListenKept, AfterCoreDNS, AfterFiles
  <1>2. Inv /\ [NodeNext]_nodeVars => ListenKept'
    BY StartMoves, KeepsListen DEF NodeInv
  <1>3. Inv => ListensAsTold
    BY DEF ListensAsTold, Configured, ListenKept, AfterCoreDNS, AfterFiles
  <1> QED BY <1>1, <1>2, <1>3, NodeInvInit, NodeInvStep, PTL DEF NodeSpec
=============================================================================
