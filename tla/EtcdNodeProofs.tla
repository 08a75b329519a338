--------------------------- MODULE EtcdNodeProofs ---------------------------
(***************************************************************************)
(* The data of etcd is safe, for any number of versions, plans and         *)
(* interruptions: proofs about EtcdNode.                                   *)
(***************************************************************************)
EXTENDS EtcdNode, EtcdDataProofs

\* The version file appears only where there is no cluster.
LEMMA InitKeeps ==
    ASSUME SafeInv, NEW s \in Services, etcdInit(s)
    PROVE  SafeInv'
  <1> MemberTypeOK /\ UnitsInv /\ ServiceInv /\ DataInv /\ LocalsInv
    BY DEF SafeInv
  <1>1. /\ UNCHANGED <<role, desired, data, backup, synced, masked, dir, joined, clients,
                       plan, phase, pc, locals, origin, installed, plans, failures>>
        /\ unit[s] = "queued" /\ unit' = [unit EXCEPT ![s] = "activating"]
    BY DEF etcdInit, planVars, historyVars
  <1>2. Command' = Command
    BY <1>1 DEF Command
  <1>3. unit'[s] = "activating" /\ dir[s] = None /\ \A t \in Services : t # s => unit'[t] = unit[t]
    BY <1>1 DEF MemberTypeOK, UnitsInv
  <1>4. \/ /\ file' = file /\ link' = Current' /\ Current' = Current /\ Backup' = Backup
        \/ /\ file.version = None /\ data[Assumed] = "none"
           /\ file' = [version |-> desired, prev |-> None] /\ link' = desired
    <2>1. desired # Assumed
      BY DEF MemberTypeOK
    <2> QED BY <2>1 DEF etcdInit, writeEtcdEnvironment, Current, Backup
  <1>5. CASE file' = file /\ link' = Current' /\ Current' = Current /\ Backup' = Backup
    <2>1. Serviceable => Serviceable'
      BY <1>1, <1>5 DEF Serviceable
    <2>2. ~EtcdOff' => ~EtcdOff
      BY <1>1, <1>3 DEF EtcdOff, UnitsInv, UpgradeOff, Services
    <2>m. MemberTypeOK'
      BY <1>1, <1>2, <1>5, MemberAssumption DEF MemberTypeOK, Current, Lines
    <2>u. UnitsInv'
      BY <1>1, <1>2, <1>3, <1>5, Zenon DEF UnitsInv, EtcdOff, UpgradeOff, Services
    <2>s. ServiceInv'
      BY <1>1, <1>2, <1>3, Zenon DEF ServiceInv, UnitsInv, EtcdOff, UpgradeOff, Ending, Services, MemberTypeOK
    <2>d. DataInv'
      BY <1>1, <1>2, <1>3, <1>5, <2>1, <2>2 DEF DataInv, OriginSafe, Services
    <2>l. LocalsInv'
      BY <1>1, <1>2, <1>5 DEF LocalsInv
    <2> QED BY <2>m, <2>u, <2>s, <2>d, <2>l DEF SafeInv
  <1>6. CASE /\ file.version = None /\ data[Assumed] = "none"
             /\ file' = [version |-> desired, prev |-> None] /\ link' = desired
    <2>1. Current = Assumed /\ desired # Assumed /\ desired \in Versions
      BY <1>6 DEF Current, MemberTypeOK
    <2>2. s = "etcd" /\ ~EtcdOff /\ UpgradeOff
      BY <1>1, <2>1 DEF UnitsInv, EtcdOff, UpgradeOff, Services
    <2>3. ~installed /\ \A v \in Versions : data[v] = "none"
      BY <1>6, <2>1, <2>2 DEF DataInv, Serviceable
    <2>4. Current' = desired /\ Backup' = None
      BY <1>6, <2>1, MemberAssumption DEF Current, Backup, MemberTypeOK
    <2>5. Serviceable'
      BY <1>1, <2>1, <2>3, <2>4 DEF Serviceable
    <2>6. plan \notin {"upgrade", "rollback"} /\ dir["etcd-upgrade"] = None
      BY <2>2, <2>3 DEF DataInv, OriginSafe, UnitsInv, UpgradeOff, Services
    <2>7. Command \notin {"upgrade", "rollback", "restore", "wipe"}
      BY <2>2, Zenon DEF UnitsInv
    <2>m. MemberTypeOK'
      BY <1>1, <1>2, <1>6, MemberAssumption DEF MemberTypeOK, Lines
    <2>u. UnitsInv'
      BY <1>1, <1>2, <1>3, <1>6, <2>2, <2>4, <2>6, <2>7, Zenon DEF UnitsInv, EtcdOff, UpgradeOff, Services
    <2>s. ServiceInv'
      BY <1>1, <1>2, <1>3, <2>2, Zenon DEF ServiceInv, EtcdOff, UpgradeOff, Ending, Services, MemberTypeOK
    <2>d. DataInv'
      BY <1>1, <1>2, <1>3, <2>2, <2>1, <2>4, <2>5, <2>6, MemberAssumption, Zenon DEF DataInv
    <2>l. LocalsInv'
      BY <1>1, <1>2, <2>7 DEF LocalsInv
    <2> QED BY <2>m, <2>u, <2>s, <2>d, <2>l DEF SafeInv
  <1> QED BY <1>4, <1>5, <1>6

\* etcd.service opens or makes the cluster's database, etcd-upgrade one to restore into.
LEMMA EtcdStartsKeeps ==
    ASSUME SafeInv, NEW s \in Services, EtcdStarts(s)
    PROVE  SafeInv'
  <1> MemberTypeOK /\ UnitsInv /\ ServiceInv /\ DataInv /\ LocalsInv
    BY DEF SafeInv
  <1>1. /\ UNCHANGED <<role, desired, file, link, backup, synced, masked, clients,
                       plan, phase, pc, locals, origin, plans, failures>>
        /\ unit[s] = "activating"
    BY DEF EtcdStarts, planVars
  <1>2. Command' = Command /\ Current' = Current /\ Backup' = Backup /\ Current \in Versions
    BY <1>1, MemberAssumption, Zenon DEF Command, Current, Backup, MemberTypeOK, Lines
  <1>3. dir[s] = None /\ link = Current
    BY <1>1 DEF UnitsInv
  <1>4. CASE unit' = [unit EXCEPT ![s] = "queued"] /\ UNCHANGED <<data, dir, joined, installed>>
    <2>1. \A t \in Services : unit'[t] = IF t = s THEN "queued" ELSE unit[t]
      BY <1>4, Zenon DEF MemberTypeOK
    <2>m. MemberTypeOK'
      BY <1>1, <1>2, <1>4 DEF MemberTypeOK
    <2>u. UnitsInv'
      BY <1>1, <1>2, <1>4, <2>1 DEF UnitsInv, EtcdOff, UpgradeOff, Services
    <2>s. ServiceInv'
      BY <1>1, <1>2, <2>1, Zenon DEF ServiceInv, EtcdOff, UpgradeOff, Ending, Services, MemberTypeOK
    <2>d. DataInv'
      BY <1>1, <1>2, <1>4, <2>1 DEF DataInv, Serviceable, OriginSafe, EtcdOff, Services
    <2>l. LocalsInv'
      BY <1>1, <1>2, <1>4 DEF LocalsInv
    <2> QED BY <2>m, <2>u, <2>s, <2>d, <2>l DEF SafeInv
  <1>5. CASE /\ unit' = [unit EXCEPT ![s] = "active"] /\ dir' = [dir EXCEPT ![s] = Current]
             /\ \/ data[Current] # "none" /\ data' = data
                \/ /\ data[Current] = "none"
                   /\ data' = [data EXCEPT ![Current] =
                                 IF s = "etcd" /\ (role = "joiner" \/ ~installed)
                                 THEN "full" ELSE "fresh"]
             /\ joined' = (IF joined = "added" /\ s = "etcd" THEN "started" ELSE joined)
             /\ installed' = (installed \/ s = "etcd")
    <2>1. \A t \in Services : /\ unit'[t] = IF t = s THEN "active" ELSE unit[t]
                              /\ dir'[t] = IF t = s THEN Current ELSE dir[t]
      BY <1>5 DEF MemberTypeOK
    <2>2. /\ data'[Current] # "none"
          /\ \A v \in Versions : data[v] # "none" => data'[v] = data[v]
          /\ data[Current] = "none" => data'[Current] =
                IF s = "etcd" /\ (role = "joiner" \/ ~installed) THEN "full" ELSE "fresh"
      BY <1>2, <1>5 DEF MemberTypeOK
    <2>3. s = "etcd" => data'[Current] = "full" /\ ~EtcdOff /\ UpgradeOff
      BY <1>1, <1>2, <2>2, Zenon DEF DataInv, Serviceable, EtcdOff, UpgradeOff, UnitsInv
    <2>4. s # "etcd" => s = "etcd-upgrade" /\ ~UpgradeOff /\ EtcdOff /\ role # "joiner"
      BY <1>1, Zenon DEF UnitsInv, UpgradeOff, Services
    <2>m. MemberTypeOK'
      BY <1>1, <1>2, <1>5 DEF MemberTypeOK, Contents, Lines
    <2>u. UnitsInv'
      BY <1>1, <1>2, <1>3, <2>1, <2>2, <2>3, <2>4, MemberAssumption
      DEF UnitsInv, EtcdOff, UpgradeOff, Services
    <2>s. ServiceInv'
      BY <1>1, <1>2, <2>1, <2>3, <2>4
      DEF ServiceInv, EtcdOff, UpgradeOff, Ending, Services, MemberTypeOK
    <2>d. DataInv'
      <3>1. plan \in {"upgrade", "rollback"} => OriginSafe'
        BY <1>1, <1>2, <1>5, <2>2 DEF DataInv, OriginSafe, MemberTypeOK
      <3>2. CASE s = "etcd"
        BY <1>1, <1>2, <1>5, <2>1, <2>3, <3>1, <3>2, ZenonT(30) DEF DataInv, Serviceable, Services
      <3>3. CASE s # "etcd"
        <4>1. EtcdOff' /\ Command # "enable" /\ dir'["etcd"] = None
          BY <1>1, <2>1, <2>4, <3>3, Zenon DEF EtcdOff, UnitsInv, UpgradeOff, Services
        <4> QED BY <1>1, <1>2, <2>1, <3>1, <3>3, <4>1, Zenon DEF DataInv, EtcdOff
      <3> QED BY <3>2, <3>3, Zenon
    <2>l. LocalsInv'
      BY <1>1, <1>2, <2>2, <2>3, <2>4 DEF LocalsInv, UnitsInv
    <2> QED BY <2>m, <2>u, <2>s, <2>d, <2>l, Zenon DEF SafeInv
  <1>6. DataDir = Current
    BY DEF DataDir
  <1>7. s = "etcd" \/ s = "etcd-upgrade"
    BY DEF Services
  <1> QED BY <1>4, <1>5, <1>6, <1>7 DEF EtcdStarts

\* A process ends.
LEMMA EtcdEndsKeeps ==
    ASSUME SafeInv, NEW s \in Services, EtcdStops(s) \/ EtcdDies(s)
    PROVE  SafeInv'
  <1> MemberTypeOK /\ UnitsInv /\ ServiceInv /\ DataInv /\ LocalsInv
    BY DEF SafeInv
  <1>1. /\ UNCHANGED <<role, desired, file, data, link, backup, synced, masked, joined, clients,
                       plan, phase, pc, locals, origin, installed, plans>>
        /\ dir' = [dir EXCEPT ![s] = None]
        /\ \/ /\ unit[s] = "stopping" /\ unit' = [unit EXCEPT ![s] = "inactive"]
              /\ failures' = failures
           \/ /\ unit[s] = "active" /\ unit' = [unit EXCEPT ![s] = "queued"]
              /\ failures < MaxFailures /\ failures' = failures + 1
    BY DEF EtcdStops, EtcdDies, diskVars, planVars, historyVars
  <1>2. Command' = Command /\ Current' = Current /\ Backup' = Backup
    BY <1>1, ZenonT(30) DEF Command, Current, Backup
  <1>3. /\ \A t \in Services : t # s => unit'[t] = unit[t] /\ dir'[t] = dir[t]
        /\ dir'[s] = None
        /\ \/ unit[s] = "stopping" /\ unit'[s] = "inactive"
           \/ unit[s] = "active" /\ unit'[s] = "queued"
    BY <1>1, Zenon DEF MemberTypeOK
  <1>m. MemberTypeOK'
    BY <1>1, <1>2, MemberAssumption DEF MemberTypeOK, Lines
  <1>u. UnitsInv'
    BY <1>1, <1>2, <1>3 DEF UnitsInv, EtcdOff, UpgradeOff, Services
  <1>s. ServiceInv'
    BY <1>1, <1>2, <1>3 DEF ServiceInv, EtcdOff, UpgradeOff, Ending, Services, MemberTypeOK
  <1>d. DataInv'
    BY <1>1, <1>2, <1>3, Zenon DEF DataInv, Serviceable, OriginSafe, EtcdOff, Services
  <1>l. LocalsInv'
    BY <1>1, <1>2 DEF LocalsInv
  <1> QED BY <1>m, <1>u, <1>s, <1>d, <1>l DEF SafeInv

\* A client starts.
LEMMA ClientStartsKeeps ==
    ASSUME SafeInv, NEW c \in Clients, ClientStarts(c)
    PROVE  SafeInv'
  <1> MemberTypeOK /\ UnitsInv /\ ServiceInv /\ DataInv /\ LocalsInv
    BY DEF SafeInv
  <1>1. /\ UNCHANGED <<role, desired, file, data, link, backup, synced, masked, unit, dir, joined,
                       plan, phase, pc, locals, origin, installed, plans, failures>>
        /\ clients' = [clients EXCEPT ![c] = "fresh"]
    BY DEF ClientStarts, diskVars, systemdVars, planVars, historyVars
  <1>2. Command' = Command /\ Current' = Current /\ Backup' = Backup
    BY <1>1, Zenon DEF Command, Current, Backup
  <1>m. MemberTypeOK'
    BY <1>1, <1>2 DEF MemberTypeOK
  <1>u. UnitsInv'
    BY <1>1, <1>2 DEF UnitsInv, EtcdOff, UpgradeOff
  <1>s. ServiceInv'
    BY <1>1, <1>2 DEF ServiceInv, EtcdOff, UpgradeOff, Ending
  <1>d. DataInv'
    BY <1>1, <1>2, Zenon DEF DataInv, Serviceable, OriginSafe, EtcdOff
  <1>l. LocalsInv'
    BY <1>1, <1>2 DEF LocalsInv
  <1> QED BY <1>m, <1>u, <1>s, <1>d, <1>l DEF SafeInv

\* A reboot leaves a masked etcd alone, and a new release comes only when etcd serves.
LEMMA BootKeeps ==
    ASSUME SafeInv, NEW v \in Versions \ {Assumed}, Reboot \/ NewRelease(v)
    PROVE  SafeInv'
  <1> MemberTypeOK /\ UnitsInv /\ ServiceInv /\ DataInv /\ LocalsInv
    BY DEF SafeInv
  <1>0. UNCHANGED <<role, file, data, backup, synced, joined, plan, phase, locals, origin,
                    installed, plans>>
    BY DEF Reboot, NewRelease, diskVars, planVars, historyVars
  <1>1. /\ unit' = [s \in Services |-> IF s = "etcd" /\ s \notin masked' THEN "queued"
                                                                          ELSE "inactive"]
        /\ dir' = [s \in Services |-> None] /\ clients' = [c \in Clients |-> "fresh"]
    BY DEF Reboot, NewRelease, Boot
  <1>2. \/ /\ UNCHANGED <<masked, desired, link>> /\ pc' = 0
           /\ failures < MaxFailures /\ failures' = failures + 1
        \/ /\ desired' = v /\ UNCHANGED <<pc, failures>> /\ plan = "none"
           /\ unit["etcd"] = "active" /\ masked' = {"etcd-upgrade"} /\ link' = None
    BY DEF Reboot, NewRelease, Boot, diskVars, planVars, historyVars
  <1>3. Command' = Command /\ Current' = Current /\ Backup' = Backup
    BY <1>0 DEF Command, Current, Backup
  <1>4. plan = "none" => pc = 0 /\ Command = "rest"
    BY CommandPlans, Resting
  <1>5. /\ unit'["etcd-upgrade"] = "inactive" /\ dir'["etcd"] = None /\ dir'["etcd-upgrade"] = None
        /\ unit'["etcd"] = IF "etcd" \in masked' THEN "inactive" ELSE "queued"
    BY <1>1 DEF Services
  <1>6. pc' = 0
    BY <1>2, <1>4
  <1>7. EtcdOff => EtcdOff' \/ Command = "rest"
    BY <1>2, <1>4, <1>5, Zenon DEF EtcdOff
  <1>8. ~EtcdOff' \/ Command = "enable" => Serviceable
    <2>1. unit["etcd"] = "active" => ~EtcdOff
      BY DEF EtcdOff
    <2>2. ~EtcdOff' => ~EtcdOff
      BY <1>2, <1>5, <2>1 DEF EtcdOff
    <2> QED BY <2>2 DEF DataInv
  <1>m. MemberTypeOK'
    <2>1. /\ unit' \in [Services -> {"inactive", "queued", "activating", "active", "stopping"}]
          /\ dir' \in [Services -> Lines]
          /\ clients' \in [Clients -> {"off", "fresh", "stale", "restarting"}]
      BY <1>1 DEF Lines
    <2>2. masked' \subseteq Services
      BY <1>2, ZenonT(30) DEF MemberTypeOK, Services
    <2>3. link' \in Lines /\ desired' \in Versions \ {Assumed}
      BY <1>2, Zenon DEF MemberTypeOK, Lines
    <2>4. failures' \in 0..MaxFailures
      BY <1>2, MemberAssumption DEF MemberTypeOK
    <2> QED BY <1>0, <1>3, <1>6, <2>1, <2>2, <2>3, <2>4, Zenon DEF MemberTypeOK
  <1>u. UnitsInv'
    BY <1>0, <1>1, <1>3, <1>5, <1>6, <1>7 DEF UnitsInv, UpgradeOff, Services
  <1>s. ServiceInv'
    BY <1>6 DEF ServiceInv
  <1>d. DataInv'
    <2>1. Serviceable' <=> Serviceable
      BY <1>0, <1>3 DEF Serviceable
    <2>2. CASE plan = "none"
      BY <1>0, <1>3, <1>4, <1>5, <1>8, <2>1, <2>2, Zenon DEF DataInv
    <2>3. CASE plan # "none"
      <3>1. desired' = desired
        BY <1>2, <2>3
      <3>2. OriginSafe' <=> OriginSafe
        BY <1>0, <1>3, <3>1, Zenon DEF OriginSafe
      <3> QED BY <1>0, <1>3, <1>5, <1>6, <1>8, <2>1, <3>1, <3>2 DEF DataInv
    <2> QED BY <2>2, <2>3
  <1>l. LocalsInv'
    BY <1>0, <1>3, <1>6 DEF LocalsInv
  <1> QED BY <1>m, <1>u, <1>s, <1>d, <1>l DEF SafeInv

\* Before the first start nothing runs, and the only database there may be is the one that an
\* etcd from before the version file has left.
LEMMA MemberInitSafe ==
    ASSUME MemberInit
    PROVE  SafeInv
  <1>1. /\ file = Empty /\ link = None /\ masked = {"etcd-upgrade"} /\ pc = 0 /\ plan = "none"
        /\ phase = 1 /\ dir = [s \in Services |-> None]
        /\ unit = [s \in Services |-> IF s = "etcd" /\ role # "gateway" THEN "queued"
                                                                        ELSE "inactive"]
    BY DEF MemberInit
  <1>2. Current = Assumed /\ Backup = None
    BY <1>1 DEF Current, Backup, Empty
  <1>3. Command = "rest"
    BY <1>1 DEF Command, Plans
  <1>4. PICK legacy \in BOOLEAN :
          /\ data = [v \in Versions |-> IF legacy /\ v = Assumed THEN "full" ELSE "none"]
          /\ installed = legacy
    BY Zenon DEF MemberInit
  <1>5. Assumed \in Versions /\ None \notin Versions
    BY MemberAssumption
  <1>6. unit["etcd-upgrade"] = "inactive" /\ unit["etcd"] \in {"queued", "inactive"}
    BY <1>1, Zenon DEF Services
  <1>m. MemberTypeOK
    <2>1. /\ data \in [Versions -> Contents] /\ installed \in BOOLEAN
      BY <1>4 DEF Contents
    <2>2. /\ unit \in [Services -> {"inactive", "queued", "activating", "active", "stopping"}]
          /\ dir \in [Services -> Lines]
      BY <1>1 DEF Lines
    <2>3. clients \in [Clients -> {"off", "fresh", "stale", "restarting"}]
      BY DEF MemberInit
    <2>4. masked \subseteq Services
      BY <1>1 DEF Services
    <2>5. plan \in DOMAIN Plans /\ phase \in DOMAIN Plans[plan]
      BY <1>1 DEF Plans
    <2>6. file \in [version: Lines, prev: Lines] /\ link \in Lines
      BY <1>1 DEF Empty, Lines
    <2>7. locals \in [current: Versions, backup: Lines, service: Services, member: BOOLEAN]
      BY <1>5 DEF MemberInit, Lines, Services
    <2>8. origin \in Versions /\ plans \in 0..MaxPlans /\ failures \in 0..MaxFailures
      BY MemberAssumption DEF MemberInit
    <2>9. /\ role \in {"restorer", "joiner", "gateway"} /\ desired \in Versions \ {Assumed}
          /\ backup = "none" /\ synced = "none" /\ joined = "absent"
      BY DEF MemberInit
    <2> QED BY <1>1, <2>1, <2>2, <2>3, <2>4, <2>5, <2>6, <2>7, <2>8, <2>9 DEF MemberTypeOK
  <1>u. UnitsInv
    BY <1>1, <1>3, <1>6 DEF UnitsInv, UpgradeOff, Services
  <1>s. ServiceInv
    BY <1>1 DEF ServiceInv
  <1>d. DataInv
    <2>1. Serviceable
      BY <1>1, <1>2, <1>4, <1>5 DEF Serviceable
    <2> QED BY <1>1, <1>2, <1>3, <1>5, <1>6, <2>1 DEF DataInv, Services
  <1>l. LocalsInv
    BY <1>1, <1>3 DEF LocalsInv
  <1> QED BY <1>m, <1>u, <1>s, <1>d, <1>l, Zenon DEF SafeInv

\* Nothing of the member changes.
LEMMA StutterKeeps ==
    ASSUME SafeInv, UNCHANGED memberVars
    PROVE  SafeInv'
  <1> MemberTypeOK /\ UnitsInv /\ ServiceInv /\ DataInv /\ LocalsInv
    BY DEF SafeInv
  <1>1. UNCHANGED <<role, desired, file, data, link, backup, synced, masked, unit, dir, joined,
                    clients, plan, phase, pc, locals, origin, installed, plans, failures>>
    BY DEF memberVars, diskVars, systemdVars, planVars, historyVars
  <1>2. Command' = Command /\ Current' = Current /\ Backup' = Backup
    BY <1>1, Zenon DEF Command, Current, Backup
  <1>m. MemberTypeOK'
    BY <1>1, <1>2 DEF MemberTypeOK
  <1>u. UnitsInv'
    BY <1>1, <1>2 DEF UnitsInv, EtcdOff, UpgradeOff
  <1>s. ServiceInv'
    BY <1>1, <1>2, Zenon DEF ServiceInv, EtcdOff, UpgradeOff, Ending
  <1>d. DataInv'
    BY <1>1, <1>2 DEF DataInv, Serviceable, OriginSafe, EtcdOff
  <1>l. LocalsInv'
    BY <1>1, <1>2, Zenon DEF LocalsInv
  <1> QED BY <1>m, <1>u, <1>s, <1>d, <1>l DEF SafeInv

\* The inductive invariant of etcd on a node: what the units do during which command, which
\* databases are whole, and what a command has read and still relies on.
THEOREM SafeNode ==
    ASSUME TornWrites = FALSE, EarlyRollbacks = FALSE
    PROVE  NodeSpec => []SafeInv
  <1>1. NodeInit => SafeInv
    BY MemberInitSafe DEF NodeInit
  <1>2. SafeInv /\ [NodeNext]_nodeVars => SafeInv'
    <2> SUFFICES ASSUME SafeInv, [NodeNext]_nodeVars
                 PROVE  SafeInv'
      OBVIOUS
    <2>1. CASE UNCHANGED memberVars
      BY <2>1, StutterKeeps
    <2>2. CASE Step
      BY <2>2, QuietStepsKeep, MaskKeeps, StopKeeps, StoppedKeeps, UnmaskKeeps, StartKeeps,
         HealthyKeeps, CheckStatusKeeps, WriteVersionKeeps, WipeOldBackupsKeeps,
         WipeDesiredKeeps, RemoveDataKeeps, OfflineRestoreKeeps, OnlineRestoreKeeps DEF Step
    <2>3. CASE Gravity \/ Abort \/ StartUpgrade \/ StartRollback \/ StartWipe
      BY <2>3, BeginKeeps, SkipKeeps, PlanKeeps, AbortKeeps, Zenon DEF Gravity
    <2>4. ASSUME NEW s \in Services, UnitMoves(s) \/ EtcdDies(s)
          PROVE  SafeInv'
      BY <2>4, InitKeeps, EtcdStartsKeeps, EtcdEndsKeeps DEF UnitMoves
    <2>5. ASSUME NEW c \in Clients, ClientStarts(c)
          PROVE  SafeInv'
      BY <2>5, ClientStartsKeeps
    <2>6. ASSUME NEW v \in Versions \ {Assumed}, NewRelease(v)
          PROVE  SafeInv'
      BY <2>6, BootKeeps
    <2>7. CASE Reboot
      BY <2>7, BootKeeps, ZenonT(30) DEF SafeInv, MemberTypeOK
    <2>8. MemberNext \/ UNCHANGED memberVars
      BY DEF NodeNext, nodeVars
    <2> QED BY <2>1, <2>2, <2>3, <2>4, <2>5, <2>6, <2>7, <2>8 DEF MemberNext
  <1> QED BY <1>1, <1>2, PTL DEF NodeSpec

\* For every set of versions and any number of failures, repeated commands and plans: when a
\* rollback gets to enabling etcd, the version file names the version the upgrade began
\* with, and its database is whole.
THEOREM SafeRollback ==
    ASSUME TornWrites = FALSE, EarlyRollbacks = FALSE
    PROVE  NodeSpec => []RollbackReturns
  <1>1. SafeInv => RollbackReturns
    BY DEF SafeInv, DataInv, OriginSafe, RollbackReturns
  <1> QED BY <1>1, SafeNode, PTL

\* etcd.service serves the cluster's database or none, with the binary of its version.
THEOREM SafeService ==
    ASSUME TornWrites = FALSE, EarlyRollbacks = FALSE
    PROVE  NodeSpec => []ServesClusterData
  <1>1. SafeInv => ServesClusterData
    <2> SUFFICES ASSUME SafeInv, NEW v \in Versions, dir["etcd"] = v
                 PROVE  data[v] = "full" /\ link = v /\ Current = v
      BY DEF ServesClusterData
    <2>1. "etcd" \in Services /\ dir["etcd"] # None
      BY MemberAssumption DEF Services
    <2> QED BY <2>1 DEF SafeInv, DataInv, UnitsInv
  <1> QED BY <1>1, SafeNode, PTL

\* No command removes a database, or restores into it offline, while an etcd process has it
\* open, and none is damaged then by a command that fails half-way.
THEOREM SafeWipes ==
    ASSUME TornWrites = FALSE, EarlyRollbacks = FALSE
    PROVE  NodeSpec => NeverWipesInUse
  <1> DEFINE Open(v) == \E s \in Services : dir[s] = v
             Kept == \A v \in Versions : Open(v) /\ ~At("onlineRestore") /\ data[v] # "none"
                                         => data'[v] = data[v]
  <1>1. SafeInv /\ [NodeNext]_nodeVars => [Kept]_memberVars
    <2> SUFFICES ASSUME SafeInv, MemberNext, NEW v \in Versions, Open(v),
                        ~At("onlineRestore"), data[v] # "none"
                 PROVE  data'[v] = data[v]
      BY DEF NodeNext, nodeVars
    <2>1. Changes = {}
      <3>1. PICK s \in Services : dir[s] = v
        BY Zenon
      <3>2. unit[s] # "inactive"
        BY <3>1, MemberAssumption, Zenon DEF SafeInv, UnitsInv
      <3>3. ~(EtcdOff /\ UpgradeOff)
        BY <3>2 DEF EtcdOff, UpgradeOff, Services
      <3> QED BY <3>3, ChangesTable
    <2>2. Removes = {} /\ ~At("offlineRestore")
      BY <2>1 DEF Changes
    <2>3. CASE Step
      <3>1. CASE WipeOldBackups \/ WipeDesired \/ RemoveData
        BY <2>2, <3>1 DEF WipeOldBackups, WipeDesired, RemoveData
      <3>2. CASE ~(WipeOldBackups \/ WipeDesired \/ RemoveData)
        <4>1. data' = data
          BY <2>2, <2>3, <3>2, ZenonT(30) DEF Step, CreateBackup, WriteBackup, StopApiserver, Mask, Stop,
             waitForEtcdStopped, Unmask, Start, waitEtcdHealthy, etcdInitJoin, WriteSynced,
             restartEtcdClients, CheckStatus, WriteVersion, OfflineRestore, OnlineRestore,
             diskVars
        <4> QED BY <4>1
      <3> QED BY <3>1, <3>2, Zenon
    <2>4. CASE Abort
      BY <2>1, <2>4, ZenonT(30) DEF Abort
    <2>5. ASSUME NEW s \in Services, UnitMoves(s) \/ EtcdDies(s)
          PROVE  data'[v] = data[v]
      BY <2>5, Zenon DEF UnitMoves, etcdInit, EtcdStarts, EtcdStops, EtcdDies, diskVars, SafeInv,
         MemberTypeOK
    <2>6. ASSUME \/ Gravity \/ StartUpgrade \/ StartRollback \/ StartWipe \/ Reboot
                 \/ (\E c \in Clients : ClientStarts(c))
                 \/ (\E w \in Versions \ {Assumed} : NewRelease(w))
          PROVE  data'[v] = data[v]
      BY <2>6 DEF Gravity, Begin, Skip, EndPlan, StartUpgrade, StartRollback, StartWipe,
         Reboot, ClientStarts, NewRelease, diskVars
    <2> QED BY <2>3, <2>4, <2>5, <2>6, Zenon DEF MemberNext
  <1> QED BY <1>1, SafeNode, PTL DEF NodeSpec, NeverWipesInUse

\* A command makes clients stale only with etcd disabled, and etcd enable gets past its
\* third step only when none is left.
LEMMA StepClients ==
    ASSUME SafeInv, ClientsInv, StatusFails = FALSE, Step
    PROVE  ClientsInv'
  <1> SUFFICES ASSUME NEW c \in Clients, clients'[c] = "stale"
               PROVE  (EtcdOff /\ Command # "rest" /\ (Command = "enable" => pc <= 3))'
    BY DEF ClientsInv
  <1> MemberTypeOK /\ UnitsInv /\ ServiceInv /\ DataInv /\ LocalsInv
    BY DEF SafeInv
  <1>0. pc \in Nat /\ pc > 0
    <2>1. pc > 0
      BY ZenonT(30) DEF Step, CreateBackup, WriteBackup, StopApiserver, Mask, Stop, waitForEtcdStopped,
         Unmask, Start, waitEtcdHealthy, etcdInitJoin, WriteSynced, restartEtcdClients,
         CheckStatus, WriteVersion, WipeOldBackups, WipeDesired, RemoveData, OfflineRestore,
         OnlineRestore, At
    <2> QED BY <2>1, Counted
  <1>1. ~restartEtcdClients
    BY DEF restartEtcdClients
  <1>2. clients[c] = "stale" \/ WriteVersion \/ RemoveData
    <2>1. CASE StopApiserver
      <3>1. clients' = [clients EXCEPT !["apiserver"] = "off"]
        BY <2>1, Zenon DEF StopApiserver
      <3>2. clients \in [Clients -> {"off", "fresh", "stale", "restarting"}]
        BY Zenon DEF MemberTypeOK
      <3> QED BY <3>1, <3>2
    <2>2. CASE ~StopApiserver /\ ~WriteVersion /\ ~RemoveData
      <3>1. clients' = clients
        BY <1>1, <2>2, ZenonT(30) DEF Step, CreateBackup, WriteBackup, Mask, Stop,
           waitForEtcdStopped, Unmask, Start, waitEtcdHealthy, etcdInitJoin, WriteSynced, CheckStatus,
           WipeOldBackups, WipeDesired, OfflineRestore, OnlineRestore
      <3> QED BY <3>1
    <2> QED BY <2>1, <2>2, Zenon
  <1>3. WriteVersion \/ RemoveData => Command \in {"upgrade", "rollback", "restore", "wipe"}
    BY StepTable DEF WriteVersion, RemoveData
  <1>4. EtcdOff /\ Command # "rest" /\ (Command = "enable" => pc <= 3)
    BY <1>2, <1>3, Zenon DEF ClientsInv, UnitsInv
  <1>5. ~At("restartClients")
    <2>1. At("restartClients") => Command = "enable" /\ pc = 3
      BY StepTable
    <2>2. SUFFICES ASSUME At("restartClients") PROVE FALSE
      OBVIOUS
    <2>3. Program[Command][pc] = "restartClients"
      BY <2>2 DEF At
    <2> QED
      BY <1>1, <2>3, ZenonT(30) DEF Step, CreateBackup, WriteBackup, StopApiserver, Mask, Stop,
         waitForEtcdStopped, Unmask, Start, waitEtcdHealthy, etcdInitJoin, WriteSynced,
         CheckStatus, WriteVersion, WipeOldBackups, WipeDesired, RemoveData,
         OfflineRestore, OnlineRestore, At
  <1>6. Command = "enable" => pc \in {1, 2}
    <2>1. Program["enable"][3] = "restartClients"
      BY DEF Program, etcdEnable
    <2> QED BY <1>0, <1>4, <1>5, <2>1 DEF At
  <1>7. EtcdOff'
    <2>1. CASE Mask
      BY <1>4, <2>1 DEF Mask, EtcdOff
    <2>2. CASE Unmask
      <3>1. locals.service = "etcd-upgrade"
        BY <1>6, <2>2, StepTable DEF Unmask, ServiceInv
      <3> QED BY <1>4, <2>2, <3>1, Zenon DEF Unmask, EtcdOff
    <2>3. CASE Start
      <3>1. locals.service = "etcd-upgrade"
        BY <1>6, <2>3, StepTable DEF Start, ServiceInv
      <3> QED BY <1>4, <2>3, <3>1, Zenon DEF Start, EtcdOff, MemberTypeOK, Services
    <2>4. CASE Stop
      BY <1>4, <2>4 DEF Stop, EtcdOff, MemberTypeOK, Services
    <2>5. CASE ~Mask /\ ~Unmask /\ ~Start /\ ~Stop
      <3>1. UNCHANGED <<masked, unit>>
        BY <2>5, ZenonT(30) DEF Step, CreateBackup, WriteBackup, StopApiserver, waitForEtcdStopped,
           waitEtcdHealthy, etcdInitJoin, WriteSynced, restartEtcdClients, CheckStatus,
           WriteVersion, WipeOldBackups, WipeDesired, RemoveData, OfflineRestore,
           OnlineRestore, systemdVars
      <3> QED BY <1>4, <3>1 DEF EtcdOff
    <2> QED BY <2>1, <2>2, <2>3, <2>4, <2>5
  <1>8. (Command # "rest" /\ (Command = "enable" => pc <= 3))'
    <2>1. CASE Advance
      <3>1. CASE Command = "enable"
        <4>1. pc < Len(Program[Command])
          BY <1>6, <3>1, Lengths
        <4>2. GoesOn
          BY <1>0, <2>1, <4>1, AdvanceOn
        <4> QED BY <1>6, <3>1, <4>2 DEF GoesOn
      <3>2. CASE Command # "enable"
        <4>1. Command' = Command \/ (pc' = 0 /\ Command' # "rest")
          BY <1>0, <2>1, <3>2, AdvanceTable
        <4> QED BY <1>4, <3>2, <4>1
      <3> QED BY <3>1, <3>2
    <2>2. CASE ~Advance
      <3>1. phase' \in Again /\ Plans[plan][phase'] = "disable" /\ plan' = plan
        BY <2>2, ZenonT(30) DEF Step, CreateBackup, WriteBackup, StopApiserver, Mask, Stop,
           waitForEtcdStopped, Unmask, Start, waitEtcdHealthy, etcdInitJoin, WriteSynced,
           restartEtcdClients, CheckStatus, WriteVersion, WipeOldBackups, WipeDesired,
           RemoveData, OfflineRestore, OnlineRestore
      <3> QED BY <3>1 DEF Command
    <2> QED BY <2>1, <2>2
  <1> QED BY <1>7, <1>8

\* Nothing else makes a client stale or brings a disabled etcd back.
LEMMA OtherClients ==
    ASSUME SafeInv, ClientsInv, EarlyRollbacks = FALSE, MemberNext, ~Step
    PROVE  ClientsInv'
  <1> SUFFICES ASSUME NEW c \in Clients, clients'[c] = "stale"
               PROVE  (EtcdOff /\ Command # "rest" /\ (Command = "enable" => pc <= 3))'
    BY DEF ClientsInv
  <1> MemberTypeOK /\ UnitsInv /\ ServiceInv /\ DataInv /\ LocalsInv
    BY DEF SafeInv
  <1>1. ~Reboot /\ \A v \in Versions : ~NewRelease(v)
    BY DEF Reboot, NewRelease, Boot
  <1>2. clients[c] = "stale"
    <2>1. CASE \E d \in Clients : ClientStarts(d)
      BY <2>1 DEF ClientStarts, MemberTypeOK
    <2>2. CASE ~\E d \in Clients : ClientStarts(d)
      <3>1. clients' = clients
        BY <1>1, <2>2 DEF MemberNext, Gravity, Begin, Skip, EndPlan, Abort, UnitMoves, etcdInit,
           EtcdStarts, EtcdStops, EtcdDies, StartUpgrade, StartRollback, StartWipe
      <3> QED BY <3>1, Zenon
    <2> QED BY <2>1, <2>2, Zenon
  <1>3. EtcdOff /\ Command # "rest" /\ (Command = "enable" => pc <= 3)
    BY <1>2, Zenon DEF ClientsInv
  <1>4. CASE \E s \in Services : UnitMoves(s) \/ EtcdDies(s)
    <2>1. PICK s \in Services : UnitMoves(s) \/ EtcdDies(s)
      BY <1>4
    <2>2. /\ unit[s] # "inactive" /\ UNCHANGED <<masked, plan, phase, pc>>
          /\ \E to \in {"activating", "queued", "active", "inactive"} :
                unit' = [unit EXCEPT ![s] = to]
      BY <2>1, Zenon DEF UnitMoves, etcdInit, EtcdStarts, EtcdStops, EtcdDies, planVars
    <2>3. Command' = Command
      BY <2>2 DEF Command
    <2>4. s # "etcd"
      BY <1>3, <2>2, Zenon DEF EtcdOff
    <2> QED BY <1>3, <2>2, <2>3, <2>4 DEF EtcdOff, MemberTypeOK, Services
  <1>5. CASE \E d \in Clients : ClientStarts(d)
    <2>1. UNCHANGED <<masked, unit, plan, phase, pc>>
      BY <1>5 DEF ClientStarts, systemdVars, planVars
    <2> QED BY <1>3, <2>1 DEF EtcdOff, Command
  <1>6. CASE Gravity \/ Abort \/ StartUpgrade \/ StartRollback \/ StartWipe
    <2>1. UNCHANGED <<masked, unit>>
      BY <1>6 DEF Gravity, Begin, Skip, EndPlan, Abort, StartUpgrade, StartRollback, StartWipe,
         systemdVars
    <2>2. EtcdOff'
      BY <1>3, <2>1, Zenon DEF EtcdOff
    <2>3. plan # "none" /\ ~EndPlan /\ ~StartUpgrade /\ ~StartWipe
      BY <1>3, CommandPlans DEF EndPlan, StartUpgrade, StartWipe
    <2>4. CASE Begin
      <3>1. Command' = Command /\ pc' = 1
        BY <2>4 DEF Begin, Command
      <3> QED BY <1>3, <2>2, <3>1
    <2>5. CASE Skip
      <3>1. pc = 0 /\ Command \in {"backup", "restore"} /\ phase' = phase + 1
            /\ plan' = plan /\ pc' = pc
        BY <2>5 DEF Skip
      <3>2. plan = "upgrade" /\ phase = IF Command = "backup" THEN 1 ELSE 4
        BY <3>1, PlanTable, Zenon
      <3>3. Command' \in {"disable", "enable"}
        BY <3>1, <3>2 DEF Plans, Command
      <3> QED BY <2>2, <3>1, <3>3
    <2>6. CASE StartRollback
      <3>1. pc' = 0 /\ Command' = "disable"
        BY <2>6 DEF StartRollback, Command, Plans
      <3> QED BY <2>2, <3>1, Zenon
    <2>7. CASE Abort
      <3>1. pc' = 0 /\ plan' = plan /\ phase' \in {phase} \cup Again
        BY <2>7, Zenon DEF Abort
      <3>2. Command' # "rest"
        BY <1>3, <3>1, AgainTable DEF Command
      <3> QED BY <2>2, <3>1, <3>2
    <2> QED BY <1>6, <2>3, <2>4, <2>5, <2>6, <2>7, Zenon DEF Gravity
  <1> QED BY <1>1, <1>4, <1>5, <1>6 DEF MemberNext

\* Once etcd serves again no client holds watches on the database that was replaced, when
\* restartEtcdClients can read the status of each.
THEOREM SafeClients ==
    ASSUME TornWrites = FALSE, EarlyRollbacks = FALSE, StatusFails = FALSE
    PROVE  NodeSpec => []ClientsRefreshed
  <1>1. NodeInit => ClientsInv
    BY DEF NodeInit, MemberInit, ClientsInv
  <1>2. SafeInv /\ ClientsInv /\ [NodeNext]_nodeVars => ClientsInv'
    <2> SUFFICES ASSUME SafeInv, ClientsInv, MemberNext \/ UNCHANGED memberVars
                 PROVE  ClientsInv'
      BY Zenon DEF NodeNext, nodeVars
    <2>1. CASE UNCHANGED memberVars
      <3>1. UNCHANGED <<masked, unit, clients, plan, phase, pc>>
        BY <2>1 DEF memberVars, systemdVars, planVars
      <3> QED BY <3>1 DEF ClientsInv, EtcdOff, Command
    <2> QED BY <2>1, StepClients, OtherClients, Zenon
  <1>3. SafeInv /\ ClientsInv => ClientsRefreshed
    BY DEF ClientsInv, ClientsRefreshed, EtcdOff
  <1> QED BY <1>1, <1>2, <1>3, SafeNode, PTL DEF NodeSpec

\* setupEtcd leaves the variables of the gateway in their types, on a gateway and on a master.
LEMMA SetUpTyped ==
    ASSUME setupEtcd
    PROVE  GatewayTypeOK
  <1>1. 0 \in 0..MaxChanges
    BY GatewayAssumption
  <1>2. CASE GatewayInit
    BY <1>1, <1>2, Zenon DEF GatewayInit, GatewayTypeOK
  <1>3. CASE GatewayAbsent
    BY <1>1, <1>3, Zenon DEF GatewayAbsent, GatewayTypeOK
  <1> QED BY <1>2, <1>3, Zenon DEF setupEtcd

\* Every action of the gateway and of the agent that keeps its list, and every change of the
\* members, leaves their variables in their types, the count of changes below its bound
\* included.
LEMMA GatewayTyped ==
    ASSUME GatewayTypeOK, GatewayNext
    PROVE  GatewayTypeOK'
  <1>1. Bounded => changes' \in 0..MaxChanges
    BY GatewayAssumption DEF Bounded, GatewayTypeOK
  <1>2. ASSUME NEW H \in SUBSET Hosts \ {{}}, MembersChange(H)
        PROVE  GatewayTypeOK'
    BY <1>1, <1>2, Zenon DEF MembersChange, GatewayTypeOK
  <1>3. ASSUME NEW b \in BOOLEAN, MemberAnnounced(b)
        PROVE  GatewayTypeOK'
    BY <1>1, <1>3, Zenon DEF MemberAnnounced, GatewayTypeOK
  <1>4. CASE AgentStarts
    BY <1>4, Zenon DEF AgentStarts, GatewayTypeOK
  <1>5. CASE AgentDies
    BY <1>1, <1>5, Zenon DEF AgentDies, GatewayTypeOK
  <1>6. CASE NothingToResync
    BY <1>6, Zenon DEF NothingToResync, gatewayVars, GatewayTypeOK
  <1>7. CASE resyncEtcdMasters \/ WriteList
    BY <1>7, Zenon DEF resyncEtcdMasters, WriteList, GatewayTypeOK
  <1>8. CASE RestartGateway
    BY <1>8 DEF RestartGateway, GatewayTypeOK
  <1>9. CASE RestartFails
    BY <1>1, <1>9, Zenon DEF RestartFails, GatewayTypeOK
  <1>10. CASE GatewayStarts \/ Enable
    BY <1>10, Zenon DEF GatewayStarts, Enable, GatewayTypeOK
  <1>11. CASE Disable
    BY <1>1, <1>11 DEF Disable, GatewayTypeOK
  <1> QED BY <1>2, <1>3, <1>4, <1>5, <1>6, <1>7, <1>8, <1>9, <1>10, <1>11, Zenon
        DEF GatewayNext, Resync

\* On a node of either kind every variable keeps to its values: the commands stay in their
\* plans and at their steps, the file, the link and the directories name versions, and a
\* gateway's lists hold masters.
THEOREM NodeTyped ==
    ASSUME TornWrites = FALSE, EarlyRollbacks = FALSE
    PROVE  NodeSpec => []NodeTypeOK
  <1>1. NodeInit => GatewayTypeOK
    BY SetUpTyped, Zenon DEF NodeInit
  <1>2. GatewayTypeOK /\ [NodeNext]_nodeVars => GatewayTypeOK'
    <2>1. GatewayTypeOK /\ UNCHANGED gatewayVars => GatewayTypeOK'
      BY DEF gatewayVars, GatewayTypeOK
    <2> QED BY <2>1, GatewayTyped, Zenon DEF NodeNext, nodeVars
  <1>3. SafeInv /\ GatewayTypeOK => NodeTypeOK
    BY DEF SafeInv, NodeTypeOK
  <1> QED BY <1>1, <1>2, <1>3, SafeNode, PTL DEF NodeSpec
=============================================================================
