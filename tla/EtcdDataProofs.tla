--------------------------- MODULE EtcdDataProofs ---------------------------
(***************************************************************************)
(* The steps that change etcd's databases or the version file, gravity's   *)
(* plans and the interruption of a command preserve the invariant of       *)
(* EtcdUnitsProofs.                                                        *)
(***************************************************************************)
EXTENDS EtcdUnitsProofs

\* Where gravity may take up a plan again.
LEMMA AgainTable ==
    ASSUME MemberTypeOK, NEW p \in Again
    PROVE  /\ p \in DOMAIN Plans[plan] /\ Command # "backup"
           /\ Plans[plan][p] = "disable" \/ (Command = "restore" /\ Plans[plan][p] = "upgrade")
  <1>1. p \in 1..phase /\ phase \in DOMAIN Plans[plan]
    BY DEF Again, MemberTypeOK
  <1>2. p \in DOMAIN Plans[plan]
    <2>1. CASE plan = "none"
      BY <1>1, <2>1 DEF Plans
    <2>2. CASE plan = "upgrade"
      BY <1>1, <2>2 DEF Plans
    <2>3. CASE plan = "rollback"
      BY <1>1, <2>3 DEF Plans
    <2>4. CASE plan = "wipe"
      BY <1>1, <2>4 DEF Plans
    <2> QED BY <2>1, <2>2, <2>3, <2>4, CommandPlans
  <1>3. Command # "backup"
    <2>1. Command = "backup" => plan = "upgrade" /\ phase = 1
      BY PlanTable
    <2>2. Plans["upgrade"][1] = "backup"
      BY DEF Plans
    <2> QED BY <1>1, <2>1, <2>2 DEF Again
  <1> QED BY <1>2, <1>3 DEF Again

\* etcdRestore, the database.
LEMMA OfflineRestoreKeeps ==
    ASSUME SafeInv, OfflineRestore
    PROVE  SafeInv'
  <1> MemberTypeOK /\ UnitsInv /\ ServiceInv /\ DataInv /\ LocalsInv
    BY DEF SafeInv
  <1>0. Command = "restore" /\ pc = 11
    BY StepTable DEF OfflineRestore
  <1>1. pc > 0 /\ pc < Len(Program[Command])
    BY <1>0, Lengths
  <1>2. GoesOn
    BY <1>1, AdvanceOn DEF OfflineRestore
  <1>3. /\ UNCHANGED <<role, desired, file, link, backup, synced, masked, unit, dir, joined,
                        clients, locals, origin, installed, plans, failures>>
        /\ data' = [data EXCEPT ![locals.current] =
                     IF @ = "fresh" /\ backup = "full" THEN "half" ELSE "mixed"]
    BY DEF OfflineRestore, diskVars, systemdVars, historyVars
  <1>4. Current' = Current /\ Backup' = Backup
    BY <1>3 DEF Current, Backup
  <1>p. /\ plan' = plan /\ Command = "restore" /\ Command' = "restore" /\ pc = 11 /\ pc' = 12
    BY <1>0, <1>2 DEF GoesOn
  <1>t. data' \in [Versions -> Contents]
    BY <1>3 DEF MemberTypeOK, Contents
  <1>5. /\ plan = "upgrade" /\ OriginSafe /\ Current = desired /\ backup = "full" /\ EtcdOff
        /\ role # "joiner" /\ data[Current] = "fresh" /\ locals.current = Current
    BY <1>p, CommandPlans DEF UnitsInv, ServiceInv, DataInv, LocalsInv
  <1>6. dir["etcd"] = None /\ UpgradeOff /\ dir["etcd-upgrade"] = None
    BY <1>p, <1>3, <1>5 DEF UnitsInv, ServiceInv, EtcdOff, UpgradeOff, Services
  <1>7. data'[Current] = "half" /\ data'[origin] = "full"
    BY <1>3, <1>5, <1>6 DEF OriginSafe, MemberTypeOK
  <1>m. MemberTypeOK'
    BY <1>2, <1>3, <1>t DEF MemberTypeOK, GoesOn
  <1>u. UnitsInv'
    BY <1>p, <1>3, <1>4, <1>5, <1>6, <1>7 DEF UnitsInv, EtcdOff, UpgradeOff, Services
  <1>s. ServiceInv'
    BY <1>p, <1>3, <1>5, <1>6 DEF ServiceInv, UpgradeOff, Ending
  <1>d. DataInv'
    BY <1>p, <1>3, <1>4, <1>5, <1>6, <1>7 DEF DataInv, Serviceable, OriginSafe, EtcdOff
  <1>l. LocalsInv'
    BY <1>p, <1>3, <1>4, <1>5, <1>7 DEF LocalsInv
  <1> QED BY <1>m, <1>u, <1>s, <1>d, <1>l DEF SafeInv

\* etcdRestore, the v2 keys.
LEMMA OnlineRestoreKeeps ==
    ASSUME SafeInv, OnlineRestore
    PROVE  SafeInv'
  <1> MemberTypeOK /\ UnitsInv /\ ServiceInv /\ DataInv /\ LocalsInv
    BY DEF SafeInv
  <1>0. Command = "restore" /\ pc = 15
    BY StepTable DEF OnlineRestore
  <1>1. pc > 0 /\ pc < Len(Program[Command])
    BY <1>0, Lengths
  <1>2. GoesOn
    BY <1>1, AdvanceOn DEF OnlineRestore
  <1>3. /\ UNCHANGED <<role, desired, file, link, backup, synced, masked, unit, dir, joined,
                        clients, locals, origin, installed, plans, failures>>
        /\ dir["etcd-upgrade"] # None
        /\ data' = [data EXCEPT ![dir["etcd-upgrade"]] =
                     IF @ = "half" /\ backup = "full" THEN "full" ELSE "mixed"]
    BY DEF OnlineRestore, diskVars, systemdVars, historyVars
  <1>4. Current' = Current /\ Backup' = Backup
    BY <1>3 DEF Current, Backup
  <1>p. /\ plan' = plan /\ Command = "restore" /\ Command' = "restore" /\ pc = 15 /\ pc' = 16
    BY <1>0, <1>2 DEF GoesOn
  <1>t. data' \in [Versions -> Contents]
    BY <1>3, ZenonT(30) DEF MemberTypeOK, Contents
  <1>5. /\ plan = "upgrade" /\ OriginSafe /\ Current = desired /\ backup = "full" /\ EtcdOff
        /\ role # "joiner" /\ data[Current] = "half" /\ locals.current = Current
    BY <1>p, CommandPlans DEF UnitsInv, ServiceInv, DataInv, LocalsInv
  <1>6. dir["etcd"] = None /\ dir["etcd-upgrade"] = Current
    BY <1>p, <1>3, <1>5 DEF UnitsInv, ServiceInv, EtcdOff, UpgradeOff, Services
  <1>7. data'[Current] = "full" /\ data'[origin] = "full"
    BY <1>3, <1>5, <1>6 DEF OriginSafe, MemberTypeOK
  <1>m. MemberTypeOK'
    BY <1>2, <1>3, <1>t DEF MemberTypeOK, GoesOn
  <1>u. UnitsInv'
    BY <1>p, <1>3, <1>4, <1>5, <1>6, <1>7 DEF UnitsInv, EtcdOff, UpgradeOff, Services
  <1>s. ServiceInv'
    BY <1>p, <1>3, <1>5, <1>6 DEF ServiceInv, UpgradeOff, Ending
  <1>d. DataInv'
    BY <1>p, <1>3, <1>4, <1>5, <1>6, <1>7 DEF DataInv, Serviceable, OriginSafe, EtcdOff
  <1>l. LocalsInv'
    BY <1>p, <1>3, <1>4, <1>5, <1>7 DEF LocalsInv
  <1> QED BY <1>m, <1>u, <1>s, <1>d, <1>l DEF SafeInv

\* The version before the one that is backed up goes.
LEMMA WipeOldBackupsKeeps ==
    ASSUME SafeInv, WipeOldBackups
    PROVE  SafeInv'
  <1> MemberTypeOK /\ UnitsInv /\ ServiceInv /\ DataInv /\ LocalsInv
    BY DEF SafeInv
  <1>0. Command = "upgrade" /\ pc = 3 /\ At("wipeBackup")
    BY StepTable DEF WipeOldBackups
  <1>1. pc > 0 /\ pc < Len(Program[Command])
    BY <1>0, Lengths
  <1>2. GoesOn
    BY <1>1, AdvanceOn DEF WipeOldBackups
  <1>3. Removes = IF locals.current = desired THEN {} ELSE {locals.backup} \ {None}
    BY <1>0, StepTable DEF Removes
  <1>4. /\ UNCHANGED <<role, desired, file, link, backup, synced, masked, unit, dir, joined,
                       clients, locals, origin, installed, plans, failures>>
        /\ data' \in [Versions -> Contents]
        /\ \A v \in Versions : v \notin Removes => data'[v] = data[v]
    BY DEF WipeOldBackups, systemdVars, historyVars, MemberTypeOK, Contents
  <1>5. EtcdOff /\ UpgradeOff /\ plan = "upgrade" /\ Current' = Current /\ Backup' = Backup
    BY <1>0, <1>4, CommandPlans DEF UnitsInv, Current, Backup
  <1>6. OriginSafe /\ data'[origin] = "full"
    <2>1. OriginSafe /\ origin \notin Removes /\ origin \in Versions
      BY <1>0, <1>3, <1>5 DEF LocalsInv, DataInv, OriginSafe, MemberTypeOK
    <2> QED BY <1>4, <2>1 DEF OriginSafe
  <1>7. \A s \in Services : dir[s] = None
    BY <1>5, Zenon DEF UnitsInv, EtcdOff, UpgradeOff, Services
  <1>m. MemberTypeOK'
    BY <1>2, <1>4 DEF MemberTypeOK, GoesOn
  <1>u. UnitsInv'
    BY <1>0, <1>2, <1>4, <1>5, <1>7 DEF UnitsInv, EtcdOff, UpgradeOff, GoesOn
  <1>s. ServiceInv'
    BY <1>0, <1>2 DEF ServiceInv, GoesOn
  <1>d. DataInv'
    BY <1>0, <1>2, <1>4, <1>5, <1>6, <1>7
    DEF DataInv, OriginSafe, EtcdOff, GoesOn, Services
  <1>l. LocalsInv'
    BY <1>0, <1>2 DEF LocalsInv, GoesOn
  <1> QED BY <1>m, <1>u, <1>s, <1>d, <1>l DEF SafeInv

\* What an earlier attempt has left goes.
LEMMA WipeDesiredKeeps ==
    ASSUME SafeInv, WipeDesired
    PROVE  SafeInv'
  <1> MemberTypeOK /\ UnitsInv /\ ServiceInv /\ DataInv /\ LocalsInv
    BY DEF SafeInv
  <1>0. Command = "upgrade" /\ pc = 4 /\ At("wipeDesired")
    BY StepTable DEF WipeDesired
  <1>1. pc > 0 /\ pc = Len(Program[Command])
    BY <1>0, Lengths
  <1>2. Ends("restore")
    BY <1>0, <1>1, AdvanceEnds DEF WipeDesired
  <1>3. Removes = {desired}
    BY <1>0, StepTable DEF Removes
  <1>4. /\ UNCHANGED <<role, desired, file, link, backup, synced, masked, unit, dir, joined,
                       clients, locals, origin, installed, plans, failures>>
        /\ data' \in [Versions -> Contents]
        /\ \A v \in Versions : data'[v] = IF v = desired THEN "none" ELSE data[v]
    BY <1>3 DEF WipeDesired, systemdVars, historyVars, MemberTypeOK, Contents
  <1>5. EtcdOff /\ UpgradeOff /\ plan = "upgrade" /\ Current' = Current /\ Backup' = Backup
    BY <1>0, <1>4, CommandPlans DEF UnitsInv, Current, Backup
  <1>6. OriginSafe /\ data'[origin] = "full"
    BY <1>4, <1>5 DEF DataInv, OriginSafe, MemberTypeOK
  <1>7. \A s \in Services : dir[s] = None
    BY <1>5 DEF UnitsInv, EtcdOff, UpgradeOff, Services
  <1>m. MemberTypeOK'
    BY <1>2, <1>4 DEF MemberTypeOK, Ends
  <1>u. UnitsInv'
    BY <1>0, <1>2, <1>4, <1>5, <1>7 DEF UnitsInv, EtcdOff, UpgradeOff, Ends
  <1>s. ServiceInv'
    BY <1>2 DEF ServiceInv, Ends
  <1>d. DataInv'
    BY <1>0, <1>2, <1>4, <1>5, <1>6, <1>7
    DEF DataInv, OriginSafe, EtcdOff, Ends, Services
  <1>l. LocalsInv'
    BY <1>0, <1>2, <1>4, <1>5 DEF LocalsInv, DataInv, MemberTypeOK, Ends
  <1> QED BY <1>m, <1>u, <1>s, <1>d, <1>l DEF SafeInv

\* An upgrade ends at the desired version with the one it began with as backup, a rollback
\* ends there without one, also when they are repeated.
LEMMA WriteVersionKeeps ==
    ASSUME SafeInv, WriteVersion
    PROVE  SafeInv'
  <1> MemberTypeOK /\ UnitsInv /\ ServiceInv /\ DataInv /\ LocalsInv
    BY DEF SafeInv
  <1>0. Command \in {"upgrade", "rollback"} /\ pc = 2
    BY StepTable DEF WriteVersion
  <1>1. \/ Command = "upgrade" /\ pc = 2 /\ GoesOn
        \/ Command = "rollback" /\ pc = 2 /\ Ends("enable")
    <2>1. CASE Command = "upgrade" /\ pc = 2
      <3>1. pc > 0 /\ pc < Len(Program[Command])
        BY <2>1, Lengths
      <3> QED BY <2>1, <3>1, AdvanceOn DEF WriteVersion
    <2>2. CASE Command = "rollback" /\ pc = 2
      <3>1. pc > 0 /\ pc = Len(Program[Command])
        BY <2>2, Lengths
      <3> QED BY <2>2, <3>1, AdvanceEnds DEF WriteVersion
    <2> QED BY <1>0, <2>1, <2>2
  <1>2. UNCHANGED <<role, desired, data, link, backup, synced, masked, unit, dir, joined,
                    locals, origin, installed, plans, failures>>
    BY Zenon DEF WriteVersion, systemdVars, historyVars
  <1>3. EtcdOff /\ UpgradeOff /\ plan = Command /\ OriginSafe /\ Backup # Current
        /\ locals.current = Current /\ locals.backup = Backup
        /\ desired # Assumed /\ desired \in Versions /\ origin \in Versions
    BY <1>0, CommandPlans DEF UnitsInv, DataInv, LocalsInv, MemberTypeOK
  <1>4. file' = VersionToWrite /\ clients' = Outdated
    BY DEF WriteVersion
  <1>5. CASE Command = "upgrade"
    <2>1. Current' = desired /\ Backup' = origin /\ file' \in [version: Lines, prev: Lines]
      BY <1>3, <1>4, <1>5, MemberAssumption
      DEF VersionToWrite, writeEtcdEnvironment, Current, Backup, OriginSafe, MemberTypeOK, Lines
    <2>2. locals.current = desired \/ locals.backup # origin
      BY <1>3 DEF OriginSafe
    <2>3. \A s \in Services : dir[s] = None
      BY <1>3, Zenon DEF UnitsInv, EtcdOff, UpgradeOff, Services
    <2>m. MemberTypeOK'
      BY <1>1, <1>2, <1>4, <1>5, <2>1 DEF MemberTypeOK, GoesOn, Outdated
    <2>u. UnitsInv'
      BY <1>1, <1>2, <1>3, <1>5, <2>3 DEF UnitsInv, EtcdOff, UpgradeOff, GoesOn, Services
    <2>s. ServiceInv'
      BY <1>1, <1>5, Zenon DEF ServiceInv, GoesOn
    <2>d. DataInv'
      BY <1>1, <1>2, <1>3, <1>5, <2>1, <2>3, Zenon
      DEF DataInv, OriginSafe, EtcdOff, GoesOn, Services
    <2>l. LocalsInv'
      BY <1>1, <1>2, <1>5, <2>2 DEF LocalsInv, GoesOn
    <2> QED BY <2>m, <2>u, <2>s, <2>d, <2>l, Zenon DEF SafeInv
  <1>6. CASE Command = "rollback"
    <2>1. Current' = origin /\ Backup' = None /\ file' \in [version: Lines, prev: Lines]
      <3>1. Current = origin => Backup = None
        BY <1>3, <1>6 DEF DataInv
      <3> QED BY <1>3, <1>4, <1>6, <3>1, MemberAssumption
        DEF VersionToWrite, writeEtcdEnvironment, Current, Backup, OriginSafe, MemberTypeOK, Lines
    <2>2. Serviceable'
      BY <1>2, <1>3, <2>1 DEF Serviceable, OriginSafe
    <2>3. \A s \in Services : dir[s] = None
      BY <1>3, Zenon DEF UnitsInv, EtcdOff, UpgradeOff, Services
    <2>m. MemberTypeOK'
      BY <1>1, <1>2, <1>4, <1>6, <2>1 DEF MemberTypeOK, Ends, Outdated
    <2>u. UnitsInv'
      BY <1>1, <1>2, <1>3, <1>6, <2>3 DEF UnitsInv, EtcdOff, UpgradeOff, Ends, Services
    <2>s. ServiceInv'
      BY <1>1, <1>6 DEF ServiceInv, Ends
    <2>d. DataInv'
      BY <1>1, <1>2, <1>3, <1>6, <2>1, <2>2, <2>3, MemberAssumption
      DEF DataInv, OriginSafe, EtcdOff, Ends, Services
    <2>l. LocalsInv'
      BY <1>1, <1>6 DEF LocalsInv, Ends
    <2> QED BY <2>m, <2>u, <2>s, <2>d, <2>l, Zenon DEF SafeInv
  <1> QED BY <1>0, <1>5, <1>6

\* A restore removes the desired version; a wipe leaves no cluster.
LEMMA RemoveDataKeeps ==
    ASSUME SafeInv, RemoveData
    PROVE  SafeInv'
  <1> MemberTypeOK /\ UnitsInv /\ ServiceInv /\ DataInv /\ LocalsInv
    BY DEF SafeInv
  <1>0. At("removeData") /\ Command \in {"restore", "wipe"} /\ pc = IF Command = "wipe" THEN 1 ELSE 4
    BY StepTable DEF RemoveData
  <1>1. \/ Command = "restore" /\ pc = 4 /\ GoesOn
        \/ Command = "wipe" /\ pc = 1 /\ Ends("enable")
    <2>1. CASE Command = "restore" /\ pc = 4
      <3>1. pc > 0 /\ pc < Len(Program[Command])
        BY <2>1, Lengths
      <3> QED BY <2>1, <3>1, AdvanceOn DEF RemoveData
    <2>2. CASE Command = "wipe" /\ pc = 1
      <3>1. pc > 0 /\ pc = Len(Program[Command])
        BY <2>2, Lengths
      <3> QED BY <2>2, <3>1, AdvanceEnds DEF RemoveData
    <2> QED BY <1>0, <2>1, <2>2
  <1>2. Removes = Below(locals.current) /\ locals.current = Current
    BY <1>0, StepTable DEF Removes, LocalsInv
  <1>3. /\ UNCHANGED <<role, desired, link, backup, masked, unit, dir, joined, locals,
                       origin, plans, failures>>
        /\ data' = [v \in Versions |-> IF v \in Below(Current) THEN "none" ELSE data[v]]
        /\ file' = (IF Current = Assumed THEN Empty ELSE file)
        /\ synced' = (IF Current = Assumed THEN "none" ELSE synced)
        /\ installed' = (installed /\ Command # "wipe") /\ clients' = Outdated
    BY <1>2, Zenon DEF RemoveData, systemdVars
  <1>4. MemberTypeOK'
    BY <1>1, <1>3, MemberAssumption
    DEF MemberTypeOK, GoesOn, Ends, Contents, Lines, Empty, Outdated
  <1>5. EtcdOff /\ UpgradeOff /\ Current \in Versions
    BY <1>1, CommandPlans, MemberAssumption DEF UnitsInv, ServiceInv, MemberTypeOK, Current, Lines
  <1>6. \A s \in Services : dir[s] = None
    BY <1>5 DEF UnitsInv, EtcdOff, UpgradeOff, Services
  <1>7. CASE Command = "restore"
    <2>1. plan = "upgrade" /\ OriginSafe /\ Current = desired /\ desired # Assumed
      BY <1>7, CommandPlans DEF DataInv, MemberTypeOK
    <2>2. /\ UNCHANGED <<file, installed>> /\ Current' = Current /\ Backup' = Backup
          /\ data'[Current] = "none" /\ data'[origin] = "full"
      BY <1>3, <1>5, <1>7, <2>1, ZenonT(30) DEF Below, OriginSafe, Current, Backup, MemberTypeOK
    <2>u. UnitsInv'
      BY <1>1, <1>3, <1>5, <1>6, <1>7, <2>2, Zenon DEF UnitsInv, EtcdOff, UpgradeOff, GoesOn, Services
    <2>s. ServiceInv'
      BY <1>1, <1>3, <1>5, <1>7 DEF ServiceInv, UpgradeOff, GoesOn
    <2>d. DataInv'
      BY <1>1, <1>3, <1>5, <1>6, <1>7, <2>1, <2>2, ZenonT(30)
      DEF DataInv, OriginSafe, EtcdOff, GoesOn, Services
    <2>l. LocalsInv'
      BY <1>1, <1>2, <1>3, <1>7, <2>2 DEF LocalsInv, GoesOn
    <2> QED BY <1>4, <2>u, <2>s, <2>d, <2>l, Zenon DEF SafeInv
  <1>8. CASE Command = "wipe"
    <2>1. plan = "wipe" /\ installed' = FALSE
      BY <1>3, <1>8, CommandPlans, ZenonT(30)
    <2>2. /\ Current' = Current /\ data'[Current] = "none" /\ Backup' # Current'
          /\ file'.version = None => \A v \in Versions : data'[v] = "none"
      BY <1>3, <1>5, MemberAssumption, Zenon DEF Below, Current, Backup, Empty, DataInv, MemberTypeOK, Lines
    <2>u. UnitsInv'
      BY <1>1, <1>3, <1>5, <1>6, <1>8, <2>2 DEF UnitsInv, EtcdOff, UpgradeOff, Ends, Services
    <2>s. ServiceInv'
      BY <1>1, <1>8 DEF ServiceInv, Ends
    <2>d. DataInv'
      BY <1>1, <1>3, <1>5, <1>6, <1>8, <2>1, <2>2, Zenon
      DEF DataInv, Serviceable, EtcdOff, Ends, Services
    <2>l. LocalsInv'
      BY <1>1, <1>8 DEF LocalsInv, Ends
    <2> QED BY <1>4, <2>u, <2>s, <2>d, <2>l DEF SafeInv
  <1> QED BY <1>0, <1>7, <1>8

\* The upgrade goes on beside no etcd, and otherwise etcd is disabled first.
LEMMA CheckStatusKeeps ==
    ASSUME SafeInv, CheckStatus
    PROVE  SafeInv'
  <1> MemberTypeOK /\ UnitsInv /\ ServiceInv /\ DataInv /\ LocalsInv
    BY DEF SafeInv
  <1>0. Command \in {"upgrade", "rollback"} /\ pc = 1
    BY StepTable DEF CheckStatus
  <1>1. UNCHANGED <<role, desired, file, data, link, backup, synced, masked, unit, dir, joined,
                    clients, origin, installed, plans, failures>>
    BY DEF CheckStatus, diskVars, systemdVars, historyVars
  <1>2. Current' = Current /\ Backup' = Backup
    BY <1>1 DEF Current, Backup
  <1>3. EtcdOff /\ plan = Command
    BY <1>0, CommandPlans DEF UnitsInv
  <1>4. CASE \A s \in Services : unit[s] = "inactive"
    <2>1. pc > 0 /\ pc < Len(Program[Command])
      <3>1. CASE Command = "upgrade"
        BY <1>0, <3>1, Lengths
      <3>2. CASE Command = "rollback"
        BY <1>0, <3>2, Lengths
      <3> QED BY <1>0, <3>1, <3>2
    <2>2. GoesOn /\ locals' = [locals EXCEPT !.current = Current, !.backup = Backup]
      BY <1>4, <2>1, AdvanceOn DEF CheckStatus
    <2>3. UpgradeOff
      BY <1>4 DEF UpgradeOff, Services
    <2>4. plan' = plan /\ Command' = Command /\ pc' = 2
      BY <1>0, <2>2 DEF GoesOn
    <2>5. /\ locals' \in [current: Versions, backup: Lines, service: Services, member: BOOLEAN]
          /\ locals'.current = Current /\ locals'.backup = Backup
      <3>1. Current \in Versions /\ Backup \in Lines
        BY MemberAssumption DEF MemberTypeOK, Current, Backup, Lines
      <3> QED BY <2>2, <3>1, ZenonT(30) DEF MemberTypeOK
    <2>m. MemberTypeOK'
      BY <1>1, <2>2, <2>5, Zenon DEF MemberTypeOK, GoesOn
    <2>u. UnitsInv'
      BY <1>1, <1>2, <1>3, <2>3, <2>4 DEF UnitsInv, EtcdOff, UpgradeOff
    <2>s. ServiceInv'
      BY <1>0, <2>4, Zenon DEF ServiceInv
    <2>d. DataInv'
      BY <1>0, <1>1, <1>2, <2>4 DEF DataInv, Serviceable, OriginSafe, EtcdOff
    <2>l. LocalsInv'
      BY <1>0, <1>2, <2>4, <2>5 DEF LocalsInv
    <2> QED BY <2>m, <2>u, <2>s, <2>d, <2>l DEF SafeInv
  <1>5. CASE ~(\A s \in Services : unit[s] = "inactive")
    <2>1. pc' = 0 /\ phase' \in Again /\ Plans[plan][phase'] = "disable" /\ plan' = plan
          /\ locals' = locals
      BY <1>5 DEF CheckStatus
    <2>2. phase' \in DOMAIN Plans[plan']
      BY <2>1, AgainTable
    <2>3. Command' = "disable"
      BY <2>1, Zenon DEF Command
    <2>m. MemberTypeOK'
      BY <1>1, <2>1, <2>2 DEF MemberTypeOK
    <2>u. UnitsInv'
      BY <1>0, <1>1, <1>2, <1>3, <2>1, <2>3, Zenon DEF UnitsInv, EtcdOff, UpgradeOff
    <2>s. ServiceInv'
      BY <2>1, <2>3 DEF ServiceInv
    <2>d. DataInv'
      BY <1>0, <1>1, <1>2, <1>3, <2>1, <2>3, Zenon DEF DataInv, OriginSafe, EtcdOff
    <2>l. LocalsInv'
      BY <2>3 DEF LocalsInv
    <2> QED BY <2>m, <2>u, <2>s, <2>d, <2>l DEF SafeInv
  <1> QED BY <1>4, <1>5

\* gravity begins a command.
LEMMA BeginKeeps ==
    ASSUME SafeInv, Begin
    PROVE  SafeInv'
  <1> MemberTypeOK /\ UnitsInv /\ ServiceInv /\ DataInv /\ LocalsInv
    BY DEF SafeInv
  <1>0. /\ UNCHANGED <<role, desired, file, data, link, backup, synced, masked, unit, dir, joined,
                       clients, plan, phase, origin, installed, plans, failures>>
        /\ pc = 0 /\ pc' = 1 /\ Command # "rest"
        /\ role = "joiner" => Command \notin {"backup", "restore"}
        /\ locals' = [locals EXCEPT !.current = Current,
                         !.service = IF \/ Command = "restore"
                                        \/ Command = "disable" /\ unit["etcd-upgrade"] # "inactive"
                                     THEN "etcd-upgrade" ELSE "etcd"]
    BY DEF Begin, diskVars, systemdVars, historyVars
  <1>1. Command' = Command
    BY <1>0 DEF Command
  <1>2. 1 \in DOMAIN Program[Command]
    <2>1. Command \in {"backup", "disable", "upgrade", "rollback", "restore", "enable", "wipe"}
      BY <1>0, PlanTable
    <2> QED BY <2>1, Lengths
  <1>3. Current' = Current /\ Backup' = Backup /\ Current \in Versions
    BY <1>0, MemberAssumption DEF Current, Backup, MemberTypeOK, Lines
  <1>4. /\ locals' \in [current: Versions, backup: Lines, service: Services, member: BOOLEAN]
        /\ locals'.current = Current
        /\ locals'.service = IF \/ Command = "restore"
                                \/ Command = "disable" /\ unit["etcd-upgrade"] # "inactive"
                             THEN "etcd-upgrade" ELSE "etcd"
    BY <1>0, <1>3, ZenonT(30) DEF MemberTypeOK, Services
  <1>m. MemberTypeOK'
    BY <1>0, <1>1, <1>2, <1>4 DEF MemberTypeOK
  <1>u. UnitsInv'
    BY <1>0, <1>1, <1>3 DEF UnitsInv, EtcdOff, UpgradeOff
  <1>s. ServiceInv'
    BY <1>0, <1>1, <1>4 DEF ServiceInv, UnitsInv, EtcdOff, UpgradeOff
  <1>d. DataInv'
    BY <1>0, <1>1, <1>3 DEF DataInv, Serviceable, OriginSafe, EtcdOff
  <1>l. LocalsInv'
    BY <1>0, <1>1, <1>3, <1>4 DEF LocalsInv
  <1> QED BY <1>m, <1>u, <1>s, <1>d, <1>l DEF SafeInv

\* A joiner comes to etcd enable with no database, and gets it from the cluster.
LEMMA SkipKeeps ==
    ASSUME SafeInv, Skip
    PROVE  SafeInv'
  <1> MemberTypeOK /\ UnitsInv /\ ServiceInv /\ DataInv /\ LocalsInv
    BY DEF SafeInv
  <1>0. /\ UNCHANGED <<role, desired, file, data, link, backup, synced, masked, unit, dir, joined,
                       clients, plan, pc, locals, origin, installed, plans, failures>>
        /\ pc = 0 /\ role = "joiner" /\ Command \in {"backup", "restore"} /\ phase' = phase + 1
    BY Zenon DEF Skip, diskVars, systemdVars, historyVars
  <1>1. /\ plan = "upgrade" /\ phase' \in DOMAIN Plans[plan']
        /\ Command = "backup" => Command' = "disable"
        /\ Command = "restore" => Command' = "enable"
    <2>1. plan = "upgrade" /\ phase = IF Command = "backup" THEN 1 ELSE 4
      BY <1>0, PlanTable
    <2> QED BY <1>0, <2>1 DEF Plans, Command
  <1>2. Current' = Current /\ Backup' = Backup
    BY <1>0, Zenon DEF Current, Backup
  <1>3. Command = "restore" => Current = desired /\ Serviceable
    BY <1>0, <1>1, Zenon DEF Serviceable, DataInv, LocalsInv, OriginSafe, MemberTypeOK, Current
  <1>m. MemberTypeOK'
    BY <1>0, <1>1, Zenon DEF MemberTypeOK
  <1>u. UnitsInv'
    BY <1>0, <1>1, <1>2, Zenon DEF UnitsInv, EtcdOff, UpgradeOff
  <1>s. ServiceInv'
    BY <1>0 DEF ServiceInv
  <1>d. DataInv'
    BY <1>0, <1>1, <1>2, <1>3, Zenon DEF DataInv, Serviceable, OriginSafe, EtcdOff
  <1>l. LocalsInv'
    BY <1>0, <1>1 DEF LocalsInv
  <1> QED BY <1>m, <1>u, <1>s, <1>d, <1>l DEF SafeInv

\* gravity's plans begin and end.
LEMMA PlanKeeps ==
    ASSUME SafeInv, EarlyRollbacks = FALSE,
           EndPlan \/ StartUpgrade \/ StartRollback \/ StartWipe
    PROVE  SafeInv'
  <1> MemberTypeOK /\ UnitsInv /\ ServiceInv /\ DataInv /\ LocalsInv
    BY Zenon DEF SafeInv
  <1>1. /\ UNCHANGED <<role, desired, file, data, link, backup, synced, masked, unit, dir,
                       clients, pc, locals, installed, failures>>
        /\ joined' \in {joined, "absent"} /\ origin' \in {origin, Current}
        /\ plans' = plans \/ (plans < MaxPlans /\ plans' = plans + 1)
    BY DEF EndPlan, StartUpgrade, StartRollback, StartWipe, diskVars, systemdVars, historyVars
  <1>2. Command = "rest" => pc = 0
    BY Resting
  <1>3. pc = 0
    BY <1>2, CommandPlans DEF EndPlan, StartUpgrade, StartRollback, StartWipe
  <1>4. /\ plan' \in DOMAIN Plans /\ phase' \in DOMAIN Plans[plan']
        /\ \/ /\ plan' = "none" /\ Command' = "rest" /\ origin' = origin
              /\ plan # "none" /\ Command = "rest"
           \/ /\ plan' = "upgrade" /\ Command' = "backup" /\ origin' = Current
              /\ plan = "none" /\ Command = "rest" /\ unit["etcd"] = "active" /\ Current # desired
           \/ /\ plan' = "rollback" /\ Command' = "disable" /\ origin' = origin
              /\ plan = "upgrade" /\ Command \in {"restore", "enable", "rest"}
           \/ /\ plan' = "wipe" /\ Command' = "disable" /\ origin' = origin
              /\ plan = "none" /\ Command = "rest"
    <2>1. CASE EndPlan
      BY <2>1 DEF EndPlan, historyVars, Plans, Command
    <2>2. CASE StartUpgrade
      BY <2>2, CommandPlans DEF StartUpgrade, Plans, Command
    <2>3. CASE StartRollback
      BY <2>3 DEF StartRollback, Plans, Command
    <2>4. CASE StartWipe
      BY <2>4, CommandPlans DEF StartWipe, Plans, Command
    <2> QED BY <2>1, <2>2, <2>3, <2>4, Zenon
  <1>5. Current' = Current /\ Backup' = Backup /\ Current \in Versions
    BY <1>1, MemberAssumption, Zenon DEF Current, Backup, MemberTypeOK, Lines
  <1>m. MemberTypeOK'
    BY <1>1, <1>3, <1>4, <1>5, MemberAssumption DEF MemberTypeOK
  <1>u. UnitsInv'
    BY <1>1, <1>3, <1>4, <1>5, Zenon DEF UnitsInv, EtcdOff, UpgradeOff
  <1>s. ServiceInv'
    BY <1>1, <1>3 DEF ServiceInv
  <1>d. DataInv'
    BY <1>1, <1>3, <1>4, <1>5, SMTT(20)
    DEF DataInv, UnitsInv, Serviceable, OriginSafe, EtcdOff, Services
  <1>l. LocalsInv'
    BY <1>1, <1>3, <1>4, ZenonT(30) DEF LocalsInv
  <1> QED BY <1>m, <1>u, <1>s, <1>d, <1>l DEF SafeInv

\* No step changes a database while a unit may use it, nor the version the upgrade began with.
LEMMA ChangesTable ==
    ASSUME SafeInv
    PROVE  /\ Changes # {} => EtcdOff /\ Command \in {"upgrade", "restore", "wipe"} /\ pc > 0
           /\ Changes # {} /\ ~At("onlineRestore") => UpgradeOff
           /\ plan \in {"upgrade", "rollback"} => origin \notin Changes
  <1> MemberTypeOK /\ UnitsInv /\ ServiceInv /\ DataInv /\ LocalsInv
    BY Zenon DEF SafeInv
  <1>1. Changes # {} => /\ Command \in {"upgrade", "restore", "wipe"} /\ pc > 0
                        /\ Command = "upgrade" => pc \in {3, 4}
                        /\ Command = "restore" => pc \in {4, 11, 15}
    <2>1. Changes # {} => \/ At("wipeBackup") \/ At("wipeDesired") \/ At("removeData")
                          \/ At("offlineRestore") \/ At("onlineRestore")
      BY DEF Changes, Removes
    <2> QED BY <2>1, StepTable
  <1>2. Changes # {} => EtcdOff /\ Command \in {"upgrade", "restore", "wipe"} /\ pc > 0
    BY <1>1, Zenon DEF UnitsInv
  <1>3. Changes # {} /\ ~At("onlineRestore") => UpgradeOff
    BY <1>1, StepTable DEF UnitsInv, ServiceInv
  <1>4. ASSUME plan \in {"upgrade", "rollback"}, origin \in Changes PROVE FALSE
    <2>1. OriginSafe /\ plan = "upgrade" /\ desired # Assumed /\ Command # "wipe"
      BY <1>2, <1>4, CommandPlans, Zenon DEF DataInv, MemberTypeOK
    <2>2. CASE Command = "upgrade" /\ pc = 3
      <3>1. Changes = IF locals.current = desired THEN {} ELSE {locals.backup} \ {None}
        <4>1. ~At("wipeDesired") /\ ~At("removeData") /\ ~At("offlineRestore")
              /\ ~At("onlineRestore")
          BY <2>2, StepTable
        <4> QED BY <1>4, <4>1, Zenon DEF Changes, Removes
      <3> QED BY <1>4, <2>1, <2>2, <3>1 DEF LocalsInv
    <2>3. CASE Command = "upgrade" /\ pc = 4
      <3>1. Changes \subseteq {desired}
        BY <2>3, StepTable DEF Changes, Removes
      <3> QED BY <1>4, <2>1, <3>1 DEF OriginSafe
    <2>4. CASE Command = "restore" /\ pc \in {4, 11, 15}
      <3>1. locals.current = Current /\ Current = desired
        BY <2>1, <2>4 DEF LocalsInv, DataInv
      <3>2. Changes \subseteq Below(locals.current) \cup {locals.current}
        BY <2>4, StepTable DEF Changes, Removes
      <3> QED BY <1>4, <2>1, <3>1, <3>2, Zenon DEF OriginSafe, Below
    <2> QED BY <1>1, <1>4, <2>1, <2>2, <2>3, <2>4, Zenon
  <1> QED BY <1>2, <1>3, <1>4

\* A command that is cut short leaves damage only where a repetition looks.
LEMMA AbortKeeps ==
    ASSUME SafeInv, TornWrites = FALSE, Abort
    PROVE  SafeInv'
  <1> MemberTypeOK /\ UnitsInv /\ ServiceInv /\ DataInv /\ LocalsInv
    BY DEF SafeInv
  <1>1. /\ UNCHANGED <<role, desired, file, link, backup, synced, masked, unit, dir, joined,
                       clients, plan, locals, origin, installed, plans>>
        /\ pc > 0 /\ pc' = 0 /\ failures < MaxFailures /\ failures' = failures + 1
        /\ phase' = phase \/ phase' \in Again
    BY Zenon DEF Abort, systemdVars
  <1>2. /\ data' \in [Versions -> Contents]
        /\ \A v \in Versions : /\ v \notin Changes => data'[v] = data[v]
                               /\ data[v] # "none" => data'[v] # "none"
    <2>1. PICK damage \in {{}, {v \in Changes : data[v] # "none"}} :
              data' = [v \in Versions |-> IF v \in damage THEN "mixed" ELSE data[v]]
      BY DEF Abort
    <2> QED BY <2>1 DEF MemberTypeOK, Contents
  <1>3. /\ phase' \in DOMAIN Plans[plan']
        /\ \/ Command' = Command
           \/ Command # "backup" /\ Command' = "disable"
           \/ Command = "restore" /\ Command' = "upgrade"
    <2>1. CASE phase' = phase
      BY <1>1, <2>1 DEF Command, MemberTypeOK
    <2>2. CASE phase' \in Again
      BY <1>1, <2>2, AgainTable, Zenon DEF Command
    <2> QED BY <1>1, <2>1, <2>2, Zenon
  <1>4. Current' = Current /\ Backup' = Backup /\ Current \in Versions /\ origin \in Versions
    BY <1>1, MemberAssumption DEF Current, Backup, MemberTypeOK, Lines
  <1>5. ~EtcdOff \/ Command = "enable" => \A v \in Versions : data'[v] = data[v]
    BY <1>2, ChangesTable
  <1>6. ~UpgradeOff /\ Command = "disable" => plan \in {"upgrade", "rollback"}
    BY DEF UnitsInv
  <1>7. Command # "rest"
    BY <1>1, Resting
  <1>8. Command = "restore" => plan = "upgrade" /\ role # "joiner"
    BY <1>1, CommandPlans, Zenon DEF ServiceInv
  <1>m. MemberTypeOK'
    BY <1>1, <1>2, <1>3, MemberAssumption DEF MemberTypeOK
  <1>u. UnitsInv'
    BY <1>1, <1>2, <1>3, <1>4, <1>8, CommandPlans DEF UnitsInv, EtcdOff, UpgradeOff
  <1>s. ServiceInv'
    BY <1>1 DEF ServiceInv
  <1>d. DataInv'
    <2>1. ~EtcdOff' \/ Command' = "enable" => Serviceable'
      BY <1>1, <1>3, <1>4, <1>5, ZenonT(30) DEF DataInv, Serviceable, EtcdOff
    <2>2. dir'["etcd"] # None => data'[Current] = "full"
      BY <1>1, <1>4, <1>5, Zenon DEF DataInv, UnitsInv, EtcdOff, Services
    <2>3. plan \in {"upgrade", "rollback"} => OriginSafe'
      BY <1>1, <1>2, <1>4, ChangesTable, Zenon DEF DataInv, OriginSafe
    <2> QED BY <1>1, <1>3, <1>4, <1>7, <1>8, <2>1, <2>2, <2>3, CommandPlans DEF DataInv
  <1>l. LocalsInv'
    BY <1>1, <1>3, <1>8 DEF LocalsInv
  <1> QED BY <1>m, <1>u, <1>s, <1>d, <1>l DEF SafeInv
=============================================================================
