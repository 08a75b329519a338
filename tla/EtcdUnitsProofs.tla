-------------------------- MODULE EtcdUnitsProofs ---------------------------
(***************************************************************************)
(* The inductive invariant behind the safety of etcd's data, and the       *)
(* proof that the steps of etcd's commands that only handle the units and  *)
(* their clients preserve it.                                              *)
(***************************************************************************)
EXTENDS EtcdMember, TLAPS

-----------------------------------------------------------------------------
(* The inductive invariant. *)

\* Nothing but etcd enable starts etcd.service.
EtcdOff == "etcd" \in masked /\ unit["etcd"] = "inactive"

UpgradeOff == unit["etcd-upgrade"] = "inactive"

Ending(s) == unit[s] \in {"stopping", "inactive"}

\* What the units are doing, and while which commands.
UnitsInv ==
    /\ \A s \in Services : /\ dir[s] # None <=> unit[s] \in {"active", "stopping"}
                           /\ dir[s] # None => dir[s] = Current /\ data[Current] # "none"
                           /\ unit[s] \in {"activating", "active", "stopping"} => link = Current
    /\ ~UpgradeOff => /\ EtcdOff /\ Current = desired /\ role # "joiner"
                      /\ \/ plan = "upgrade" /\ Command \in {"disable", "upgrade", "restore"}
                         \/ plan = "rollback" /\ Command = "disable"
    /\ Command \in {"upgrade", "rollback", "restore", "wipe"} => EtcdOff
    /\ Command = "upgrade" /\ pc > 1 => UpgradeOff

\* How far etcdDisable and etcdRestore have got with the unit they stop.
ServiceInv ==
    /\ Command = "disable" /\ pc > 0 =>
           /\ IF locals.service = "etcd" THEN UpgradeOff ELSE EtcdOff
           /\ pc > 2 /\ locals.service = "etcd" => "etcd" \in masked
           /\ pc > 3 => Ending(locals.service)
    /\ Command = "enable" /\ pc > 0 => locals.service = "etcd"
    /\ Command = "restore" /\ pc > 0 =>
           /\ locals.service = "etcd-upgrade" /\ role # "joiner"
           /\ pc \in {3, 10, 18} => Ending("etcd-upgrade")
           /\ pc \in {4, 5, 6, 11, 12, 13} => UpgradeOff

\* An etcd.service that is started finds the cluster's database, or no cluster, or gets the
\* database from the cluster it joins.
Serviceable ==
    \/ data[Current] = "full"
    \/ /\ data[Current] = "none" /\ ~installed
       /\ file.version = None => \A v \in Versions : data[v] = "none"
    \/ data[Current] = "none" /\ role = "joiner" /\ installed /\ file.version # None

\* The version the upgrade began with is the current or the backup version, and whole.
OriginSafe ==
    /\ installed /\ origin # desired /\ data[origin] = "full"
    /\ Current = origin \/ (Current = desired /\ Backup = origin)

DataInv ==
    /\ ~EtcdOff \/ Command = "enable" => Serviceable
    /\ dir["etcd"] # None => data[Current] = "full"
    /\ unit["etcd"] = "active" => installed
    /\ Backup # Current
    /\ plan \in {"upgrade", "rollback"} => OriginSafe
    /\ plan = "upgrade" =>
           /\ Command \in {"restore", "enable", "rest"} => Current = desired
           /\ Command = "upgrade" /\ pc > 2 => Current = desired
           /\ role # "joiner" /\ Command # "backup" => backup = "full"
    /\ plan = "rollback" => /\ Command \in {"enable", "rest"} => Current = origin
                            /\ Current = origin => Backup = None

\* What the running command has read, and what it has done to the database.
LocalsInv ==
    /\ Command \in {"restore", "wipe"} /\ pc > 0 => locals.current = Current
    /\ Command \in {"upgrade", "rollback"} /\ pc = 2 =>
           locals.current = Current /\ locals.backup = Backup
    /\ Command = "upgrade" /\ pc = 3 => locals.current = desired \/ locals.backup # origin
    /\ Command = "restore" => /\ role = "joiner" => data[Current] = "none"
                              /\ pc \in {5, 6, 7} => data[Current] \in {"none", "fresh"}
                              /\ pc \in {8, 9, 10, 11} => data[Current] = "fresh"
                              /\ pc \in {12, 13, 14, 15} => data[Current] = "half"
                              /\ pc \in {16, 17, 18} => data[Current] = "full"

\* Clients are stale only until etcd enable restarts them.
ClientsInv ==
    \A c \in Clients : clients[c] = "stale" =>
        EtcdOff /\ Command # "rest" /\ (Command = "enable" => pc <= 3)

SafeInv == MemberTypeOK /\ UnitsInv /\ ServiceInv /\ DataInv /\ LocalsInv

-----------------------------------------------------------------------------
(* Where a plan and a command can be. *)

\* The commands of each plan, by phase.
LEMMA PlanTable ==
    ASSUME MemberTypeOK
    PROVE  \/ plan = "none" /\ phase = 1 /\ Command = "rest"
           \/ plan = "upgrade" /\ \/ phase = 1 /\ Command = "backup"
                                  \/ phase = 2 /\ Command = "disable"
                                  \/ phase = 3 /\ Command = "upgrade"
                                  \/ phase = 4 /\ Command = "restore"
                                  \/ phase = 5 /\ Command = "enable"
                                  \/ phase = 6 /\ Command = "rest"
           \/ plan = "rollback" /\ \/ phase = 1 /\ Command = "disable"
                                   \/ phase = 2 /\ Command = "rollback"
                                   \/ phase = 3 /\ Command = "enable"
                                   \/ phase = 4 /\ Command = "rest"
           \/ plan = "wipe" /\ \/ phase = 1 /\ Command = "disable"
                               \/ phase = 2 /\ Command = "wipe"
                               \/ phase = 3 /\ Command = "enable"
                               \/ phase = 4 /\ Command = "rest"
  <1>1. plan \in {"none", "upgrade", "rollback", "wipe"} /\ phase \in DOMAIN Plans[plan]
    BY DEF MemberTypeOK, Plans
  <1>2. CASE plan = "none"
    BY <1>1, <1>2 DEF Plans, Command
  <1>3. CASE plan = "upgrade"
    BY <1>1, <1>3 DEF Plans, Command
  <1>4. CASE plan = "rollback"
    BY <1>1, <1>4 DEF Plans, Command
  <1>5. CASE plan = "wipe"
    BY <1>1, <1>5 DEF Plans, Command
  <1> QED BY <1>1, <1>2, <1>3, <1>4, <1>5

\* The lengths of the commands.
LEMMA Lengths ==
    /\ Len(Program["backup"]) = 2 /\ Len(Program["disable"]) = 4
    /\ Len(Program["upgrade"]) = 4 /\ Len(Program["rollback"]) = 2
    /\ Len(Program["restore"]) = 18 /\ Len(Program["enable"]) = 5
    /\ Len(Program["wipe"]) = 1 /\ Len(Program["rest"]) = 0
    /\ DOMAIN Program["backup"] = 1..2 /\ DOMAIN Program["disable"] = 1..4
    /\ DOMAIN Program["upgrade"] = 1..4 /\ DOMAIN Program["rollback"] = 1..2
    /\ DOMAIN Program["restore"] = 1..18 /\ DOMAIN Program["enable"] = 1..5
    /\ DOMAIN Program["wipe"] = 1..1 /\ DOMAIN Program["rest"] = 1..0
  BY DEF Program, etcdBackup, etcdDisable, etcdUpgrade, etcdRollback, etcdRestore,
         etcdEnable, etcdWipe

\* The places of each step.
LEMMA StepTable ==
    ASSUME MemberTypeOK
    PROVE  /\ At("create") => Command = "backup" /\ pc = 1
           /\ At("backup") => Command = "backup" /\ pc = 2
           /\ At("stopApiserver") => Command = "disable" /\ pc = 1
           /\ At("mask") => \/ Command = "restore" /\ pc \in {1, 8, 16}
                            \/ Command = "disable" /\ pc = 2
           /\ At("stop") => \/ Command = "restore" /\ pc \in {2, 9, 17}
                            \/ Command = "disable" /\ pc = 3
           /\ At("waitStopped") => \/ Command = "restore" /\ pc \in {3, 10, 18}
                                   \/ Command = "disable" /\ pc = 4
           /\ At("unmask") => \/ Command = "restore" /\ pc \in {5, 12}
                              \/ Command = "enable" /\ pc = 4
           /\ At("start") => \/ Command = "restore" /\ pc \in {6, 13}
                             \/ Command = "enable" /\ pc = 5
           /\ At("waitHealthy") => Command = "restore" /\ pc \in {7, 14}
           /\ At("join") => Command = "enable" /\ pc = 1
           /\ At("writeSynced") => Command = "enable" /\ pc = 2
           /\ At("restartClients") => Command = "enable" /\ pc = 3
           /\ At("checkStatus") => Command \in {"upgrade", "rollback"} /\ pc = 1
           /\ At("writeVersion") => Command \in {"upgrade", "rollback"} /\ pc = 2
           /\ At("wipeBackup") => Command = "upgrade" /\ pc = 3
           /\ At("wipeDesired") => Command = "upgrade" /\ pc = 4
           /\ At("removeData") => /\ Command \in {"restore", "wipe"}
                                  /\ pc = IF Command = "wipe" THEN 1 ELSE 4
           /\ At("offlineRestore") => Command = "restore" /\ pc = 11
           /\ At("onlineRestore") <=> Command = "restore" /\ pc = 15
  <1>1. pc \in {0} \cup DOMAIN Program[Command]
    BY DEF MemberTypeOK
  <1>2. CASE pc = 0
    BY <1>2 DEF At
  <1>3. CASE Command = "backup"
    <2>1. pc \in {0, 1, 2}
      BY <1>1, <1>3, Lengths
    <2>2. /\ Program["backup"][1] = "create" /\ Program["backup"][2] = "backup"
      BY DEF Program, etcdBackup
    <2> QED BY <1>3, <2>1, <2>2 DEF At
  <1>4. CASE Command = "disable"
    <2>1. pc \in {0, 1, 2, 3, 4}
      BY <1>1, <1>4, Lengths
    <2>2. /\ Program["disable"][1] = "stopApiserver" /\ Program["disable"][2] = "mask"
          /\ Program["disable"][3] = "stop" /\ Program["disable"][4] = "waitStopped"
      BY DEF Program, etcdDisable
    <2> QED BY <1>4, <2>1, <2>2 DEF At
  <1>5. CASE Command = "upgrade"
    <2>1. pc \in {0, 1, 2, 3, 4}
      BY <1>1, <1>5, Lengths
    <2>2. /\ Program["upgrade"][1] = "checkStatus" /\ Program["upgrade"][2] = "writeVersion"
          /\ Program["upgrade"][3] = "wipeBackup" /\ Program["upgrade"][4] = "wipeDesired"
      BY DEF Program, etcdUpgrade
    <2> QED BY <1>5, <2>1, <2>2 DEF At
  <1>6. CASE Command = "rollback"
    <2>1. pc \in {0, 1, 2}
      BY <1>1, <1>6, Lengths
    <2>2. /\ Program["rollback"][1] = "checkStatus"
          /\ Program["rollback"][2] = "writeVersion"
      BY DEF Program, etcdRollback
    <2> QED BY <1>6, <2>1, <2>2 DEF At
  <1>7. CASE Command = "restore"
    <2>1. pc \in {0, 1, 2, 3, 4, 5, 6, 7, 8, 9, 10, 11, 12, 13, 14, 15, 16, 17, 18}
      BY <1>1, <1>7, Lengths
    <2>2. /\ Program["restore"][1] = "mask" /\ Program["restore"][2] = "stop"
          /\ Program["restore"][3] = "waitStopped" /\ Program["restore"][4] = "removeData"
          /\ Program["restore"][5] = "unmask" /\ Program["restore"][6] = "start"
          /\ Program["restore"][7] = "waitHealthy" /\ Program["restore"][8] = "mask"
          /\ Program["restore"][9] = "stop" /\ Program["restore"][10] = "waitStopped"
          /\ Program["restore"][11] = "offlineRestore" /\ Program["restore"][12] = "unmask"
          /\ Program["restore"][13] = "start" /\ Program["restore"][14] = "waitHealthy"
          /\ Program["restore"][15] = "onlineRestore" /\ Program["restore"][16] = "mask"
          /\ Program["restore"][17] = "stop" /\ Program["restore"][18] = "waitStopped"
      BY DEF Program, etcdRestore
    <2> QED BY <1>7, <2>1, <2>2 DEF At
  <1>8. CASE Command = "enable"
    <2>1. pc \in {0, 1, 2, 3, 4, 5}
      BY <1>1, <1>8, Lengths
    <2>2. /\ Program["enable"][1] = "join" /\ Program["enable"][2] = "writeSynced"
          /\ Program["enable"][3] = "restartClients" /\ Program["enable"][4] = "unmask"
          /\ Program["enable"][5] = "start"
      BY DEF Program, etcdEnable
    <2> QED BY <1>8, <2>1, <2>2 DEF At
  <1>9. CASE Command = "wipe"
    <2>1. pc \in {0, 1}
      BY <1>1, <1>9, Lengths
    <2>2. /\ Program["wipe"][1] = "removeData"
      BY DEF Program, etcdWipe
    <2> QED BY <1>9, <2>1, <2>2 DEF At
  <1>10. CASE Command = "rest"
    BY <1>1, <1>2, <1>10, Lengths
  <1>11. Command \in {"backup", "disable", "upgrade", "rollback", "restore", "enable",
                      "wipe", "rest"}
    BY PlanTable
  <1> QED BY <1>3, <1>4, <1>5, <1>6, <1>7, <1>8, <1>9, <1>10, <1>11

\* What follows a step that was done.
LEMMA AdvanceTable ==
    ASSUME MemberTypeOK, pc > 0, Advance
    PROVE  /\ plan' = plan /\ phase' \in DOMAIN Plans[plan]
           /\ pc' \in {0} \cup DOMAIN Program[Command']
           /\ \/ pc' = pc + 1 /\ Command' = Command /\ pc < Len(Program[Command])
              \/ /\ pc' = 0 /\ pc = Len(Program[Command])
                 /\ \/ plan = "upgrade" /\ \/ Command = "backup" /\ Command' = "disable"
                                           \/ Command = "disable" /\ Command' = "upgrade"
                                           \/ Command = "upgrade" /\ Command' = "restore"
                                           \/ Command = "restore" /\ Command' = "enable"
                                           \/ Command = "enable" /\ Command' = "rest"
                    \/ plan = "rollback" /\ \/ Command = "disable" /\ Command' = "rollback"
                                            \/ Command = "rollback" /\ Command' = "enable"
                                            \/ Command = "enable" /\ Command' = "rest"
                    \/ plan = "wipe" /\ \/ Command = "disable" /\ Command' = "wipe"
                                        \/ Command = "wipe" /\ Command' = "enable"
                                        \/ Command = "enable" /\ Command' = "rest"
  <1>1. DOMAIN Program[Command] = 1..Len(Program[Command]) /\ Len(Program[Command]) \in Nat
    BY PlanTable, Lengths
  <1>2. pc \in 1..Len(Program[Command])
    BY <1>1 DEF MemberTypeOK
  <1>3. CASE pc < Len(Program[Command])
    <2>1. phase' = phase /\ plan' = plan /\ pc' = pc + 1
      BY <1>3 DEF Advance
    <2>2. Command' = Command
      BY <2>1 DEF Command
    <2> QED BY <1>1, <1>2, <1>3, <2>1, <2>2 DEF MemberTypeOK
  <1>4. CASE pc = Len(Program[Command])
    <2>1. phase' = phase + 1 /\ plan' = plan /\ pc' = 0
      BY <1>4 DEF Advance
    <2>2. Command # "rest"
      BY <1>2, <1>4, Lengths
    <2>3. CASE plan = "upgrade"
      BY <1>4, <2>1, <2>2, <2>3, PlanTable DEF Command, Plans
    <2>4. CASE plan = "rollback"
      BY <1>4, <2>1, <2>2, <2>4, PlanTable DEF Command, Plans
    <2>5. CASE plan = "wipe"
      BY <1>4, <2>1, <2>2, <2>5, PlanTable DEF Command, Plans
    <2> QED BY <2>2, <2>3, <2>4, <2>5, PlanTable
  <1> QED BY <1>1, <1>2, <1>3, <1>4

\* The plans a command belongs to.
LEMMA CommandPlans ==
    ASSUME MemberTypeOK
    PROVE  /\ Command \in {"backup", "upgrade", "restore"} => plan = "upgrade"
           /\ Command = "rollback" => plan = "rollback"
           /\ Command = "wipe" => plan = "wipe"
           /\ plan = "none" => Command = "rest"
           /\ plan \in {"none", "upgrade", "rollback", "wipe"}
  BY PlanTable

\* A plan that rests runs no step.
LEMMA Resting ==
    ASSUME MemberTypeOK, Command = "rest"
    PROVE  pc = 0
  <1>1. DOMAIN Program["rest"] = 1..0
    BY Lengths
  <1>2. pc \in {0} \cup DOMAIN Program[Command]
    BY DEF MemberTypeOK
  <1>3. pc \in {0} \cup 1..0
    BY <1>1, <1>2
  <1> QED BY <1>3

\* A command is before its first step or at one of them.
LEMMA Counted ==
    ASSUME MemberTypeOK
    PROVE  pc \in Nat
  <1>1. DOMAIN Program[Command] = 1..Len(Program[Command]) /\ Len(Program[Command]) \in Nat
    BY PlanTable, Lengths
  <1> QED BY <1>1 DEF MemberTypeOK

\* The command goes on, or ends and is followed by another.
GoesOn ==
    /\ plan' = plan /\ phase' \in DOMAIN Plans[plan'] /\ Command' = Command
    /\ pc' = pc + 1 /\ pc' \in {0} \cup DOMAIN Program[Command']

Ends(next) ==
    plan' = plan /\ phase' \in DOMAIN Plans[plan'] /\ pc' = 0 /\ Command' = next

\* A step that is not the last one of its command.
LEMMA AdvanceOn ==
    ASSUME MemberTypeOK, Advance, pc > 0, pc < Len(Program[Command])
    PROVE  GoesOn
  <1>1. pc # Len(Program[Command])
    BY PlanTable, Lengths DEF MemberTypeOK
  <1> QED BY <1>1, AdvanceTable DEF GoesOn

\* The last step of a command.
LEMMA AdvanceEnds ==
    ASSUME MemberTypeOK, Advance, pc > 0, pc = Len(Program[Command])
    PROVE  /\ Command = "backup" => Ends("disable")
           /\ Command = "disable" => Ends(plan)
           /\ Command = "upgrade" => Ends("restore")
           /\ Command \in {"restore", "rollback", "wipe"} => Ends("enable")
           /\ Command = "enable" => Ends("rest")
  <1>1. ~(pc < Len(Program[Command]))
    BY PlanTable, Lengths DEF MemberTypeOK
  <1>2. plan' = plan /\ phase' \in DOMAIN Plans[plan']
    BY AdvanceTable
  <1> QED BY <1>1, <1>2, AdvanceTable DEF Ends

-----------------------------------------------------------------------------
(* The steps of the commands. *)

\* What the steps have in common that leave the units, the version file and the databases.
LEMMA QuietKeeps ==
    ASSUME SafeInv, MemberTypeOK', pc > 0,
           UNCHANGED <<role, desired, file, data, link, masked, unit, dir, origin, installed>>,
           locals'.current = locals.current, locals'.service = locals.service,
           \/ /\ Command \in {"backup", "enable"} \/ (Command = "disable" /\ pc = 1)
              /\ GoesOn /\ (backup' = backup \/ Command = "backup")
           \/ Command = "backup" /\ Ends("disable") /\ backup' = "full"
    PROVE  SafeInv'
  <1> MemberTypeOK /\ UnitsInv /\ ServiceInv /\ DataInv /\ LocalsInv
    BY DEF SafeInv
  <1>1. Current' = Current /\ Backup' = Backup
    BY DEF Current, Backup
  <1>2. CASE /\ Command \in {"backup", "enable"} \/ (Command = "disable" /\ pc = 1)
             /\ GoesOn /\ (backup' = backup \/ Command = "backup")
    <2>1. /\ Command' = Command /\ plan' = plan /\ pc' = pc + 1
          /\ Command = "disable" => pc' = 2
          /\ Command \in {"backup", "enable", "disable"}
      BY <1>2 DEF GoesOn
    <2>u. UnitsInv'
      BY <1>1, <2>1 DEF UnitsInv, EtcdOff, UpgradeOff
    <2>s. ServiceInv'
      BY <2>1 DEF ServiceInv, EtcdOff, UpgradeOff, Ending
    <2>d. DataInv'
      BY <1>1, <1>2, <2>1 DEF DataInv, Serviceable, OriginSafe, EtcdOff
    <2>l. LocalsInv'
      BY <2>1 DEF LocalsInv
    <2> QED BY <2>u, <2>s, <2>d, <2>l DEF SafeInv
  <1>3. CASE Command = "backup" /\ Ends("disable") /\ backup' = "full"
    <2>1. Command' = "disable" /\ plan' = plan /\ pc' = 0 /\ plan = "upgrade"
      BY <1>3, CommandPlans DEF Ends
    <2>u. UnitsInv'
      BY <1>1, <1>3, <2>1 DEF UnitsInv, EtcdOff, UpgradeOff
    <2>s. ServiceInv'
      BY <2>1 DEF ServiceInv
    <2>d. DataInv'
      BY <1>1, <1>3, <2>1, Zenon DEF DataInv, Serviceable, OriginSafe, EtcdOff
    <2>l. LocalsInv'
      BY <2>1 DEF LocalsInv
    <2> QED BY <2>u, <2>s, <2>d, <2>l DEF SafeInv
  <1> QED BY <1>2, <1>3

\* etcdBackup, the beginning of etcdDisable and the beginning of etcdEnable.
LEMMA QuietStepsKeep ==
    ASSUME SafeInv,
           \/ CreateBackup \/ WriteBackup \/ StopApiserver
           \/ etcdInitJoin \/ WriteSynced \/ restartEtcdClients
    PROVE  SafeInv'
  <1> MemberTypeOK /\ UnitsInv /\ ServiceInv /\ DataInv /\ LocalsInv
    BY DEF SafeInv
  <1>1. CASE CreateBackup
    <2>1. Command = "backup" /\ pc = 1
      BY <1>1, StepTable DEF CreateBackup
    <2>2. pc > 0 /\ pc < Len(Program[Command])
      BY <2>1, Lengths
    <2>3. GoesOn
      BY <1>1, <2>1, <2>2, AdvanceOn DEF CreateBackup
    <2>4. /\ UNCHANGED <<role, desired, file, data, link, synced, masked, unit, dir, joined,
                          clients, locals, origin, installed, plans, failures>>
          /\ backup' = "torn"
      BY <1>1, Zenon DEF CreateBackup, diskVars, systemdVars, historyVars
    <2>5. MemberTypeOK'
      BY <2>3, <2>4 DEF MemberTypeOK, GoesOn
    <2> QED BY <2>1, <2>2, <2>3, <2>4, <2>5, QuietKeeps
  <1>2. CASE WriteBackup
    <2>1. Command = "backup" /\ pc = 2
      BY <1>2, StepTable DEF WriteBackup
    <2>2. pc > 0 /\ pc = Len(Program[Command])
      BY <2>1, Lengths
    <2>3. Ends("disable")
      BY <1>2, <2>1, <2>2, AdvanceEnds DEF WriteBackup
    <2>4. /\ UNCHANGED <<role, desired, file, data, link, synced, masked, unit, dir, joined,
                          clients, locals, origin, installed, plans, failures>>
          /\ backup' = "full"
      BY <1>2, Zenon DEF WriteBackup, diskVars, systemdVars, historyVars
    <2>5. MemberTypeOK'
      BY <2>3, <2>4 DEF MemberTypeOK, Ends
    <2> QED BY <2>1, <2>2, <2>3, <2>4, <2>5, QuietKeeps
  <1>3. CASE StopApiserver
    <2>1. Command = "disable" /\ pc = 1
      BY <1>3, StepTable DEF StopApiserver
    <2>2. pc > 0 /\ pc < Len(Program[Command])
      BY <2>1, Lengths
    <2>3. GoesOn
      BY <1>3, <2>1, <2>2, AdvanceOn DEF StopApiserver
    <2>4. /\ UNCHANGED <<role, desired, file, data, link, backup, synced, masked, unit, dir,
                          joined, locals, origin, installed, plans, failures>>
          /\ clients' \in [Clients -> {"off", "fresh", "stale", "restarting"}]
      BY <1>3, ZenonT(30) DEF StopApiserver, diskVars, systemdVars, historyVars, MemberTypeOK
    <2>5. MemberTypeOK'
      BY <2>3, <2>4 DEF MemberTypeOK, GoesOn
    <2> QED BY <2>1, <2>2, <2>3, <2>4, <2>5, QuietKeeps
  <1>4. CASE etcdInitJoin
    <2>1. Command = "enable" /\ pc = 1
      BY <1>4, StepTable DEF etcdInitJoin
    <2>2. pc > 0 /\ pc < Len(Program[Command])
      BY <2>1, Lengths
    <2>3. GoesOn
      BY <1>4, <2>1, <2>2, AdvanceOn DEF etcdInitJoin
    <2>4. /\ UNCHANGED <<role, desired, file, data, link, backup, synced, masked, unit, dir,
                          clients, origin, installed, plans, failures>>
          /\ locals' = [locals EXCEPT !.member = Joining /\ joined # "absent"]
          /\ joined' \in {joined, "added"}
      BY <1>4 DEF etcdInitJoin, diskVars, systemdVars, historyVars
    <2>6. /\ locals' \in [current: Versions, backup: Lines, service: Services, member: BOOLEAN]
          /\ locals'.current = locals.current /\ locals'.service = locals.service
      BY <2>4, ZenonT(30) DEF MemberTypeOK, Joining
    <2>5. MemberTypeOK'
      BY <2>3, <2>4, <2>6 DEF MemberTypeOK, GoesOn
    <2> QED BY <2>1, <2>2, <2>3, <2>4, <2>5, <2>6, QuietKeeps
  <1>5. CASE WriteSynced
    <2>1. Command = "enable" /\ pc = 2
      BY <1>5, StepTable DEF WriteSynced
    <2>2. pc > 0 /\ pc < Len(Program[Command])
      BY <2>1, Lengths
    <2>3. GoesOn
      BY <1>5, <2>1, <2>2, AdvanceOn DEF WriteSynced
    <2>4. /\ UNCHANGED <<role, desired, file, data, link, backup, masked, unit, dir, joined,
                          clients, locals, origin, installed, plans, failures>>
          /\ synced' \in {synced, "nameless", "named"}
      BY <1>5, Zenon DEF WriteSynced, diskVars, systemdVars, historyVars
    <2>5. MemberTypeOK'
      BY <2>3, <2>4 DEF MemberTypeOK, GoesOn
    <2> QED BY <2>1, <2>2, <2>3, <2>4, <2>5, QuietKeeps
  <1>6. CASE restartEtcdClients
    <2>1. Command = "enable" /\ pc = 3
      BY <1>6, StepTable DEF restartEtcdClients
    <2>2. pc > 0 /\ pc < Len(Program[Command])
      BY <2>1, Lengths
    <2>3. GoesOn
      BY <1>6, <2>1, <2>2, AdvanceOn, Zenon DEF restartEtcdClients
    <2>4. /\ UNCHANGED <<role, desired, file, data, link, backup, synced, masked, unit, dir,
                          joined, locals, origin, installed, plans, failures>>
          /\ clients' \in [Clients -> {"off", "fresh", "stale", "restarting"}]
      BY <1>6, Zenon DEF restartEtcdClients, diskVars, systemdVars, historyVars, MemberTypeOK
    <2>5. MemberTypeOK'
      BY <2>3, <2>4 DEF MemberTypeOK, GoesOn
    <2> QED BY <2>1, <2>2, <2>3, <2>4, <2>5, QuietKeeps, Zenon
  <1> QED BY <1>1, <1>2, <1>3, <1>4, <1>5, <1>6

\* disableService, as etcdDisable and etcdRestore call it.
LEMMA MaskKeeps ==
    ASSUME SafeInv, Mask
    PROVE  SafeInv'
  <1> MemberTypeOK /\ UnitsInv /\ ServiceInv /\ DataInv /\ LocalsInv
    BY DEF SafeInv
  <1>0. \/ Command = "restore" /\ pc \in {1, 8, 16}
        \/ Command = "disable" /\ pc = 2
    BY StepTable DEF Mask
  <1>1. pc > 0 /\ pc < Len(Program[Command])
    <2>1. CASE Command = "restore"
      BY <1>0, <2>1, Lengths
    <2>2. CASE Command = "disable"
      BY <1>0, <2>2, Lengths
    <2> QED BY <1>0, <2>1, <2>2
  <1>2. GoesOn
    BY <1>1, AdvanceOn DEF Mask
  <1>3. /\ UNCHANGED <<role, desired, file, data, link, backup, synced, unit, dir, joined,
                        clients, locals, origin, installed, plans, failures>>
        /\ masked' = masked \cup {locals.service}
    BY DEF Mask, diskVars, systemdVars, historyVars
  <1>4. Current' = Current /\ Backup' = Backup
    BY <1>3 DEF Current, Backup
  <1>p. /\ plan' = plan /\ Command' = Command /\ Command \in {"restore", "disable"}
        /\ Command = "restore" => pc \in {1, 8, 16} /\ pc' \in {2, 9, 17} /\ pc' = pc + 1
        /\ Command = "disable" => pc = 2 /\ pc' = 3
    BY <1>0, <1>2 DEF GoesOn
  <1>t. masked' \subseteq Services
    BY <1>3, ZenonT(30) DEF MemberTypeOK, Services
  <1>m. MemberTypeOK'
    BY <1>2, <1>3, <1>t DEF MemberTypeOK, GoesOn
  <1>u. UnitsInv'
    BY <1>p, <1>3, <1>4, Zenon DEF UnitsInv, EtcdOff, UpgradeOff, ServiceInv
  <1>s. ServiceInv'
    BY <1>p, <1>3, <1>4 DEF ServiceInv, EtcdOff, UpgradeOff, Ending, UnitsInv, MemberTypeOK,
       Services
  <1>d. DataInv'
    BY <1>p, <1>3, <1>4, Zenon DEF DataInv, Serviceable, OriginSafe, EtcdOff
  <1>l. LocalsInv'
    BY <1>p, <1>3, <1>4 DEF LocalsInv
  <1> QED BY <1>m, <1>u, <1>s, <1>d, <1>l DEF SafeInv

\* The unit is ending its process or has none.
LEMMA StopKeeps ==
    ASSUME SafeInv, Stop
    PROVE  SafeInv'
  <1> MemberTypeOK /\ UnitsInv /\ ServiceInv /\ DataInv /\ LocalsInv
    BY DEF SafeInv
  <1>0. \/ Command = "restore" /\ pc \in {2, 9, 17}
        \/ Command = "disable" /\ pc = 3
    BY StepTable DEF Stop
  <1>1. pc > 0 /\ pc < Len(Program[Command])
    <2>1. CASE Command = "restore"
      BY <1>0, <2>1, Lengths
    <2>2. CASE Command = "disable"
      BY <1>0, <2>2, Lengths
    <2> QED BY <1>0, <2>1, <2>2
  <1>2. GoesOn
    BY <1>1, AdvanceOn DEF Stop
  <1>3. /\ UNCHANGED <<role, desired, file, data, link, backup, synced, masked, dir, joined,
                        clients, locals, origin, installed, plans, failures>>
        /\ unit' = [unit EXCEPT ![locals.service] =
                     IF @ \in {"active", "stopping"} THEN "stopping" ELSE "inactive"]
    BY DEF Stop, diskVars, systemdVars, historyVars
  <1>4. Current' = Current /\ Backup' = Backup
    BY <1>3 DEF Current, Backup
  <1>p. /\ plan' = plan /\ Command' = Command /\ Command \in {"restore", "disable"}
        /\ Command = "restore" => pc \in {2, 9, 17} /\ pc' \in {3, 10, 18} /\ pc' = pc + 1
        /\ Command = "disable" => pc = 3 /\ pc' = 4
    BY <1>0, <1>2 DEF GoesOn
  <1>t. unit' \in [Services -> {"inactive", "queued", "activating", "active", "stopping"}]
    BY <1>3 DEF MemberTypeOK
  <1>5. /\ locals.service \in Services /\ unit'[locals.service] \in {"stopping", "inactive"}
        /\ unit'[locals.service] = "stopping" <=> unit[locals.service] \in {"active", "stopping"}
        /\ unit[locals.service] = "inactive" => unit'[locals.service] = "inactive"
        /\ \A s \in Services : s # locals.service => unit'[s] = unit[s]
    BY <1>3, Zenon DEF MemberTypeOK
  <1>m. MemberTypeOK'
    BY <1>2, <1>3, <1>t DEF MemberTypeOK, GoesOn
  <1>u. UnitsInv'
    BY <1>p, <1>3, <1>4, <1>5 DEF UnitsInv, EtcdOff, UpgradeOff, ServiceInv, Services
  <1>s. ServiceInv'
    BY <1>p, <1>3, <1>4, <1>5 DEF ServiceInv, EtcdOff, UpgradeOff, Ending, Services
  <1>d. DataInv'
    BY <1>p, <1>3, <1>4, <1>5 DEF DataInv, Serviceable, OriginSafe, EtcdOff, UnitsInv,
       Services
  <1>l. LocalsInv'
    BY <1>p, <1>3, <1>4, <1>5 DEF LocalsInv
  <1> QED BY <1>m, <1>u, <1>s, <1>d, <1>l DEF SafeInv

\* A healthy etcd-upgrade has made its database.
LEMMA HealthyKeeps ==
    ASSUME SafeInv, waitEtcdHealthy
    PROVE  SafeInv'
  <1> MemberTypeOK /\ UnitsInv /\ ServiceInv /\ DataInv /\ LocalsInv
    BY Zenon DEF SafeInv
  <1>0. Command = "restore" /\ pc \in {7, 14}
    BY StepTable DEF waitEtcdHealthy
  <1>1. pc > 0 /\ pc < Len(Program[Command])
    BY <1>0, Lengths
  <1>2. GoesOn
    BY <1>1, AdvanceOn DEF waitEtcdHealthy
  <1>3. UNCHANGED <<role, desired, file, data, link, backup, synced, masked, unit, dir, joined,
                     clients, locals, origin, installed, plans, failures>>
    BY DEF waitEtcdHealthy, diskVars, systemdVars, historyVars
  <1>4. Current' = Current /\ Backup' = Backup
    BY <1>3 DEF Current, Backup
  <1>p. /\ plan' = plan /\ Command = "restore" /\ Command' = "restore"
        /\ pc \in {7, 14} /\ pc' \in {8, 15} /\ pc' = pc + 1
    BY <1>0, <1>2 DEF GoesOn
  <1>5. data[Current] # "none"
    BY <1>0 DEF waitEtcdHealthy, ServiceInv, UnitsInv, Services
  <1>m. MemberTypeOK'
    BY <1>2, <1>3 DEF MemberTypeOK, GoesOn
  <1>u. UnitsInv'
    BY <1>p, <1>3, <1>4 DEF UnitsInv, EtcdOff, UpgradeOff
  <1>s. ServiceInv'
    BY <1>p, <1>3, <1>4 DEF ServiceInv, EtcdOff, UpgradeOff, Ending
  <1>d. DataInv'
    BY <1>p, <1>3, <1>4, Zenon DEF DataInv, Serviceable, OriginSafe, EtcdOff
  <1>l. LocalsInv'
    BY <1>p, <1>3, <1>4, <1>5 DEF LocalsInv
  <1> QED BY <1>m, <1>u, <1>s, <1>d, <1>l DEF SafeInv

\* enableService.
LEMMA UnmaskKeeps ==
    ASSUME SafeInv, Unmask
    PROVE  SafeInv'
  <1> MemberTypeOK /\ UnitsInv /\ ServiceInv /\ DataInv /\ LocalsInv
    BY DEF SafeInv
  <1>0. \/ Command = "restore" /\ pc \in {5, 12}
        \/ Command = "enable" /\ pc = 4
    BY StepTable DEF Unmask
  <1>1. pc > 0 /\ pc < Len(Program[Command])
    <2>1. CASE Command = "restore"
      BY <1>0, <2>1, Lengths
    <2>2. CASE Command = "enable"
      BY <1>0, <2>2, Lengths
    <2> QED BY <1>0, <2>1, <2>2
  <1>2. GoesOn
    BY <1>1, AdvanceOn DEF Unmask
  <1>3. /\ UNCHANGED <<role, desired, file, data, link, backup, synced, unit, dir, joined,
                        clients, locals, origin, installed, plans, failures>>
        /\ masked' = masked \ {locals.service}
    BY DEF Unmask, diskVars, systemdVars, historyVars
  <1>4. Current' = Current /\ Backup' = Backup
    BY <1>3 DEF Current, Backup
  <1>p. /\ plan' = plan /\ Command' = Command /\ Command \in {"restore", "enable"}
        /\ Command = "restore" => pc \in {5, 12} /\ pc' \in {6, 13} /\ pc' = pc + 1
        /\ Command = "enable" => pc = 4 /\ pc' = 5
    BY <1>0, <1>2 DEF GoesOn
  <1>t. masked' \subseteq Services
    BY <1>3, ZenonT(30) DEF MemberTypeOK, Services
  <1>5. Command = "restore" => locals.service = "etcd-upgrade" /\ UpgradeOff
    BY <1>0 DEF ServiceInv
  <1>m. MemberTypeOK'
    BY <1>2, <1>3, <1>t DEF MemberTypeOK, GoesOn
  <1>u. UnitsInv'
    BY <1>p, <1>3, <1>4, <1>5, Zenon DEF UnitsInv, EtcdOff, UpgradeOff, ServiceInv
  <1>s. ServiceInv'
    BY <1>p, <1>3, <1>4, <1>5 DEF ServiceInv, EtcdOff, UpgradeOff, Ending
  <1>d. DataInv'
    BY <1>p, <1>3, <1>4, <1>5, Zenon DEF DataInv, Serviceable, OriginSafe, EtcdOff
  <1>l. LocalsInv'
    BY <1>p, <1>3, <1>4 DEF LocalsInv
  <1> QED BY <1>m, <1>u, <1>s, <1>d, <1>l DEF SafeInv

\* Neither unit has a process when disableService returns.
LEMMA StoppedKeeps ==
    ASSUME SafeInv, waitForEtcdStopped
    PROVE  SafeInv'
  <1> MemberTypeOK /\ UnitsInv /\ ServiceInv /\ DataInv /\ LocalsInv
    BY DEF SafeInv
  <1>0. \/ Command = "restore" /\ pc \in {3, 10, 18}
        \/ Command = "disable" /\ pc = 4
    BY StepTable DEF waitForEtcdStopped
  <1>2. \/ Command = "restore" /\ pc \in {3, 10} /\ GoesOn
        \/ Command = "restore" /\ pc = 18 /\ Ends("enable")
        \/ Command = "disable" /\ pc = 4 /\ Ends(plan)
    <2>1. CASE Command = "restore" /\ pc \in {3, 10}
      <3>1. pc > 0 /\ pc < Len(Program[Command])
        BY <2>1, Lengths
      <3> QED BY <2>1, <3>1, AdvanceOn DEF waitForEtcdStopped
    <2>2. CASE Command = "restore" /\ pc = 18
      <3>1. pc > 0 /\ pc = Len(Program[Command])
        BY <2>2, Lengths
      <3> QED BY <2>2, <3>1, AdvanceEnds DEF waitForEtcdStopped
    <2>3. CASE Command = "disable" /\ pc = 4
      <3>1. pc > 0 /\ pc = Len(Program[Command])
        BY <2>3, Lengths
      <3> QED BY <2>3, <3>1, AdvanceEnds DEF waitForEtcdStopped
    <2> QED BY <1>0, <2>1, <2>2, <2>3
  <1>3. /\ UNCHANGED <<role, desired, file, data, link, backup, synced, masked, unit, dir,
                        joined, clients, locals, origin, installed, plans, failures>>
        /\ \A s \in Services : dir[s] = None
    BY DEF waitForEtcdStopped, diskVars, systemdVars, historyVars
  <1>4. Current' = Current /\ Backup' = Backup
    BY <1>3 DEF Current, Backup
  <1>p. /\ plan' = plan /\ Command \in {"restore", "disable"}
        /\ Command = "restore" => /\ pc \in {3, 10} => Command' = "restore" /\ pc' = pc + 1
                                  /\ pc = 18 => Command' = "enable" /\ pc' = 0
                                  /\ pc \in {3, 10, 18}
        /\ Command = "disable" => Command' = plan /\ pc' = 0
    BY <1>0, <1>2 DEF GoesOn, Ends
  <1>5. \A s \in Services : unit[s] \notin {"active", "stopping"}
    BY <1>3 DEF UnitsInv
  <1>6. plan \in {"upgrade", "rollback", "wipe"} /\ (Command = "restore" => plan = "upgrade")
    BY <1>0, PlanTable
  <1>7. EtcdOff /\ UpgradeOff
    <2>1. CASE Command = "restore"
      BY <1>0, <1>5, <2>1 DEF UnitsInv, ServiceInv, Ending, UpgradeOff, Services
    <2>2. CASE Command = "disable"
      BY <1>0, <1>5, <2>2 DEF UnitsInv, ServiceInv, Ending, EtcdOff, UpgradeOff, MemberTypeOK, Services
    <2> QED BY <1>0, <2>1, <2>2
  <1>m. MemberTypeOK'
    BY <1>2, <1>3, ZenonT(60) DEF MemberTypeOK, GoesOn, Ends
  <1>u. UnitsInv'
    BY <1>p, <1>3, <1>4, <1>6, <1>7, Zenon DEF UnitsInv, EtcdOff, UpgradeOff
  <1>s. ServiceInv'
    BY <1>p, <1>3, <1>4, <1>7 DEF ServiceInv, EtcdOff, UpgradeOff, Ending
  <1>d. DataInv'
    <2>1. CASE Command' # "enable"
      BY <1>p, <1>3, <1>4, <1>6, <1>7, <2>1 DEF DataInv, OriginSafe, EtcdOff
    <2>2. CASE Command = "restore" /\ pc = 18 /\ Command' = "enable"
      <3>1. Serviceable /\ Current = desired /\ plan = "upgrade"
        BY <1>6, <2>2 DEF LocalsInv, DataInv, Serviceable
      <3> QED BY <1>p, <1>3, <1>4, <2>2, <3>1, Zenon DEF DataInv, Serviceable, OriginSafe
    <2> QED BY <1>p, <1>6, <2>1, <2>2, Zenon
  <1>l. LocalsInv'
    <2>1. CASE Command = "restore" /\ Command' = "restore"
      BY <1>p, <1>3, <1>4, <2>1 DEF LocalsInv
    <2>2. CASE Command' # "restore" /\ pc' = 0
      BY <1>3, <1>4, <2>2 DEF LocalsInv
    <2> QED BY <1>p, <1>6, <2>1, <2>2, Zenon
  <1> QED BY <1>m, <1>u, <1>s, <1>d, <1>l DEF SafeInv

\* enableService.
LEMMA StartKeeps ==
    ASSUME SafeInv, Start
    PROVE  SafeInv'
  <1> MemberTypeOK /\ UnitsInv /\ ServiceInv /\ DataInv /\ LocalsInv
    BY DEF SafeInv
  <1>0. \/ Command = "restore" /\ pc \in {6, 13}
        \/ Command = "enable" /\ pc = 5
    BY StepTable DEF Start
  <1>2. \/ Command = "restore" /\ pc \in {6, 13} /\ GoesOn
        \/ Command = "enable" /\ pc = 5 /\ Ends("rest")
    <2>1. CASE Command = "restore" /\ pc \in {6, 13}
      <3>1. pc > 0 /\ pc < Len(Program[Command])
        BY <2>1, Lengths
      <3> QED BY <2>1, <3>1, AdvanceOn DEF Start
    <2>2. CASE Command = "enable" /\ pc = 5
      <3>1. pc > 0 /\ pc = Len(Program[Command])
        BY <2>2, Lengths
      <3> QED BY <2>2, <3>1, AdvanceEnds DEF Start
    <2> QED BY <1>0, <2>1, <2>2
  <1>3. /\ UNCHANGED <<role, desired, file, data, link, backup, synced, masked, dir, joined,
                        clients, locals, origin, installed, plans, failures>>
        /\ locals.service \notin masked
        /\ unit' = [unit EXCEPT ![locals.service] = IF @ = "inactive" THEN "queued" ELSE @]
    BY Zenon DEF Start, diskVars, systemdVars, historyVars
  <1>4. Current' = Current /\ Backup' = Backup
    BY <1>3 DEF Current, Backup
  <1>p. /\ plan' = plan /\ Command \in {"restore", "enable"}
        /\ Command = "restore" => /\ Command' = "restore"
                                  /\ pc \in {6, 13} /\ pc' \in {7, 14} /\ pc' = pc + 1
        /\ Command = "enable" => Command' = "rest" /\ pc' = 0
    BY <1>0, <1>2 DEF GoesOn, Ends
  <1>t. unit' \in [Services -> {"inactive", "queued", "activating", "active", "stopping"}]
    BY <1>3 DEF MemberTypeOK
  <1>5. /\ Command = "restore" => locals.service = "etcd-upgrade"
        /\ Command = "enable" => locals.service = "etcd"
    BY <1>0 DEF ServiceInv
  <1>6. /\ unit'[locals.service] = IF unit[locals.service] = "inactive" THEN "queued"
                                   ELSE unit[locals.service]
        /\ \A s \in Services : s # locals.service => unit'[s] = unit[s]
    BY <1>3, Zenon DEF MemberTypeOK
  <1>7. /\ Command = "restore" => plan = "upgrade" /\ Current = desired /\ EtcdOff /\ role # "joiner"
        /\ Command = "enable" => UpgradeOff
    BY <1>0, CommandPlans DEF UnitsInv, ServiceInv, DataInv
  <1>m. MemberTypeOK'
    BY <1>2, <1>3, <1>t, ZenonT(60) DEF MemberTypeOK, GoesOn, Ends
  <1>u. UnitsInv'
    BY <1>p, <1>3, <1>4, <1>5, <1>6, <1>7 DEF UnitsInv, EtcdOff, UpgradeOff, Services
  <1>s. ServiceInv'
    BY <1>p, <1>3, <1>4, <1>5, <1>6, <1>7 DEF ServiceInv, EtcdOff, UpgradeOff, Ending,
       Services
  <1>d. DataInv'
    BY <1>p, <1>3, <1>4, <1>5, <1>6, <1>7 DEF DataInv, Serviceable, OriginSafe, EtcdOff,
       Services
  <1>l. LocalsInv'
    <2>1. CASE Command = "restore" /\ Command' = "restore"
      BY <1>p, <1>3, <1>4, <2>1 DEF LocalsInv
    <2>2. CASE Command' # "restore" /\ pc' = 0
      BY <1>3, <1>4, <2>2 DEF LocalsInv
    <2> QED BY <1>p, <2>1, <2>2, Zenon
  <1> QED BY <1>m, <1>u, <1>s, <1>d, <1>l DEF SafeInv
=============================================================================
