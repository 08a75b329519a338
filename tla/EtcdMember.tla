----------------------------- MODULE EtcdMember -----------------------------
(***************************************************************************)
(* etcd on one master: the version file, one data directory per version,   *)
(* the two systemd units, and the planet commands that install, back up,   *)
(* upgrade, restore, roll back and wipe it.                                *)
(*                                                                         *)
(* A command is a sequence of steps (Program), and any step may be its     *)
(* last: a command returns at its first error, may time out and may be     *)
(* killed.  gravity (external) issues the commands of a plan in order and  *)
(* repeats one that did not succeed.                                       *)
(***************************************************************************)
EXTENDS Naturals, Sequences

CONSTANTS Versions,         \* etcd versions
          Assumed,          \* AssumeEtcdVersion, v2.3.8
          None,             \* no version
          Clients,          \* the services restartEtcdClients knows
          TornWrites,       \* whether a command may die while it writes the version file
          EarlyRollbacks,   \* whether a rollback may come before the upgrade command succeeded
          JoinInterrupted,  \* whether a join may stop after MemberAdd
          StatusFails,      \* whether systemd may fail to tell the status of a client
          MaxPlans,         \* bound: upgrades, rollbacks and wipes
          MaxFailures       \* bound: commands cut short, and deaths of etcd and of the node

ASSUME MemberAssumption ==
    /\ Assumed \in Versions /\ None \notin Versions
    /\ {TornWrites, EarlyRollbacks, JoinInterrupted, StatusFails} \subseteq BOOLEAN
    /\ MaxPlans \in Nat /\ MaxFailures \in Nat

VARIABLES
    role,         \* restorer: the master that restores the backup; joiner: a master that
                  \* joins the cluster it restored; gateway: no member, see EtcdGateway
    desired,      \* the etcd version in the release file of the running planet
    file,         \* the version file's two lines; both None: missing or empty
    data,         \* what is in the member directory of each version
    link,         \* the version /usr/bin/etcd points to
    backup,       \* the backup file
    synced,       \* ETCD_INITIAL_CLUSTER in the synced environment file
    masked, unit, \* systemd: the masked units, and the state of each unit
    dir,          \* the version whose directory the unit's etcd process uses; None: no process
    joined,       \* this node in the restored cluster's member list
    clients,      \* a client is off, fresh, stale (its watches are of a database that was
                  \* replaced) or restarting (systemd has been asked to)
    plan, phase,  \* gravity's plan and how far it is
    pc, locals,   \* the running command's step (0: none runs) and what it has read
    origin,       \* history: the version that ran when the last upgrade began
    installed,    \* history: whether there is a cluster whose data could be lost
    plans, failures

diskVars == <<desired, file, data, link, backup, synced>>
systemdVars == <<masked, unit, dir>>
planVars == <<plan, phase, pc, locals>>
historyVars == <<origin, installed, plans, failures>>
memberVars == <<role, diskVars, systemdVars, joined, clients, planVars, historyVars>>

Services == {"etcd", "etcd-upgrade"}
Contents == {"none",    \* no member directory
             "fresh",   \* an empty database
             "half",    \* the v3 keys of the backup
             "full",    \* the data of the cluster
             "mixed"}   \* neither: removed or restored in part
Lines == Versions \cup {None}
Empty == [version |-> None, prev |-> None]

Plans == [none     |-> <<"rest">>,
          upgrade  |-> <<"backup", "disable", "upgrade", "restore", "enable", "rest">>,
          rollback |-> <<"disable", "rollback", "enable", "rest">>,
          wipe     |-> <<"disable", "wipe", "enable", "rest">>]

etcdBackup == <<"create", "backup">>
etcdDisable == <<"stopApiserver", "mask", "stop", "waitStopped">>
etcdEnable == <<"join", "writeSynced", "restartClients", "unmask", "start">>
etcdUpgrade == <<"checkStatus", "writeVersion", "wipeBackup", "wipeDesired">>
etcdRollback == <<"checkStatus", "writeVersion">>
etcdRestore == <<"mask", "stop", "waitStopped", "removeData", "unmask", "start",
                 "waitHealthy", "mask", "stop", "waitStopped", "offlineRestore",
                 "unmask", "start", "waitHealthy", "onlineRestore",
                 "mask", "stop", "waitStopped">>
etcdWipe == <<"removeData">>

Program == [backup |-> etcdBackup, disable |-> etcdDisable, enable |-> etcdEnable,
            upgrade |-> etcdUpgrade, rollback |-> etcdRollback,
            restore |-> etcdRestore, wipe |-> etcdWipe, rest |-> <<>>]
Command == Plans[plan][phase]
At(step) == pc > 0 /\ Program[Command][pc] = step

MemberTypeOK ==
    /\ role \in {"restorer", "joiner", "gateway"}
    /\ desired \in Versions \ {Assumed} /\ link \in Lines
    /\ file \in [version: Lines, prev: Lines]
    /\ data \in [Versions -> Contents]
    /\ backup \in {"none", "torn", "full"}
    /\ synced \in {"none", "named", "nameless"}
    /\ masked \subseteq Services /\ dir \in [Services -> Lines]
    /\ unit \in [Services -> {"inactive", "queued", "activating", "active", "stopping"}]
    /\ joined \in {"absent", "added", "started"}
    /\ clients \in [Clients -> {"off", "fresh", "stale", "restarting"}]
    /\ plan \in DOMAIN Plans /\ phase \in DOMAIN Plans[plan]
    /\ pc \in {0} \cup DOMAIN Program[Command]
    /\ locals \in [current: Versions, backup: Lines, service: Services, member: BOOLEAN]
    /\ origin \in Versions /\ installed \in BOOLEAN
    /\ plans \in 0..MaxPlans /\ failures \in 0..MaxFailures
-----------------------------------------------------------------------------
(***************************************************************************)
(* The version file                                                        *)
(***************************************************************************)

\* readEtcdVersion finds no version: the callers take the version to be Assumed, and
\* the previous version is not reported either.
Current == IF file.version = None THEN Assumed ELSE file.version
Backup == IF file.version = None THEN None ELSE file.prev

writeEtcdEnvironment(version, prev) ==
    [version |-> IF version = Assumed THEN None ELSE version, prev |-> prev]

\* What os.Create and the first writes leave when the command dies among them.
Torn(new) == {Empty, [new EXCEPT !.prev = None]}

\* The directory etcd is given, /ext/etcd/${PLANET_ETCD_VERSION}.
DataDir == Current

\* The databases below getBaseEtcdDir(version): /ext/etcd holds all the others.
Below(version) == IF version = Assumed THEN Versions ELSE {version}

MemberInit ==
    /\ role \in {"restorer", "joiner", "gateway"}
    /\ desired \in Versions \ {Assumed} /\ file = Empty /\ link = None
    /\ \E legacy \in BOOLEAN :   \* a node that already runs etcd v2.3.8
          /\ data = [v \in Versions |-> IF legacy /\ v = Assumed THEN "full" ELSE "none"]
          /\ installed = legacy
    /\ backup = "none" /\ synced = "none" /\ joined = "absent"
    /\ masked = {"etcd-upgrade"} /\ dir = [s \in Services |-> None]
    /\ unit = [s \in Services |-> IF s = "etcd" /\ role # "gateway" THEN "queued" ELSE "inactive"]
    /\ clients = [c \in Clients |-> "fresh"]
    /\ plan = "none" /\ phase = 1 /\ pc = 0
    /\ locals = [current |-> Assumed, backup |-> None, service |-> "etcd", member |-> FALSE]
    /\ origin = Assumed /\ plans = 0 /\ failures = 0
-----------------------------------------------------------------------------
(***************************************************************************)
(* The units, as systemd runs them, and etcd init, their ExecStartPre      *)
(***************************************************************************)

\* Variant: a missing version file always means a new installation.
etcdInitVariant(s) ==
    /\ unit[s] = "queued"
    /\ file' = IF file.version = None THEN writeEtcdEnvironment(desired, None) ELSE file
    /\ link' = IF file.version = None THEN desired ELSE Current
    /\ unit' = [unit EXCEPT ![s] = "activating"]
    /\ UNCHANGED <<role, desired, data, backup, synced, masked, dir, joined, clients,
                   planVars, historyVars>>

etcdInit(s) ==
    /\ unit[s] = "queued"
    /\ LET new == file.version = None /\ data[Assumed] = "none"
       IN  /\ file' = IF new THEN writeEtcdEnvironment(desired, None) ELSE file
           /\ link' = IF new THEN desired ELSE Current
    /\ unit' = [unit EXCEPT ![s] = "activating"]
    /\ UNCHANGED <<role, desired, data, backup, synced, masked, dir, joined, clients,
                   planVars, historyVars>>

\* etcd opens its directory, or makes one: for the first cluster, for the restored
\* cluster it replicates as a listed member, or else an empty database.
EtcdStarts(s) ==
    /\ unit[s] = "activating"
    /\ LET joining == role = "joiner" /\ s = "etcd" /\ installed
           opens == data[DataDir] # "none"
           made == IF s = "etcd" /\ (joining \/ ~installed) THEN "full" ELSE "fresh"
       IN  IF ~opens /\ joining /\ (joined = "absent" \/ synced # "named")
           THEN /\ unit' = [unit EXCEPT ![s] = "queued"]
                /\ UNCHANGED <<data, dir, joined, installed>>
           ELSE /\ unit' = [unit EXCEPT ![s] = "active"]
                /\ dir' = [dir EXCEPT ![s] = DataDir]
                /\ data' = IF opens THEN data ELSE [data EXCEPT ![DataDir] = made]
                /\ joined' = IF joined = "added" /\ s = "etcd" THEN "started" ELSE joined
                /\ installed' = (installed \/ s = "etcd")
    /\ UNCHANGED <<role, desired, file, link, backup, synced, masked, clients,
                   planVars, origin, plans, failures>>

\* The process has ended its shutdown.
EtcdStops(s) ==
    /\ unit[s] = "stopping"
    /\ unit' = [unit EXCEPT ![s] = "inactive"]
    /\ dir' = [dir EXCEPT ![s] = None]
    /\ UNCHANGED <<role, diskVars, masked, joined, clients, planVars, historyVars>>

\* etcd dies; the unit has Restart=always.
EtcdDies(s) ==
    /\ unit[s] = "active" /\ failures < MaxFailures
    /\ failures' = failures + 1
    /\ unit' = [unit EXCEPT ![s] = "queued"]
    /\ dir' = [dir EXCEPT ![s] = None]
    /\ UNCHANGED <<role, diskVars, masked, joined, clients, planVars,
                   origin, installed, plans>>

\* A client comes back from its restart; the agent starts the API server when it is
\* told who the leader is.
ClientStarts(c) ==
    /\ clients[c] \in {"off", "restarting"}
    /\ clients' = [clients EXCEPT ![c] = "fresh"]
    /\ UNCHANGED <<role, diskVars, systemdVars, joined, planVars, historyVars>>

Boot(masks) ==
    /\ masked' = masks
    /\ unit' = [s \in Services |-> IF s = "etcd" /\ s \notin masks THEN "queued"
                                                                    ELSE "inactive"]
    /\ dir' = [s \in Services |-> None]
    /\ clients' = [c \in Clients |-> "fresh"]

\* The container or the node restarts, and with it every command ends.
Reboot ==
    /\ failures < MaxFailures /\ (joined = "added" => JoinInterrupted)
    /\ failures' = failures + 1
    /\ pc' = 0
    /\ Boot(masked)
    /\ UNCHANGED <<role, diskVars, joined, plan, phase, locals,
                   origin, installed, plans>>

\* gravity replaces the container by one of another planet release.
NewRelease(v) ==
    /\ plan = "none" /\ unit["etcd"] = "active" /\ v # desired
    /\ desired' = v
    /\ link' = None
    /\ Boot({"etcd-upgrade"})
    /\ UNCHANGED <<role, file, data, backup, synced, joined, planVars, historyVars>>
-----------------------------------------------------------------------------
(***************************************************************************)
(* The commands                                                            *)
(***************************************************************************)

\* The command goes on to its next step; after the last one it has succeeded and
\* gravity goes on to the plan's next command.
Advance ==
    /\ IF pc < Len(Program[Command])
       THEN pc' = pc + 1 /\ phase' = phase
       ELSE pc' = 0 /\ phase' = phase + 1
    /\ plan' = plan

\* gravity runs the next command; it stops whichever etcd runs.  etcdRestore and
\* etcdWipe read the version file now.
Begin ==
    /\ pc = 0 /\ Command # "rest"
    /\ (role = "joiner" => Command \notin {"backup", "restore"})
    /\ pc' = 1
    /\ locals' = [locals EXCEPT
                     !.current = Current,
                     !.service = IF \/ Command = "restore"
                                    \/ Command = "disable" /\ unit["etcd-upgrade"] # "inactive"
                                 THEN "etcd-upgrade" ELSE "etcd"]
    /\ UNCHANGED <<role, diskVars, systemdVars, joined, clients, plan, phase, historyVars>>

\* The backup is taken and restored on one master.
Skip ==
    /\ pc = 0 /\ role = "joiner" /\ Command \in {"backup", "restore"}
    /\ phase' = phase + 1
    /\ UNCHANGED <<role, diskVars, systemdVars, joined, clients, plan, pc, locals, historyVars>>

CreateBackup ==
    /\ At("create") /\ Advance
    /\ backup' = "torn"
    /\ UNCHANGED <<role, desired, file, data, link, synced, systemdVars, joined, clients,
                   locals, historyVars>>

WriteBackup ==
    /\ At("backup") /\ Advance
    /\ unit["etcd"] = "active"
    /\ backup' = "full"
    /\ UNCHANGED <<role, desired, file, data, link, synced, systemdVars, joined, clients,
                   locals, historyVars>>

StopApiserver ==
    /\ At("stopApiserver") /\ Advance
    /\ clients' = [clients EXCEPT !["apiserver"] = "off"]
    /\ UNCHANGED <<role, diskVars, systemdVars, joined, locals, historyVars>>

Mask ==
    /\ At("mask") /\ Advance
    /\ masked' = masked \cup {locals.service}
    /\ UNCHANGED <<role, diskVars, unit, dir, joined, clients, locals, historyVars>>

\* systemctl --no-block: the process may outlive the call.
Stop ==
    /\ At("stop") /\ Advance
    /\ unit' = [unit EXCEPT ![locals.service] =
                  IF @ \in {"active", "stopping"} THEN "stopping" ELSE "inactive"]
    /\ UNCHANGED <<role, diskVars, masked, dir, joined, clients, locals, historyVars>>

\* Variant: the shutdown is not waited for.
waitForEtcdStoppedVariant ==
    /\ At("waitStopped") /\ Advance
    /\ UNCHANGED <<role, diskVars, systemdVars, joined, clients, locals, historyVars>>

waitForEtcdStopped ==
    /\ At("waitStopped") /\ Advance
    /\ \A s \in Services : dir[s] = None
    /\ UNCHANGED <<role, diskVars, systemdVars, joined, clients, locals, historyVars>>

\* Variant: enableService starts the unit without having unmasked it.
UnmaskVariant ==
    /\ At("unmask") /\ Advance
    /\ UNCHANGED <<role, diskVars, systemdVars, joined, clients, locals, historyVars>>

Unmask ==
    /\ At("unmask") /\ Advance
    /\ masked' = masked \ {locals.service}
    /\ UNCHANGED <<role, diskVars, unit, dir, joined, clients, locals, historyVars>>

Start ==
    /\ At("start") /\ Advance
    /\ locals.service \notin masked
    /\ unit' = [unit EXCEPT ![locals.service] = IF @ = "inactive" THEN "queued" ELSE @]
    /\ UNCHANGED <<role, diskVars, masked, dir, joined, clients, locals, historyVars>>

waitEtcdHealthy ==
    /\ At("waitHealthy") /\ Advance
    /\ unit[locals.service] = "active"
    /\ UNCHANGED <<role, diskVars, systemdVars, joined, clients, locals, historyVars>>

Joining == role = "joiner" /\ plan = "upgrade"

\* etcdMemberPeerList and MemberAdd.
etcdInitJoin ==
    /\ At("join") /\ Advance
    /\ locals' = [locals EXCEPT !.member = Joining /\ joined # "absent"]
    /\ joined' = IF Joining /\ joined = "absent" THEN "added" ELSE joined
    /\ UNCHANGED <<role, diskVars, systemdVars, clients, historyVars>>

\* The name of a member that never started is empty in the member list.
WriteSynced ==
    /\ At("writeSynced") /\ Advance
    /\ synced' = IF ~Joining THEN synced
                 ELSE IF locals.member /\ joined = "added" THEN "nameless" ELSE "named"
    /\ UNCHANGED <<role, desired, file, data, link, backup, systemdVars, joined, clients,
                   locals, historyVars>>

\* Variant: the clients are not restarted.
restartEtcdClientsVariant ==
    /\ At("restartClients") /\ Advance
    /\ UNCHANGED <<role, diskVars, systemdVars, joined, clients, locals, historyVars>>

\* restartEtcdClients returns at the first service whose status it cannot read.
restartEtcdClients ==
    /\ At("restartClients") /\ Advance
    /\ \E reached \in IF StatusFails THEN SUBSET Clients ELSE {Clients} :
          clients' = [c \in Clients |-> IF c \in reached /\ clients[c] # "off"
                                        THEN "restarting" ELSE clients[c]]
    /\ UNCHANGED <<role, diskVars, systemdVars, joined, locals, historyVars>>

\* The phases gravity may go back to: disabling etcd and, as long as etcd has not been
\* enabled again, the upgrade.
Again ==
    {p \in 1..phase :
        Plans[plan][p] \in {"disable"} \cup IF Command = "restore" THEN {"upgrade"} ELSE {}}

\* Variant: a version file without a version is not taken care of.
CheckStatusVariant ==
    /\ At("checkStatus") /\ Advance
    /\ locals' = [locals EXCEPT !.current = file.version, !.backup = Backup]
    /\ UNCHANGED <<role, diskVars, systemdVars, joined, clients, historyVars>>

\* The upgrade refuses to run beside an etcd; gravity has to disable it first.
CheckStatus ==
    /\ At("checkStatus")
    /\ IF \A s \in Services : unit[s] = "inactive"
       THEN /\ Advance
            /\ locals' = [locals EXCEPT !.current = Current, !.backup = Backup]
       ELSE /\ pc' = 0 /\ phase' \in {p \in Again : Plans[plan][p] = "disable"}
            /\ UNCHANGED <<plan, locals>>
    /\ UNCHANGED <<role, diskVars, systemdVars, joined, clients, historyVars>>

\* Every client that is running watches a database that will not come back.
Outdated == [c \in Clients |-> IF clients[c] = "fresh" THEN "stale" ELSE clients[c]]

\* What the upgrade or the rollback leaves in the version file.
VersionToWrite ==
    IF Command = "rollback"
    THEN IF locals.backup # None THEN writeEtcdEnvironment(locals.backup, None) ELSE file
    ELSE IF locals.current # desired THEN writeEtcdEnvironment(desired, locals.current) ELSE file

WriteVersion ==
    /\ At("writeVersion") /\ Advance
    /\ file' = VersionToWrite
    /\ clients' = Outdated
    /\ UNCHANGED <<role, desired, data, link, backup, synced, systemdVars, joined,
                   locals, historyVars>>

\* The databases a step removes, and all that it changes.
Removes ==
    CASE At("wipeBackup") -> IF locals.current = desired THEN {} ELSE {locals.backup} \ {None}
      [] At("wipeDesired") -> {desired}
      [] At("removeData") -> Below(locals.current)
      [] OTHER -> {}
Changes == Removes \cup IF At("offlineRestore") \/ At("onlineRestore")
                        THEN {locals.current} ELSE {}

\* Variant: the version to be backed up is wiped, not the one before it.
WipeOldBackupsVariant ==
    /\ At("wipeBackup") /\ Advance
    /\ data' = IF locals.current = desired THEN data ELSE [data EXCEPT ![locals.current] = "none"]
    /\ UNCHANGED <<role, desired, file, link, backup, synced, systemdVars, joined, clients,
                   locals, historyVars>>

WipeOldBackups ==
    /\ At("wipeBackup") /\ Advance
    /\ data' = [v \in Versions |-> IF v \in Removes THEN "none" ELSE data[v]]
    /\ UNCHANGED <<role, desired, file, link, backup, synced, systemdVars, joined, clients,
                   locals, historyVars>>

WipeDesired ==
    /\ At("wipeDesired") /\ Advance
    /\ data' = [v \in Versions |-> IF v \in Removes THEN "none" ELSE data[v]]
    /\ UNCHANGED <<role, desired, file, link, backup, synced, systemdVars, joined, clients,
                   locals, historyVars>>

\* RemoveAll of the base directory: /ext/etcd also holds the version file and the
\* synced environment file.  After etcd wipe there is nothing left to lose.
RemoveData ==
    /\ At("removeData") /\ Advance
    /\ data' = [v \in Versions |-> IF v \in Removes THEN "none" ELSE data[v]]
    /\ file' = IF locals.current = Assumed THEN Empty ELSE file
    /\ synced' = IF locals.current = Assumed THEN "none" ELSE synced
    /\ installed' = (installed /\ Command # "wipe")
    /\ clients' = Outdated
    /\ UNCHANGED <<role, desired, link, backup, systemdVars, joined, locals,
                   origin, plans, failures>>

\* Written into the database etcd-upgrade has initialised and left.
OfflineRestore ==
    /\ At("offlineRestore") /\ Advance
    /\ data' = [data EXCEPT ![locals.current] =
                  IF @ = "fresh" /\ backup = "full" THEN "half" ELSE "mixed"]
    /\ UNCHANGED <<role, desired, file, link, backup, synced, systemdVars, joined, clients,
                   locals, historyVars>>

\* The v2 keys, through the running etcd-upgrade.
OnlineRestore ==
    /\ At("onlineRestore") /\ Advance
    /\ dir["etcd-upgrade"] # None
    /\ data' = [data EXCEPT ![dir["etcd-upgrade"]] =
                  IF @ = "half" /\ backup = "full" THEN "full" ELSE "mixed"]
    /\ UNCHANGED <<role, desired, file, link, backup, synced, systemdVars, joined, clients,
                   locals, historyVars>>

\* The running command returns an error, times out or is killed, with its current step
\* done in part.  gravity runs it again, or takes up the plan at an earlier phase.
Abort ==
    /\ pc > 0 /\ failures < MaxFailures /\ (joined = "added" => JoinInterrupted)
    /\ failures' = failures + 1
    /\ pc' = 0 /\ phase' \in {phase} \cup Again
    /\ file' \in IF TornWrites /\ At("writeVersion") /\ VersionToWrite # file
                 THEN Torn(VersionToWrite) ELSE {file}
    /\ \E damage \in {{}, {v \in Changes : data[v] # "none"}} :
          data' = [v \in Versions |-> IF v \in damage THEN "mixed" ELSE data[v]]
    /\ UNCHANGED <<role, desired, link, backup, synced, systemdVars, joined, clients,
                   plan, locals, origin, installed, plans>>
-----------------------------------------------------------------------------
(***************************************************************************)
(* gravity's plans (external)                                              *)
(***************************************************************************)

\* "if current version == desired version, we must have already run this step": an
\* upgrade is started only towards another version.
StartUpgrade ==
    /\ plan = "none" /\ plans < MaxPlans /\ unit["etcd"] = "active" /\ Current # desired
    /\ plan' = "upgrade" /\ phase' = 1
    /\ plans' = plans + 1
    /\ origin' = Current
    /\ joined' = "absent"
    /\ UNCHANGED <<role, diskVars, systemdVars, clients, pc, locals, installed, failures>>

StartRollback ==
    /\ plan = "upgrade" /\ pc = 0 /\ plans < MaxPlans
    /\ EarlyRollbacks \/ Command \in {"restore", "enable", "rest"}
    /\ joined # "added"
    /\ plan' = "rollback" /\ phase' = 1
    /\ plans' = plans + 1
    /\ UNCHANGED <<role, diskVars, systemdVars, joined, clients, pc, locals,
                   origin, installed, failures>>

StartWipe ==
    /\ plan = "none" /\ plans < MaxPlans
    /\ plan' = "wipe" /\ phase' = 1
    /\ plans' = plans + 1
    /\ UNCHANGED <<role, diskVars, systemdVars, joined, clients, pc, locals,
                   origin, installed, failures>>

EndPlan ==
    /\ plan # "none" /\ Command = "rest"
    /\ plan' = "none" /\ phase' = 1
    /\ UNCHANGED <<role, diskVars, systemdVars, joined, clients, pc, locals, historyVars>>
-----------------------------------------------------------------------------
Step ==
    \/ CreateBackup \/ WriteBackup \/ StopApiserver
    \/ Mask \/ Stop \/ waitForEtcdStopped \/ Unmask \/ Start \/ waitEtcdHealthy
    \/ etcdInitJoin \/ WriteSynced \/ restartEtcdClients
    \/ CheckStatus \/ WriteVersion \/ WipeOldBackups \/ WipeDesired
    \/ RemoveData \/ OfflineRestore \/ OnlineRestore

Gravity == Begin \/ Skip \/ EndPlan

UnitMoves(s) == etcdInit(s) \/ EtcdStarts(s) \/ EtcdStops(s)

MemberNext ==
    \/ Step \/ Gravity \/ Abort
    \/ \E s \in Services : UnitMoves(s) \/ EtcdDies(s)
    \/ \E c \in Clients : ClientStarts(c)
    \/ Reboot \/ \E v \in Versions \ {Assumed} : NewRelease(v)
    \/ StartUpgrade \/ StartRollback \/ StartWipe

\* A running command goes on, gravity repeats and completes its plan, and systemd does
\* what it has been asked to.
MemberFairness ==
    /\ WF_memberVars(Step) /\ WF_memberVars(Gravity)
    /\ \A s \in Services : WF_memberVars(UnitMoves(s))

MemberSpec == MemberInit /\ [][MemberNext]_memberVars /\ MemberFairness
-----------------------------------------------------------------------------
(***************************************************************************)
(* Properties                                                              *)
(***************************************************************************)

\* When a rollback has got as far as enabling etcd, the version file names the version
\* that ran before the upgrade and its database is whole, however often the upgrade and
\* the rollback were cut short and repeated (etcd.go:348, "upgrade in a re-entrant way").
RollbackReturns ==
    plan = "rollback" /\ Command = "enable" => Current = origin /\ data[origin] = "full"

\* etcd.service never serves an empty, half restored or damaged database in place of the
\* cluster's, and runs the binary that the database was written by.
ServesClusterData ==
    \A v \in Versions : dir["etcd"] = v => data[v] = "full" /\ link = v /\ Current = v

\* No database is removed or restored into offline while an etcd process has it open:
\* disableService waits for the process that systemctl stop --no-block leaves behind.
NeverWipesInUse ==
    [][\A v \in Versions : (\E s \in Services : dir[s] = v) /\ ~At("onlineRestore")
                           /\ data[v] # "none" => data'[v] = data[v]]_memberVars

\* Once etcd serves again, no client still holds watches on the database that was
\* replaced (etcd.go:409, "all clients need to be refreshed").
ClientsRefreshed ==
    unit["etcd"] = "active" => \A c \in Clients : clients[c] # "stale"

\* Whatever is cut short, etcd is always brought back into service in the end.
EtcdComesBack == []<>(unit["etcd"] = "active" \/ role = "gateway")
=============================================================================
