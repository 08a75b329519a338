---------------------------- MODULE PlanetAgent ----------------------------
(***************************************************************************)
(* The agents of a planet cluster around leader election: what             *)
(* startLeaderClient sets up on every node, the callbacks it registers,    *)
(* the operator's pause and resume commands, and agents that die and are   *)
(* started again by systemd (Restart=always).                              *)
(*                                                                         *)
(* A watch is the list of values it has still to tell its callback.  It    *)
(* may pass over some but always ends with the latest; an expiry of the    *)
(* leader key is not told to anybody.  That is KeyWatch's watch under two  *)
(* assumptions the code does not enforce: no Get is answered with old data *)
(* (~StaleReads), or else a callback may be told an old value once more,   *)
(* and no watch is recreated after repeated unclassified errors            *)
(* (~UnknownErrors), or else the latest value may never be told.           *)
(***************************************************************************)
EXTENDS Election, Naturals, Sequences

CONSTANTS Masters,         \* nodes with Role = master
          ElectionEnabled, \* of a node: its flag, "true" or "false"
          Subs,            \* callbacks on the leader key: "units", "dns"
          Units,           \* electedUnits
          CommandsFail,    \* whether systemctl or writing hosts may fail
          NoVoter,         \* cancelVoter is nil
          MaxLag,          \* bound: values waiting for a callback
          MaxModeChanges,  \* bound: pause and resume commands
          MaxCrashes       \* bound: agents that die

ASSUME AgentAssumption ==
    /\ Masters \subseteq Nodes
    /\ ElectionEnabled \in [Nodes -> {"true", "false"}]
    /\ Subs \subseteq {"units", "dns"}
    /\ NoVoter \notin Voters
    /\ MaxLag \in Nat \ {0} /\ MaxModeChanges \in Nat /\ MaxCrashes \in Nat
    /\ CommandsFail \in BOOLEAN

VARIABLES up,           \* down, starting (in startLeaderClient), or up
          electionKey,  \* the node's key in etcd: "true", "false", or "unset"
          cancelVoter,  \* startLeaderClient's variable: whose context it cancels
          modeQ,        \* values of electionKey still to be told
          leaderQ,      \* values of leaderKey still to be told, by callback
          told,         \* values told, by callback, counted up to 2
          units,        \* the elected units running on the node
          hosts,        \* the leader in the node's CoreDNS hosts file
          modeChanges, crashes

agentVars == <<up, electionKey, cancelVoter, modeQ>>
feedVars == <<leaderQ, told>>
effectVars == <<units, hosts>>
boundVars == <<modeChanges, crashes>>
vars == <<electionVars, agentVars, feedVars, effectVars, boundVars>>

TypeOK ==
    /\ ElectionTypeOK
    /\ up \in [Nodes -> {"down", "starting", "up"}]
    /\ electionKey \in [Nodes -> {"true", "false", "unset"}]
    /\ cancelVoter \in [Nodes -> Voters \cup {NoVoter}]
    /\ modeQ \in [Nodes -> Seq({"true", "false"})]
    /\ leaderQ \in [Nodes -> [Subs -> Seq(Nodes)]]
    /\ told \in [Nodes -> [Subs -> 0..2]]
    /\ units \in [Nodes -> SUBSET Units]
    /\ hosts \in [Nodes -> Nodes \cup {None}]
    /\ modeChanges \in Nat /\ crashes \in Nat

Init ==
    /\ ElectionInit
    /\ up = [n \in Nodes |-> "down"]
    /\ electionKey = [n \in Nodes |-> "unset"]
    /\ cancelVoter = [n \in Nodes |-> NoVoter]
    /\ modeQ = [n \in Nodes |-> <<>>]
    /\ leaderQ = [n \in Nodes |-> [s \in Subs |-> <<>>]]
    /\ told = [n \in Nodes |-> [s \in Subs |-> 0]]
    /\ units = [n \in Nodes |-> {}]
    /\ hosts = [n \in Nodes |-> None]
    /\ modeChanges = 0 /\ crashes = 0
-----------------------------------------------------------------------------
(***************************************************************************)
(* The watches.                                                            *)
(***************************************************************************)
Push(q, value) == Append(IF Len(q) < MaxLag THEN q ELSE Tail(q), value)
From(value, nothing) == IF value = nothing THEN <<>> ELSE <<value>>
After(q, i) == SubSeq(q, i + 1, Len(q))

Watching(n, s) == up[n] = "up" \/ (up[n] = "starting" /\ s = "units")

PublishLeader(value) ==
    leaderQ' = [n \in Nodes |-> [s \in Subs |->
                  IF Watching(n, s) THEN Push(leaderQ[n][s], value) ELSE leaderQ[n][s]]]

(***************************************************************************)
(* AddWatch does not count the first value as sent, so it tells a renewal  *)
(* of the lease to a callback that has only been told that one.            *)
(***************************************************************************)
PublishRenewal ==
    leaderQ' = [n \in Nodes |-> [s \in Subs |->
                  IF told[n][s] = 1 /\ leaderQ[n][s] = <<>>
                  THEN <<leaderKey>> ELSE leaderQ[n][s]]]

(***************************************************************************)
(* unitsCommand: systemctl is called for every unit, whichever fail.       *)
(***************************************************************************)
unitsCommand(n, command) ==
    \E failed \in IF CommandsFail THEN SUBSET Units ELSE {{}} :
        units' = [units EXCEPT ![n] = IF command = "start" THEN @ \cup (Units \ failed)
                                      ELSE @ \cap failed]
-----------------------------------------------------------------------------
\* Variant: writes the flag in another notation.
StartAgentOnOff(n) ==
    /\ up[n] = "down"
    /\ up' = [up EXCEPT ![n] = "starting"]
    /\ electionKey' = [electionKey EXCEPT ![n] = IF ElectionEnabled[n] = "true" THEN "on" ELSE "off"]
    /\ UNCHANGED <<electionVars, cancelVoter, modeQ, feedVars, effectVars, boundVars>>

(***************************************************************************)
(* startLeaderClient, up to the first watch: a master creates its election *)
(* key unless it is there already.                                         *)
(***************************************************************************)
StartAgent(n) ==
    /\ up[n] = "down"
    /\ up' = [up EXCEPT ![n] = "starting"]
    /\ electionKey' = IF n \in Masters /\ electionKey[n] = "unset"
                      THEN [electionKey EXCEPT ![n] = ElectionEnabled[n]] ELSE electionKey
    /\ leaderQ' = [leaderQ EXCEPT ![n] = [s \in Subs |->
                      IF s = "units" THEN From(leaderKey, None) ELSE <<>>]]
    /\ UNCHANGED <<electionVars, cancelVoter, modeQ, told, effectVars, boundVars>>

(***************************************************************************)
(* The rest of it: a master joins the election or stops the elected units, *)
(* as its flag says, and the watches of the election key and for the hosts *)
(* file begin.                                                             *)
(***************************************************************************)
JoinAsVoter(n) ==
    /\ n \in Masters /\ ElectionEnabled[n] = "true"
    /\ \E v \in VotersOf(n) : AddVoter(v) /\ cancelVoter' = [cancelVoter EXCEPT ![n] = v]
    /\ UNCHANGED units

JoinPaused(n) ==
    /\ n \in Masters /\ ElectionEnabled[n] = "false"
    /\ unitsCommand(n, "stop")
    /\ UNCHANGED <<electionVars, cancelVoter>>

JoinAsNode(n) == n \notin Masters /\ UNCHANGED <<electionVars, cancelVoter, units>>

JoinElection(n) ==
    /\ up[n] = "starting"
    /\ JoinAsVoter(n) \/ JoinPaused(n) \/ JoinAsNode(n)
    /\ up' = [up EXCEPT ![n] = "up"]
    /\ modeQ' = [modeQ EXCEPT ![n] = From(electionKey[n], "unset")]
    /\ leaderQ' = [leaderQ EXCEPT ![n] = [s \in Subs |->
                      IF s = "dns" THEN From(leaderKey, None) ELSE leaderQ[n][s]]]
    /\ UNCHANGED <<electionKey, told, hosts, boundVars>>

(***************************************************************************)
(* leaderPause, leaderResume: the operator sets the election key.          *)
(***************************************************************************)
enableElection(n, enabled) ==
    /\ modeChanges < MaxModeChanges /\ electionKey[n] # enabled
    /\ modeChanges' = modeChanges + 1
    /\ electionKey' = [electionKey EXCEPT ![n] = enabled]
    /\ modeQ' = IF up[n] = "up" THEN [modeQ EXCEPT ![n] = Push(@, enabled)] ELSE modeQ
    /\ UNCHANGED <<electionVars, up, cancelVoter, feedVars, effectVars, crashes>>

\* Variant: adds a voter although one is active.
StartVotingAgain(n) ==
    \E v \in VotersOf(n) : AddVoter(v) /\ cancelVoter' = [cancelVoter EXCEPT ![n] = v]

(***************************************************************************)
(* The callback on the election key.                                       *)
(***************************************************************************)
StartVoting(n) ==
    IF cancelVoter[n] = NoVoter
    THEN \E v \in VotersOf(n) : AddVoter(v) /\ cancelVoter' = [cancelVoter EXCEPT ![n] = v]
    ELSE UNCHANGED <<electionVars, cancelVoter>>

\* Variant: forgets the voter without cancelling it.
StopVotingForgets(n) ==
    cancelVoter' = [cancelVoter EXCEPT ![n] = NoVoter] /\ UNCHANGED electionVars

StopVoting(n) ==
    IF cancelVoter[n] = NoVoter
    THEN UNCHANGED <<electionVars, cancelVoter>>
    ELSE CancelVoter(cancelVoter[n]) /\ cancelVoter' = [cancelVoter EXCEPT ![n] = NoVoter]

ModeCallback(n) ==
    \E i \in DOMAIN modeQ[n] :
        /\ modeQ' = [modeQ EXCEPT ![n] = After(@, i)]
        /\ IF modeQ[n][i] = "true" THEN StartVoting(n) ELSE StopVoting(n)
        /\ UNCHANGED <<up, electionKey, feedVars, effectVars, boundVars>>

\* Variant: only ever starts the units.
FollowLeaderStarts(n, leader) ==
    /\ IF leader = n THEN unitsCommand(n, "start") ELSE UNCHANGED units
    /\ UNCHANGED hosts

(***************************************************************************)
(* The callbacks on the leader key: start or stop the elected units, and   *)
(* updateDNS.                                                              *)
(***************************************************************************)
FollowLeader(n, leader) ==
    unitsCommand(n, IF leader = n THEN "start" ELSE "stop") /\ UNCHANGED hosts

\* Variant: only writes the file when it is empty.
updateDNSOnce(n, leader) ==
    /\ hosts' = IF hosts[n] = None THEN [hosts EXCEPT ![n] = leader] ELSE hosts
    /\ UNCHANGED units

updateDNS(n, leader) ==
    /\ \/ hosts' = [hosts EXCEPT ![n] = leader]
       \/ CommandsFail /\ UNCHANGED hosts
    /\ UNCHANGED units

LeaderCallback(n, s) ==
    \E i \in DOMAIN leaderQ[n][s] :
        /\ leaderQ' = [leaderQ EXCEPT ![n][s] = After(@, i)]
        /\ told' = [told EXCEPT ![n][s] = IF @ = 0 THEN 1 ELSE 2]
        /\ IF s = "units" THEN FollowLeader(n, leaderQ[n][s][i])
           ELSE updateDNS(n, leaderQ[n][s][i])
        /\ UNCHANGED <<electionVars, agentVars, boundVars>>
-----------------------------------------------------------------------------
(***************************************************************************)
(* The voters and the lease, seen by the watches.                          *)
(***************************************************************************)
VoterWins(v) ==
    /\ Win(v)
    /\ PublishLeader(Owner[v])
    /\ UNCHANGED <<agentVars, told, effectVars, boundVars>>

VoterRenews(v) ==
    /\ Renew(v)
    /\ PublishRenewal
    /\ UNCHANGED <<agentVars, told, effectVars, boundVars>>

VoterStops(v) == VoterExit(v) /\ UNCHANGED <<agentVars, feedVars, effectVars, boundVars>>

LeaseExpires == Expire /\ UNCHANGED <<agentVars, feedVars, effectVars, boundVars>>

(***************************************************************************)
(* The agent ends, by a signal or a failure.  The units keep running.  The *)
(* hosts file is written in place: it may be left empty.                   *)
(***************************************************************************)
AgentDies(n) ==
    /\ crashes < MaxCrashes /\ up[n] # "down"
    /\ crashes' = crashes + 1
    /\ Crash(n)
    /\ up' = [up EXCEPT ![n] = "down"]
    /\ cancelVoter' = [cancelVoter EXCEPT ![n] = NoVoter]
    /\ modeQ' = [modeQ EXCEPT ![n] = <<>>]
    /\ leaderQ' = [leaderQ EXCEPT ![n] = [s \in Subs |-> <<>>]]
    /\ told' = [told EXCEPT ![n] = [s \in Subs |-> 0]]
    /\ \/ UNCHANGED hosts
       \/ /\ \E s \in Subs : s = "dns" /\ leaderQ[n][s] # <<>>
          /\ hosts' = [hosts EXCEPT ![n] = None]
    /\ UNCHANGED <<electionKey, units, modeChanges>>

Next ==
    \/ \E n \in Nodes :
          \/ StartAgent(n) \/ JoinElection(n) \/ ModeCallback(n) \/ AgentDies(n)
          \/ enableElection(n, "true") \/ enableElection(n, "false")
          \/ \E s \in Subs : LeaderCallback(n, s)
    \/ \E v \in Voters : VoterWins(v) \/ VoterRenews(v) \/ VoterStops(v)
    \/ LeaseExpires

Spec == Init /\ [][Next]_vars

(***************************************************************************)
(* systemd starts agents, their goroutines run, watches deliver, and the   *)
(* election makes the progress that Election promises.                     *)
(***************************************************************************)
UnrenewedExpires == ExpireUnrenewed /\ LeaseExpires

FairSpec ==
    /\ Spec
    /\ \A n \in Nodes :
          /\ WF_vars(StartAgent(n)) /\ WF_vars(JoinElection(n)) /\ WF_vars(ModeCallback(n))
          /\ \A s \in Subs : WF_vars(LeaderCallback(n, s))
    /\ WF_vars(\E v \in Voters : status[v] = "live" /\ VoterWins(v))
    /\ \A v \in Voters :
          /\ WF_vars(status[v] = "live" /\ VoterRenews(v))
          /\ WF_vars(VoterStops(v))
    /\ WF_vars(UnrenewedExpires)
-----------------------------------------------------------------------------
(***************************************************************************)
(* The agent never loses track of a voter: its uncancelled voters are      *)
(* exactly the one cancelVoter would cancel, and there is none before it   *)
(* has joined, whatever order pauses, resumes and restarts come in.        *)
(* Otherwise a pause would cancel one goroutine and leave another one      *)
(* campaigning.                                                            *)
(***************************************************************************)
LiveVoters(n) == {v \in VotersOf(n) : status[v] = "live"}
Accounted(n) ==
    /\ LiveVoters(n) = {cancelVoter[n]} \ {NoVoter}
    /\ up[n] # "up" => cancelVoter[n] = NoVoter /\ modeQ[n] = <<>>
VoterBookkeeping == \A n \in Nodes : Accounted(n)

(***************************************************************************)
(* A pause that a running agent has acted on holds: until it is resumed,   *)
(* the agent starts no voter.  (With watches that do not go back: an old   *)
(* "true" read from a lagging etcd member would start one.)                *)
(***************************************************************************)
Paused(n) == electionKey[n] = "false" /\ modeQ[n] = <<>> /\ LiveVoters(n) = {}
PauseHolds ==
    [][\A n \in Nodes : up[n] = "up" /\ Paused(n) /\ electionKey'[n] = "false"
                        => LiveVoters(n)' = {}]_vars

(***************************************************************************)
(* "It is enough to update the value of this key to change the node        *)
(* participation mode" (agent.go:55): a node whose pause has taken effect  *)
(* starts no voter until it is resumed, also when its agent restarts.      *)
(***************************************************************************)
PauseSurvivesRestart ==
    \A n \in Nodes :
        [](up[n] = "up" /\ Paused(n) /\ [](electionKey[n] = "false") => [](LiveVoters(n) = {}))

(***************************************************************************)
(* Pausing hands over: a node that stays paused ends up not being the      *)
(* leader, although its agent may restart and campaign for a moment.       *)
(***************************************************************************)
PauseHandsOver ==
    \A n \in Nodes : <>[](electionKey[n] = "false") => <>[](leaderKey # n)

(***************************************************************************)
(* Under a lasting leader every node settles: the elected units run on the *)
(* leader and nowhere else.                                                *)
(***************************************************************************)
UnitsFollowLeader ==
    \A n, m \in Nodes :
        <>[](leaderKey = m) => <>[](units[n] = IF n = m THEN Units ELSE {})

(***************************************************************************)
(* "Otherwise, the services are stopped to avoid interfering with the      *)
(* active master instance" (agent.go:83): under a lasting leader the other *)
(* nodes end up running none of the elected units.                         *)
(***************************************************************************)
StandbysStop ==
    \A n, m \in Nodes : n # m => (<>[](leaderKey = m) => <>[](units[n] = {}))

(***************************************************************************)
(* No callback is left behind: while there is a leader, a node that has    *)
(* been told everything there is shows it (its elected units run if and    *)
(* only if it leads, its hosts file names the leader), and the last value  *)
(* still to be told is the leader.  (With watches that keep the order and  *)
(* lose nothing at the end, as assumed above.)                             *)
(***************************************************************************)
Shows(n, s) ==
    IF s = "units" THEN units[n] = IF n = leaderKey THEN Units ELSE {}
    ELSE hosts[n] = leaderKey
CaughtUp(n, s) ==
    IF leaderQ[n][s] = <<>> THEN Shows(n, s)
    ELSE leaderQ[n][s][Len(leaderQ[n][s])] = leaderKey
CallbacksCatchUp ==
    \A n \in Nodes, s \in Subs : Watching(n, s) /\ leaderKey # None => CaughtUp(n, s)
=============================================================================
