------------------------- MODULE PlanetAgentProofs -------------------------
(***************************************************************************)
(* The agents' account of their voters, for any number of nodes, voters,   *)
(* pauses, resumes and restarts.                                           *)
(***************************************************************************)
EXTENDS PlanetAgent, TLAPS

(***************************************************************************)
(* What the watches do with their lists of values keeps them lists of      *)
(* values.                                                                 *)
(***************************************************************************)
LEMMA QueueTypes ==
    ASSUME NEW S, NEW q \in Seq(S)
    PROVE  /\ \A x \in S : Push(q, x) \in Seq(S)
           /\ \A i \in DOMAIN q : After(q, i) \in Seq(S)
  <1>1. ASSUME NEW x \in S PROVE Push(q, x) \in Seq(S)
    <2>1. CASE Len(q) < MaxLag
      BY <2>1 DEF Push
    <2>2. CASE ~(Len(q) < MaxLag)
      <3>1. Len(q) # 0
        BY <2>2, AgentAssumption
      <3> QED BY <2>2, <3>1 DEF Push
    <2> QED BY <2>1, <2>2
  <1>2. ASSUME NEW i \in DOMAIN q PROVE After(q, i) \in Seq(S)
    BY DEF After
  <1> QED BY <1>1, <1>2

(***************************************************************************)
(* The first value of a watch, or none yet, is a list of values.           *)
(***************************************************************************)
LEMMA FromType ==
    ASSUME NEW S, NEW nothing, NEW x \in S \cup {nothing}
    PROVE  From(x, nothing) \in Seq(S)
  BY DEF From

(***************************************************************************)
(* The steps of the election service keep its types.                       *)
(***************************************************************************)
LEMMA ElectionTypes ==
    ASSUME ElectionTypeOK
    PROVE  /\ \A v \in Voters : AddVoter(v) \/ CancelVoter(v) \/ VoterExit(v) => ElectionTypeOK'
           /\ \A v \in Voters : Win(v) \/ Renew(v) => ElectionTypeOK'
           /\ \A n \in Nodes : Crash(n) => ElectionTypeOK'
           /\ Expire => ElectionTypeOK'
           /\ UNCHANGED electionVars => ElectionTypeOK'
  <1> USE VotersAssumption DEF ElectionTypeOK, Status
  <1>1. ASSUME NEW v \in Voters, AddVoter(v) \/ CancelVoter(v) \/ VoterExit(v)
        PROVE  ElectionTypeOK'
    BY <1>1 DEF AddVoter, CancelVoter, VoterExit
  <1>2. ASSUME NEW v \in Voters, Win(v) \/ Renew(v) PROVE ElectionTypeOK'
    BY <1>2 DEF Win, Renew, AfterElect
  <1>3. ASSUME NEW n \in Nodes, Crash(n) PROVE ElectionTypeOK'
    BY <1>3 DEF Crash
  <1>4. Expire => ElectionTypeOK'
    BY DEF Expire
  <1>5. UNCHANGED electionVars => ElectionTypeOK'
    BY DEF electionVars
  <1> QED BY <1>1, <1>2, <1>3, <1>4, <1>5

(***************************************************************************)
(* unitsCommand leaves every node with a set of elected units.             *)
(***************************************************************************)
LEMMA UnitsType ==
    ASSUME units \in [Nodes -> SUBSET Units], NEW n \in Nodes, NEW command,
           unitsCommand(n, command)
    PROVE  units' \in [Nodes -> SUBSET Units]
  BY DEF unitsCommand

(***************************************************************************)
(* Every variable of the agents stays in its range.                        *)
(***************************************************************************)
THEOREM AgentTypeCorrect == Spec => []TypeOK
  <1>1. Init => TypeOK
    <2> SUFFICES ASSUME Init PROVE TypeOK
      OBVIOUS
    <2>1. ElectionTypeOK
      BY VotersAssumption DEF Init, ElectionInit, ElectionTypeOK, Status
    <2>2. leaderQ \in [Nodes -> [Subs -> Seq(Nodes)]] /\ modeQ \in [Nodes -> Seq({"true", "false"})]
      BY DEF Init
    <2>3. told \in [Nodes -> [Subs -> 0..2]]
      BY DEF Init
    <2> QED BY <2>1, <2>2, <2>3 DEF Init, TypeOK
  <1>2. TypeOK /\ [Next]_vars => TypeOK'
    <2> SUFFICES ASSUME TypeOK, [Next]_vars PROVE TypeOK'
      OBVIOUS
    <2> USE VotersAssumption, AgentAssumption
        DEF TypeOK, agentVars, feedVars, effectVars, boundVars
    <2>0. leaderKey \in Nodes \cup {None}
      BY DEF ElectionTypeOK
    <2>1. ASSUME NEW n \in Nodes, StartAgent(n) PROVE TypeOK'
      <3>1. ElectionTypeOK'
        BY <2>1, ElectionTypes DEF StartAgent
      <3>2. From(leaderKey, None) \in Seq(Nodes)
        BY <2>0, FromType
      <3>3. leaderQ' \in [Nodes -> [Subs -> Seq(Nodes)]]
        BY <2>1, <3>2 DEF StartAgent
      <3> QED BY <2>1, <3>1, <3>3 DEF StartAgent
    <2>2. ASSUME NEW n \in Nodes, JoinElection(n) PROVE TypeOK'
      <3>1. ElectionTypeOK' /\ cancelVoter' \in [Nodes -> Voters \cup {NoVoter}]
        <4>1. CASE JoinAsVoter(n)
          <5>1. PICK v \in Voters : AddVoter(v) /\ cancelVoter' = [cancelVoter EXCEPT ![n] = v]
            BY <4>1, Zenon DEF JoinAsVoter, VotersOf
          <5> QED BY <5>1, ElectionTypes
        <4>2. CASE JoinPaused(n) \/ JoinAsNode(n)
          BY <4>2, ElectionTypes DEF JoinPaused, JoinAsNode
        <4> QED BY <2>2, <4>1, <4>2 DEF JoinElection
      <3>2. units' \in [Nodes -> SUBSET Units]
        BY <2>2, UnitsType DEF JoinElection, JoinAsVoter, JoinPaused, JoinAsNode
      <3>3. From(leaderKey, None) \in Seq(Nodes) /\ From(electionKey[n], "unset") \in Seq({"true", "false"})
        <4>1. electionKey[n] \in {"true", "false"} \cup {"unset"}
          OBVIOUS
        <4> QED BY <2>0, <4>1, FromType
      <3>4. leaderQ' \in [Nodes -> [Subs -> Seq(Nodes)]]
        BY <2>2, <3>3 DEF JoinElection
      <3>5. modeQ' \in [Nodes -> Seq({"true", "false"})]
        BY <2>2, <3>3 DEF JoinElection
      <3> QED BY <2>2, <3>1, <3>2, <3>4, <3>5 DEF JoinElection
    <2>3. ASSUME NEW n \in Nodes, NEW enabled \in {"true", "false"}, enableElection(n, enabled)
          PROVE  TypeOK'
      <3>1. ElectionTypeOK'
        BY <2>3, ElectionTypes DEF enableElection
      <3>2. modeQ' \in [Nodes -> Seq({"true", "false"})]
        BY <2>3, QueueTypes DEF enableElection
      <3> QED BY <2>3, <3>1, <3>2 DEF enableElection
    <2>4. ASSUME NEW n \in Nodes, ModeCallback(n) PROVE TypeOK'
      <3>1. ElectionTypeOK' /\ cancelVoter' \in [Nodes -> Voters \cup {NoVoter}]
        <4>1. CASE StartVoting(n) /\ cancelVoter[n] = NoVoter
          <5>1. PICK v \in Voters : AddVoter(v) /\ cancelVoter' = [cancelVoter EXCEPT ![n] = v]
            BY <4>1 DEF StartVoting, VotersOf
          <5> QED BY <5>1, ElectionTypes
        <4>2. CASE StopVoting(n) /\ cancelVoter[n] # NoVoter
          <5>1. cancelVoter[n] \in Voters
            BY <4>2
          <5>2. CancelVoter(cancelVoter[n]) /\ cancelVoter' = [cancelVoter EXCEPT ![n] = NoVoter]
            BY <4>2 DEF StopVoting
          <5> QED BY <5>1, <5>2, ElectionTypes
        <4>3. CASE UNCHANGED <<electionVars, cancelVoter>>
          BY <4>3, ElectionTypes
        <4> QED BY <2>4, <4>1, <4>2, <4>3 DEF ModeCallback, StartVoting, StopVoting
      <3>2. modeQ' \in [Nodes -> Seq({"true", "false"})]
        BY <2>4, QueueTypes DEF ModeCallback
      <3> QED BY <2>4, <3>1, <3>2 DEF ModeCallback
    <2>5. ASSUME NEW n \in Nodes, NEW s \in Subs, LeaderCallback(n, s) PROVE TypeOK'
      <3>1. PICK i \in DOMAIN leaderQ[n][s] :
              /\ leaderQ' = [leaderQ EXCEPT ![n][s] = After(@, i)]
              /\ told' = [told EXCEPT ![n][s] = IF @ = 0 THEN 1 ELSE 2]
              /\ IF s = "units" THEN FollowLeader(n, leaderQ[n][s][i])
                 ELSE updateDNS(n, leaderQ[n][s][i])
              /\ UNCHANGED <<electionVars, agentVars, boundVars>>
        BY <2>5, Zenon DEF LeaderCallback
      <3>2. ElectionTypeOK'
        BY <3>1, ElectionTypes
      <3>3. leaderQ[n][s] \in Seq(Nodes) /\ leaderQ[n][s][i] \in Nodes
        <4>1. leaderQ[n] \in [Subs -> Seq(Nodes)]
          OBVIOUS
        <4>2. leaderQ[n][s] \in Seq(Nodes)
          BY <4>1
        <4> QED BY <4>2
      <3>4. leaderQ' \in [Nodes -> [Subs -> Seq(Nodes)]]
        BY <3>1, <3>3, QueueTypes, Zenon
      <3>5. told' \in [Nodes -> [Subs -> 0..2]]
        BY <3>1
      <3>6. units' \in [Nodes -> SUBSET Units] /\ hosts' \in [Nodes -> Nodes \cup {None}]
        BY <3>1, <3>3, UnitsType, Zenon DEF FollowLeader, updateDNS
      <3> QED BY <3>1, <3>2, <3>4, <3>5, <3>6, Zenon
    <2>6. ASSUME NEW v \in Voters, VoterWins(v) PROVE TypeOK'
      <3>1. ElectionTypeOK'
        BY <2>6, ElectionTypes DEF VoterWins
      <3>2. Owner[v] \in Nodes
        OBVIOUS
      <3>3. leaderQ' \in [Nodes -> [Subs -> Seq(Nodes)]]
        BY <2>6, <3>2, QueueTypes DEF VoterWins, PublishLeader
      <3> QED BY <2>6, <3>1, <3>3 DEF VoterWins
    <2>7. ASSUME NEW v \in Voters, VoterRenews(v) PROVE TypeOK'
      <3>1. ElectionTypeOK'
        BY <2>7, ElectionTypes DEF VoterRenews
      <3>2. leaderKey \in Nodes
        BY <2>7 DEF VoterRenews, Renew
      <3>3. leaderQ' \in [Nodes -> [Subs -> Seq(Nodes)]]
        BY <2>7, <3>2 DEF VoterRenews, PublishRenewal
      <3> QED BY <2>7, <3>1, <3>3 DEF VoterRenews
    <2>8. ASSUME NEW v \in Voters, VoterStops(v) PROVE TypeOK'
      BY <2>8, ElectionTypes DEF VoterStops
    <2>9. CASE LeaseExpires
      BY <2>9, ElectionTypes DEF LeaseExpires
    <2>10. ASSUME NEW n \in Nodes, AgentDies(n) PROVE TypeOK'
      <3>1. ElectionTypeOK'
        BY <2>10, ElectionTypes DEF AgentDies
      <3>2. leaderQ' \in [Nodes -> [Subs -> Seq(Nodes)]] /\ modeQ' \in [Nodes -> Seq({"true", "false"})]
        BY <2>10 DEF AgentDies
      <3>3. told' \in [Nodes -> [Subs -> 0..2]]
        BY <2>10 DEF AgentDies
      <3>4. hosts' \in [Nodes -> Nodes \cup {None}]
        BY <2>10, Zenon DEF AgentDies
      <3> QED BY <2>10, <3>1, <3>2, <3>3, <3>4 DEF AgentDies
    <2>11. CASE UNCHANGED vars
      BY <2>11, ElectionTypes DEF vars
    <2> QED
      BY <2>1, <2>2, <2>3, <2>4, <2>5, <2>6, <2>7, <2>8, <2>9, <2>10, <2>11, Zenon DEF Next
  <1> QED BY <1>1, <1>2, PTL DEF Spec

(***************************************************************************)
(* The steps of the election that are not the agent's own doing neither    *)
(* add nor cancel a voter.                                                 *)
(***************************************************************************)
LEMMA LiveVotersKept ==
    ASSUME ElectionTypeOK, NEW m \in Nodes,
           \/ \E v \in Voters : Win(v) \/ Renew(v) \/ VoterExit(v)
           \/ Expire
           \/ UNCHANGED electionVars
           \/ \E n \in Nodes : n # m /\ Crash(n)
           \/ \E v \in Voters : Owner[v] # m /\ (AddVoter(v) \/ CancelVoter(v))
    PROVE  LiveVoters(m)' = LiveVoters(m)
  <1> USE VotersAssumption DEF ElectionTypeOK, Status, LiveVoters, VotersOf
  <1>1. CASE \E v \in Voters : Win(v) \/ Renew(v) \/ VoterExit(v)
    BY <1>1 DEF Win, Renew, VoterExit, AfterElect
  <1>2. CASE Expire \/ UNCHANGED electionVars
    BY <1>2 DEF Expire, electionVars
  <1>3. CASE \E n \in Nodes : n # m /\ Crash(n)
    BY <1>3 DEF Crash
  <1>4. CASE \E v \in Voters : Owner[v] # m /\ (AddVoter(v) \/ CancelVoter(v))
    BY <1>4 DEF AddVoter, CancelVoter
  <1> QED BY <1>1, <1>2, <1>3, <1>4

(***************************************************************************)
(* Adding a voter, cancelling one, and the death of the agent.             *)
(***************************************************************************)
LEMMA LiveVotersChanged ==
    ASSUME ElectionTypeOK, NEW n \in Nodes
    PROVE  /\ \A v \in VotersOf(n) : AddVoter(v) => LiveVoters(n)' = LiveVoters(n) \cup {v}
           /\ \A v \in Voters : CancelVoter(v) => LiveVoters(n)' = LiveVoters(n) \ {v}
           /\ Crash(n) => LiveVoters(n)' = {}
  <1> USE VotersAssumption DEF ElectionTypeOK, Status, LiveVoters, VotersOf
  <1>1. ASSUME NEW v \in VotersOf(n), AddVoter(v) PROVE LiveVoters(n)' = LiveVoters(n) \cup {v}
    BY <1>1 DEF AddVoter
  <1>2. ASSUME NEW v \in Voters, CancelVoter(v) PROVE LiveVoters(n)' = LiveVoters(n) \ {v}
    BY <1>2 DEF CancelVoter
  <1>3. Crash(n) => LiveVoters(n)' = {}
    BY DEF Crash
  <1> QED BY <1>1, <1>2, <1>3

(***************************************************************************)
(* startLeaderClient and its election callback never lose track of a       *)
(* voter: the one cancelVoter cancels is the only one that is live.        *)
(***************************************************************************)
THEOREM AgentKeepsAccount == Spec => []VoterBookkeeping
  <1>1. Init => VoterBookkeeping
    BY VotersAssumption, Zenon DEF Init, ElectionInit, VoterBookkeeping, Accounted, LiveVoters, VotersOf
  <1>2. TypeOK /\ VoterBookkeeping /\ [Next]_vars => VoterBookkeeping'
    <2> SUFFICES ASSUME TypeOK, VoterBookkeeping, [Next]_vars,
                        NEW m \in Nodes
                 PROVE  Accounted(m)'
      BY DEF VoterBookkeeping
    <2> USE VotersAssumption, AgentAssumption DEF Accounted
    <2>0. /\ ElectionTypeOK
          /\ up \in [Nodes -> {"down", "starting", "up"}]
          /\ cancelVoter \in [Nodes -> Voters \cup {NoVoter}]
          /\ modeQ \in [Nodes -> Seq({"true", "false"})]
          /\ Accounted(m)
      BY DEF TypeOK, VoterBookkeeping
    <2>1. ASSUME NEW n \in Nodes, StartAgent(n)
          PROVE  Accounted(m)'
      BY <2>0, <2>1, LiveVotersKept, Zenon DEF StartAgent
    <2>2. ASSUME NEW n \in Nodes, JoinElection(n)
          PROVE  Accounted(m)'
      <3>1. /\ up[n] = "starting" /\ up' = [up EXCEPT ![n] = "up"]
            /\ \A k \in Nodes : k # n => modeQ'[k] = modeQ[k]
        BY <2>0, <2>2 DEF JoinElection
      <3>2. CASE JoinAsVoter(n)
        <4>1. PICK v \in VotersOf(n) : AddVoter(v) /\ cancelVoter' = [cancelVoter EXCEPT ![n] = v]
          BY <3>2, Zenon DEF JoinAsVoter
        <4>2. v \in Voters /\ Owner[v] = n /\ v # NoVoter
          BY DEF VotersOf
        <4>3. CASE m = n
          <5>1. LiveVoters(n)' = LiveVoters(n) \cup {v}
            BY <2>0, <4>1, LiveVotersChanged
          <5> QED BY <2>0, <3>1, <4>1, <4>2, <4>3, <5>1
        <4>4. CASE m # n
          BY <2>0, <3>1, <4>1, <4>2, <4>4, LiveVotersKept, Zenon
        <4> QED BY <4>3, <4>4
      <3>3. CASE JoinPaused(n) \/ JoinAsNode(n)
        BY <2>0, <3>1, <3>3, LiveVotersKept DEF JoinPaused, JoinAsNode
      <3> QED BY <2>2, <3>2, <3>3 DEF JoinElection
    <2>3. ASSUME NEW n \in Nodes, NEW enabled, enableElection(n, enabled)
          PROVE  Accounted(m)'
      BY <2>0, <2>3, LiveVotersKept DEF enableElection
    <2>4. ASSUME NEW n \in Nodes, NEW s \in Subs, LeaderCallback(n, s)
          PROVE  Accounted(m)'
      BY <2>0, <2>4, LiveVotersKept DEF LeaderCallback, agentVars
    <2>5. ASSUME NEW n \in Nodes, AgentDies(n)
          PROVE  Accounted(m)'
      BY <2>0, <2>5, LiveVotersKept, LiveVotersChanged, Zenon DEF AgentDies
    <2>6. ASSUME NEW v \in Voters, VoterWins(v) \/ VoterRenews(v) \/ VoterStops(v)
          PROVE  Accounted(m)'
      BY <2>0, <2>6, LiveVotersKept DEF VoterWins, VoterRenews, VoterStops, agentVars
    <2>7. CASE LeaseExpires \/ UNCHANGED vars
      BY <2>0, <2>7, LiveVotersKept DEF LeaseExpires, vars, agentVars
    <2>8. ASSUME NEW n \in Nodes, ModeCallback(n)
          PROVE  Accounted(m)'
      <3>1. up[n] = "up" /\ UNCHANGED up
        <4>1. modeQ[n] # <<>>
          BY <2>0, <2>8 DEF ModeCallback
        <4> QED BY <2>8, <4>1 DEF ModeCallback, VoterBookkeeping
      <3>2. \A k \in Nodes : k # n => modeQ'[k] = modeQ[k]
        BY <2>0, <2>8 DEF ModeCallback
      <3>3. CASE StartVoting(n) /\ cancelVoter[n] = NoVoter
        <4>1. PICK v \in VotersOf(n) : AddVoter(v) /\ cancelVoter' = [cancelVoter EXCEPT ![n] = v]
          BY <3>3 DEF StartVoting
        <4>2. v \in Voters /\ Owner[v] = n /\ v # NoVoter
          BY DEF VotersOf
        <4>3. CASE m = n
          <5>1. LiveVoters(n)' = LiveVoters(n) \cup {v}
            BY <2>0, <4>1, LiveVotersChanged, Zenon
          <5> QED BY <2>0, <3>1, <3>3, <4>1, <4>2, <4>3, <5>1
        <4>4. CASE m # n
          BY <2>0, <3>1, <3>2, <4>1, <4>2, <4>4, LiveVotersKept, Zenon
        <4> QED BY <4>3, <4>4
      <3>4. CASE StopVoting(n) /\ cancelVoter[n] # NoVoter
        <4>1. CancelVoter(cancelVoter[n]) /\ cancelVoter' = [cancelVoter EXCEPT ![n] = NoVoter]
          BY <3>4 DEF StopVoting
        <4>2. cancelVoter[n] \in Voters /\ Owner[cancelVoter[n]] = n
          BY <2>0, <3>4 DEF VoterBookkeeping, LiveVoters, VotersOf
        <4>3. CASE m = n
          <5>1. LiveVoters(n)' = LiveVoters(n) \ {cancelVoter[n]}
            BY <2>0, <4>1, <4>2, LiveVotersChanged
          <5> QED BY <2>0, <3>1, <4>1, <4>3, <5>1
        <4>4. CASE m # n
          BY <2>0, <3>1, <3>2, <4>1, <4>2, <4>4, LiveVotersKept, Zenon
        <4> QED BY <4>3, <4>4
      <3>5. CASE UNCHANGED <<electionVars, cancelVoter>>
        BY <2>0, <3>1, <3>2, <3>5, LiveVotersKept
      <3> QED BY <2>8, <3>3, <3>4, <3>5 DEF ModeCallback, StartVoting, StopVoting
    <2> QED
      BY <2>1, <2>2, <2>3, <2>4, <2>5, <2>6, <2>7, <2>8 DEF Next
  <1> QED BY <1>1, <1>2, AgentTypeCorrect, PTL DEF Spec

(***************************************************************************)
(* A pause that the running agent has acted on holds until it is resumed,  *)
(* with the watches PlanetAgent assumes.                                   *)
(***************************************************************************)
THEOREM AgentHoldsPause == Spec => PauseHolds
  <1>1. TypeOK /\ [Next]_vars =>
          [\A n \in Nodes : up[n] = "up" /\ Paused(n) /\ electionKey'[n] = "false"
                            => LiveVoters(n)' = {}]_vars
    <2> SUFFICES ASSUME TypeOK, Next,
                        NEW m \in Nodes, up[m] = "up", Paused(m), electionKey'[m] = "false"
                 PROVE  LiveVoters(m)' = {}
      OBVIOUS
    <2> USE VotersAssumption, AgentAssumption
    <2>0. ElectionTypeOK /\ LiveVoters(m) = {} /\ modeQ[m] = <<>>
      BY DEF TypeOK, Paused
    <2>1. ASSUME NEW n \in Nodes, StartAgent(n) \/ (\E e : enableElection(n, e))
          PROVE  LiveVoters(m)' = {}
      BY <2>0, <2>1, LiveVotersKept DEF StartAgent, enableElection
    <2>2. ASSUME NEW n \in Nodes, NEW s \in Subs, LeaderCallback(n, s)
          PROVE  LiveVoters(m)' = {}
      BY <2>0, <2>2, LiveVotersKept, Zenon DEF LeaderCallback
    <2>3. ASSUME NEW n \in Nodes, JoinElection(n)
          PROVE  LiveVoters(m)' = {}
      <3>1. n # m
        BY <2>3 DEF JoinElection
      <3>2. \/ UNCHANGED electionVars
            \/ \E v \in Voters : Owner[v] # m /\ AddVoter(v)
        BY <2>3, <3>1, Zenon DEF JoinElection, JoinAsVoter, JoinPaused, JoinAsNode, VotersOf
      <3> QED BY <2>0, <3>2, LiveVotersKept
    <2>4. ASSUME NEW n \in Nodes, ModeCallback(n)
          PROVE  LiveVoters(m)' = {}
      <3>1. n # m
        BY <2>0, <2>4 DEF ModeCallback
      <3>2. \/ UNCHANGED electionVars
            \/ \E v \in Voters : Owner[v] # m /\ AddVoter(v)
            \/ CancelVoter(cancelVoter[n]) /\ cancelVoter[n] \in Voters
        BY <2>4, <3>1, Zenon DEF ModeCallback, StartVoting, StopVoting, VotersOf, TypeOK
      <3> QED BY <2>0, <3>2, LiveVotersKept, LiveVotersChanged, Zenon
    <2>5. ASSUME NEW n \in Nodes, AgentDies(n)
          PROVE  LiveVoters(m)' = {}
      BY <2>0, <2>5, LiveVotersKept, LiveVotersChanged, Zenon DEF AgentDies
    <2>6. ASSUME NEW v \in Voters, VoterWins(v) \/ VoterRenews(v) \/ VoterStops(v)
          PROVE  LiveVoters(m)' = {}
      BY <2>0, <2>6, LiveVotersKept, Zenon DEF VoterWins, VoterRenews, VoterStops
    <2>7. CASE LeaseExpires
      BY <2>0, <2>7, LiveVotersKept, Zenon DEF LeaseExpires
    <2> QED BY <2>1, <2>2, <2>3, <2>4, <2>5, <2>6, <2>7 DEF Next
  <1> QED BY <1>1, AgentTypeCorrect, PTL DEF Spec, PauseHolds

(***************************************************************************)
(* A watch's list ends with the value pushed last, and what a callback     *)
(* leaves of it ends the same way.                                         *)
(***************************************************************************)
LEMMA QueueEnds ==
    ASSUME NEW S, NEW q \in Seq(S)
    PROVE  /\ \A x \in S : Push(q, x) # <<>> /\ Push(q, x)[Len(Push(q, x))] = x
           /\ \A i \in DOMAIN q : IF After(q, i) = <<>> THEN i = Len(q)
                                  ELSE After(q, i)[Len(After(q, i))] = q[Len(q)]
  <1>1. ASSUME NEW r \in Seq(S), NEW x \in S
        PROVE  Append(r, x) # <<>> /\ Append(r, x)[Len(Append(r, x))] = x
    OBVIOUS
  <1>2. ASSUME NEW x \in S
        PROVE  Push(q, x) # <<>> /\ Push(q, x)[Len(Push(q, x))] = x
    <2>1. CASE Len(q) < MaxLag
      BY <1>1, <2>1 DEF Push
    <2>2. CASE ~(Len(q) < MaxLag)
      <3>1. Tail(q) \in Seq(S)
        BY <2>2, AgentAssumption
      <3> QED BY <1>1, <2>2, <3>1, Zenon DEF Push
    <2> QED BY <2>1, <2>2
  <1>3. ASSUME NEW i \in DOMAIN q
        PROVE  IF After(q, i) = <<>> THEN i = Len(q)
               ELSE After(q, i)[Len(After(q, i))] = q[Len(q)]
    <2>1. /\ i \in 1..Len(q) /\ Len(q) \in Nat
          /\ After(q, i) \in Seq(S)
          /\ Len(After(q, i)) = Len(q) - i
          /\ \A j \in 1..(Len(q) - i) : After(q, i)[j] = q[i + j]
      BY DEF After
    <2>2. CASE i = Len(q)
      <3>1. After(q, i) = <<>>
        BY <2>1, <2>2
      <3> QED BY <2>2, <3>1
    <2>3. CASE i # Len(q)
      <3>1. Len(q) - i \in 1..(Len(q) - i) /\ i + (Len(q) - i) = Len(q)
        <4> DEFINE n == Len(q)
        <4>1. n \in Nat /\ i \in 1..n /\ i # n
          BY <2>1, <2>3
        <4> HIDE DEF n
        <4>2. n - i \in 1..(n - i) /\ i + (n - i) = n
          BY <4>1
        <4> QED BY <4>2 DEF n
      <3>2. After(q, i) # <<>>
        BY <2>1, <3>1
      <3> QED BY <2>1, <3>1, <3>2
    <2> QED BY <2>2, <2>3
  <1> QED BY <1>2, <1>3

(***************************************************************************)
(* Only a voter that wins, and the lease running out, change the leader.   *)
(***************************************************************************)
LEMMA LeaderKept ==
    ASSUME \/ \E v \in Voters : AddVoter(v) \/ CancelVoter(v) \/ VoterExit(v) \/ Renew(v)
           \/ \E n \in Nodes : Crash(n)
           \/ UNCHANGED electionVars
    PROVE  leaderKey' = leaderKey
  BY DEF AddVoter, CancelVoter, VoterExit, Renew, Crash, electionVars

(***************************************************************************)
(* If systemctl and the hosts file never fail, and no master stops its     *)
(* units at start (election enabled), the callbacks keep every node        *)
(* showing the leader as soon as it has been told everything, with the     *)
(* watches PlanetAgent assumes.                                            *)
(***************************************************************************)
THEOREM AgentCatchesUp ==
    ASSUME ~CommandsFail,
           "units" \in Subs => \A n \in Masters : ElectionEnabled[n] = "true"
    PROVE  Spec => []CallbacksCatchUp
  <1>1. Init => CallbacksCatchUp
    BY DEF Init, CallbacksCatchUp, Watching
  <1>2. TypeOK /\ CallbacksCatchUp /\ [Next]_vars => CallbacksCatchUp'
    <2> SUFFICES ASSUME TypeOK, CallbacksCatchUp, [Next]_vars,
                        NEW m \in Nodes, NEW t \in Subs,
                        Watching(m, t)', leaderKey' # None
                 PROVE  CaughtUp(m, t)'
      BY DEF CallbacksCatchUp
    <2> USE VotersAssumption, AgentAssumption
    <2>0. /\ leaderKey \in Nodes \cup {None}
          /\ leaderQ \in [Nodes -> [Subs -> Seq(Nodes)]]
          /\ leaderQ[m][t] \in Seq(Nodes)
          /\ up \in [Nodes -> {"down", "starting", "up"}]
          /\ units \in [Nodes -> SUBSET Units]
          /\ hosts \in [Nodes -> Nodes \cup {None}]
      <3>1. leaderQ[m] \in [Subs -> Seq(Nodes)]
        BY DEF TypeOK
      <3> QED BY <3>1 DEF TypeOK, ElectionTypeOK
    <2>1. t \in {"units", "dns"}
      BY Zenon
    <2>2. ASSUME Watching(m, t), leaderKey' = leaderKey, leaderQ'[m][t] = leaderQ[m][t],
                 units'[m] = units[m] \/ t = "dns", hosts'[m] = hosts[m]
          PROVE  CaughtUp(m, t)'
      BY <2>1, <2>2 DEF CallbacksCatchUp, CaughtUp, Shows
    <2>3. ASSUME leaderKey' # None, leaderQ'[m][t] = <<leaderKey'>>
          PROVE  CaughtUp(m, t)'
      BY <2>3 DEF CaughtUp
    <2>4. ASSUME NEW n \in Nodes, StartAgent(n) PROVE CaughtUp(m, t)'
      <3>1. leaderKey' = leaderKey /\ UNCHANGED <<units, hosts>>
        BY <2>4, LeaderKept DEF StartAgent, effectVars
      <3>2. CASE m = n
        <4>1. t = "units" /\ up'[n] = "starting"
          BY <2>0, <2>4, <3>2 DEF StartAgent, Watching
        <4>2. leaderQ'[m][t] = From(leaderKey, None)
          BY <2>0, <2>4, <3>2, <4>1 DEF StartAgent
        <4> QED BY <2>3, <3>1, <4>2 DEF From
      <3>3. CASE m # n
        <4>1. leaderQ'[m] = leaderQ[m] /\ up'[m] = up[m]
          BY <2>0, <2>4, <3>3 DEF StartAgent
        <4> QED BY <2>2, <3>1, <4>1 DEF Watching
      <3> QED BY <3>2, <3>3
    <2>5. ASSUME NEW n \in Nodes, JoinElection(n) PROVE CaughtUp(m, t)'
      <3>1. leaderKey' = leaderKey
        BY <2>5, LeaderKept, Zenon DEF JoinElection, JoinAsVoter, JoinPaused, JoinAsNode, VotersOf
      <3>2. hosts' = hosts /\ (units' = units \/ t = "dns")
        BY <2>1, <2>5 DEF JoinElection, JoinAsVoter, JoinPaused, JoinAsNode
      <3>3. CASE m = n /\ t = "dns"
        <4>1. leaderQ'[m][t] = From(leaderKey, None)
          BY <2>0, <2>5, <3>3, Zenon DEF JoinElection
        <4> QED BY <2>3, <3>1, <4>1 DEF From
      <3>4. CASE m # n \/ t = "units"
        <4>1. leaderQ'[m][t] = leaderQ[m][t]
          BY <2>0, <2>5, <3>4, Zenon DEF JoinElection
        <4>2. Watching(m, t)
          BY <2>0, <2>5, <3>4, Zenon DEF JoinElection, Watching
        <4> QED BY <2>2, <3>1, <3>2, <4>1, <4>2
      <3> QED BY <2>1, <3>3, <3>4
    <2>6. ASSUME NEW n \in Nodes, NEW enabled, enableElection(n, enabled) PROVE CaughtUp(m, t)'
      BY <2>2, <2>6, LeaderKept, Zenon DEF enableElection, feedVars, effectVars, Watching
    <2>7. ASSUME NEW n \in Nodes, ModeCallback(n) PROVE CaughtUp(m, t)'
      <3>1. leaderKey' = leaderKey
        <4>1. \/ \E v \in Voters : AddVoter(v)
              \/ \E v : CancelVoter(v)
              \/ UNCHANGED electionVars
          BY <2>7 DEF ModeCallback, StartVoting, StopVoting, VotersOf
        <4> QED BY <4>1 DEF AddVoter, CancelVoter, electionVars
      <3> QED BY <2>2, <2>7, <3>1 DEF ModeCallback, feedVars, effectVars, Watching
    <2>8. ASSUME NEW n \in Nodes, NEW s \in Subs, LeaderCallback(n, s) PROVE CaughtUp(m, t)'
      <3>1. PICK i \in DOMAIN leaderQ[n][s] :
              /\ leaderQ' = [leaderQ EXCEPT ![n][s] = After(@, i)]
              /\ IF s = "units" THEN FollowLeader(n, leaderQ[n][s][i])
                 ELSE updateDNS(n, leaderQ[n][s][i])
              /\ UNCHANGED <<electionVars, agentVars, boundVars>>
        BY <2>8, Zenon DEF LeaderCallback
      <3>2. leaderKey' = leaderKey /\ up' = up
        BY <3>1, LeaderKept DEF agentVars
      <3>3. Watching(m, t)
        BY <3>2 DEF Watching
      <3>4. CASE m = n /\ t = s
        <4>1. leaderQ'[m][t] = After(leaderQ[m][t], i)
          BY <2>0, <3>1, <3>4
        <4>2. leaderQ[m][t] # <<>>
          BY <2>0, <3>1, <3>4
        <4>3. leaderQ[m][t][Len(leaderQ[m][t])] = leaderKey
          BY <3>2, <3>3, <4>2 DEF CallbacksCatchUp, CaughtUp
        <4>0. IF After(leaderQ[m][t], i) = <<>> THEN i = Len(leaderQ[m][t])
              ELSE After(leaderQ[m][t], i)[Len(After(leaderQ[m][t], i))] = leaderQ[m][t][Len(leaderQ[m][t])]
          <5>1. i \in DOMAIN leaderQ[m][t]
            BY <3>4
          <5> QED BY <2>0, <5>1, QueueEnds, Zenon
        <4>4. CASE After(leaderQ[m][t], i) = <<>>
          <5>1. leaderQ[m][t][i] = leaderKey
            BY <4>0, <4>3, <4>4
          <5>2. CASE t = "units"
            <6>1. unitsCommand(m, IF leaderKey = m THEN "start" ELSE "stop")
              BY <3>1, <3>4, <5>1, <5>2 DEF FollowLeader
            <6>2. units'[m] = IF leaderKey = m THEN units[m] \cup (Units \ {}) ELSE units[m] \cap {}
              BY <2>0, <6>1, Zenon DEF unitsCommand
            <6>3. units[m] \subseteq Units
              BY <2>0
            <6>4. units'[m] = IF m = leaderKey THEN Units ELSE {}
              BY <6>2, <6>3
            <6> QED BY <3>2, <4>1, <4>4, <5>2, <6>4 DEF CaughtUp, Shows
          <5>3. CASE t = "dns"
            <6>1. hosts'[m] = leaderKey
              BY <2>0, <3>1, <3>4, <5>1, <5>3 DEF updateDNS
            <6> QED BY <3>2, <4>1, <4>4, <5>3, <6>1 DEF CaughtUp, Shows
          <5> QED BY <2>1, <5>2, <5>3
        <4>5. CASE After(leaderQ[m][t], i) # <<>>
          <5>1. After(leaderQ[m][t], i)[Len(After(leaderQ[m][t], i))] = leaderKey
            BY <4>0, <4>3, <4>5
          <5> QED BY <3>2, <4>1, <4>5, <5>1 DEF CaughtUp
        <4> QED BY <4>4, <4>5
      <3>5. CASE ~(m = n /\ t = s)
        <4>1. leaderQ'[m][t] = leaderQ[m][t]
          BY <2>0, <3>1, <3>5
        <4>2. CASE t = "units"
          <5>1. units'[m] = units[m]
            BY <2>0, <2>1, <3>1, <3>5, <4>2, Zenon DEF FollowLeader, unitsCommand, updateDNS
          <5> QED BY <3>2, <3>3, <4>1, <4>2, <5>1 DEF CallbacksCatchUp, CaughtUp, Shows
        <4>3. CASE t = "dns"
          <5>1. hosts'[m] = hosts[m]
            BY <2>0, <2>1, <3>1, <3>5, <4>3, Zenon DEF FollowLeader, updateDNS
          <5> QED BY <3>2, <3>3, <4>1, <4>3, <5>1 DEF CallbacksCatchUp, CaughtUp, Shows
        <4> QED BY <2>1, <4>2, <4>3
      <3> QED BY <3>4, <3>5
    <2>9. ASSUME NEW v \in Voters, VoterWins(v) PROVE CaughtUp(m, t)'
      <3>1. leaderKey' = Owner[v] /\ Owner[v] \in Nodes
        BY <2>9 DEF VoterWins, Win
      <3>2. Watching(m, t)
        BY <2>9, Zenon DEF VoterWins, agentVars, Watching
      <3>3. leaderQ'[m][t] = Push(leaderQ[m][t], Owner[v])
        BY <2>9, <3>2, Zenon DEF VoterWins, PublishLeader
      <3> QED BY <2>0, <3>1, <3>3, QueueEnds DEF CaughtUp
    <2>10. ASSUME NEW v \in Voters, VoterRenews(v) PROVE CaughtUp(m, t)'
      <3>1. leaderKey' = leaderKey /\ UNCHANGED <<up, units, hosts>>
        BY <2>10, LeaderKept, Zenon DEF VoterRenews, agentVars, effectVars
      <3>2. leaderQ'[m][t] \in {<<leaderKey>>, leaderQ[m][t]}
        BY <2>10, Zenon DEF VoterRenews, PublishRenewal
      <3> QED BY <2>2, <2>3, <3>1, <3>2 DEF Watching
    <2>11. ASSUME NEW v \in Voters, VoterStops(v) PROVE CaughtUp(m, t)'
      BY <2>2, <2>11, LeaderKept DEF VoterStops, agentVars, feedVars, effectVars, Watching
    <2>12. CASE LeaseExpires
      BY <2>12, Zenon DEF LeaseExpires, Expire
    <2>13. ASSUME NEW n \in Nodes, AgentDies(n) PROVE CaughtUp(m, t)'
      <3>1. m # n /\ up'[m] = up[m]
        BY <2>0, <2>13 DEF AgentDies, Watching
      <3>2. leaderQ'[m] = leaderQ[m] /\ units' = units /\ hosts'[m] = hosts[m]
        BY <2>0, <2>13, <3>1 DEF AgentDies
      <3>3. leaderKey' = leaderKey
        BY <2>13, LeaderKept, Zenon DEF AgentDies
      <3> QED BY <2>2, <3>1, <3>2, <3>3 DEF Watching
    <2>14. CASE UNCHANGED vars
      BY <2>2, <2>14, LeaderKept DEF vars, agentVars, feedVars, effectVars, Watching
    <2> QED
      BY <2>4, <2>5, <2>6, <2>7, <2>8, <2>9, <2>10, <2>11, <2>12, <2>13, <2>14 DEF Next
  <1> QED BY <1>1, <1>2, AgentTypeCorrect, PTL DEF Spec
=============================================================================
