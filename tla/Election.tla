------------------------------ MODULE Election ------------------------------
(***************************************************************************)
(* What the client of coordinate/leader offers the agent: voters that are  *)
(* added and cancelled, and a leader key that a running voter may take     *)
(* when it is free.  Each elect() is one step; LeaderVoters has the steps  *)
(* it is made of and is shown to implement this module.                    *)
(***************************************************************************)
CONSTANTS Nodes,    \* public IPs: the values voters write to the key
          Voters,   \* goroutine slots, each usable for one AddVoter at a time
          Owner,    \* the node whose agent runs the goroutine of a slot
          None      \* the leader key does not exist

ASSUME VotersAssumption ==
    /\ None \notin Nodes
    /\ Owner \in [Voters -> Nodes]

VARIABLES leaderKey,  \* value of the leader key, or None when it is absent
          status      \* of a slot: see Status

electionVars == <<leaderKey, status>>

(***************************************************************************)
(* none: no goroutine.  live: it takes part.  done: its context has been   *)
(* cancelled, it has not noticed.  dead: its process is gone, its last     *)
(* request is still on the way.                                            *)
(***************************************************************************)
Status == {"none", "live", "done", "dead"}

ElectionTypeOK ==
    /\ leaderKey \in Nodes \cup {None}
    /\ status \in [Voters -> Status]

ElectionInit == leaderKey = None /\ status = [v \in Voters |-> "none"]

VotersOf(n) == {v \in Voters : Owner[v] = n}
-----------------------------------------------------------------------------
AddVoter(v) ==
    /\ status[v] = "none"
    /\ status' = [status EXCEPT ![v] = "live"]
    /\ UNCHANGED leaderKey

CancelVoter(v) ==
    /\ status[v] = "live"
    /\ status' = [status EXCEPT ![v] = "done"]
    /\ UNCHANGED leaderKey

\* Variant: cancelling only restarts the voter.
VoterRestarts(v) ==
    /\ status[v] \in {"done", "dead"}
    /\ status' = [status EXCEPT ![v] = "live"]
    /\ UNCHANGED leaderKey

VoterExit(v) ==
    /\ status[v] \in {"done", "dead"}
    /\ status' = [status EXCEPT ![v] = "none"]
    /\ UNCHANGED leaderKey

(***************************************************************************)
(* elect() creates the key, or extends the own lease.  The request of a    *)
(* dead process is its last.                                               *)
(***************************************************************************)
AfterElect(v) ==
    status' = [status EXCEPT ![v] = IF status[v] = "dead" THEN "none" ELSE status[v]]

Win(v) ==
    /\ status[v] # "none" /\ leaderKey = None
    /\ leaderKey' = Owner[v]
    /\ AfterElect(v)

Renew(v) ==
    /\ status[v] # "none" /\ leaderKey = Owner[v]
    /\ AfterElect(v)
    /\ UNCHANGED leaderKey

Expire ==
    /\ leaderKey # None
    /\ leaderKey' = None
    /\ UNCHANGED status

(***************************************************************************)
(* The agent of node n dies; any of its voters may have a request under    *)
(* way.                                                                    *)
(***************************************************************************)
Crash(n) ==
    /\ \E inFlight \in SUBSET {v \in VotersOf(n) : status[v] # "none"} :
          status' = [v \in Voters |-> IF v \in inFlight THEN "dead"
                                      ELSE IF v \in VotersOf(n) THEN "none" ELSE status[v]]
    /\ UNCHANGED leaderKey

ElectionNext ==
    \/ \E v \in Voters : \/ AddVoter(v) \/ CancelVoter(v) \/ VoterExit(v)
                         \/ Win(v) \/ Renew(v)
    \/ \E n \in Nodes : Crash(n)
    \/ Expire

ElectionSpec == ElectionInit /\ [][ElectionNext]_electionVars

(***************************************************************************)
(* While there is no leader, one of the live voters gets the key; a        *)
(* cancelled one notices; a lease nobody renews runs out.                  *)
(***************************************************************************)
ExpireUnrenewed ==
    /\ \A v \in VotersOf(leaderKey) : status[v] = "none"
    /\ Expire

SomeoneWins == \E v \in Voters : status[v] = "live" /\ Win(v)

ElectionFairness ==
    /\ WF_electionVars(SomeoneWins)
    /\ \A v \in Voters : WF_electionVars(VoterExit(v))
    /\ WF_electionVars(ExpireUnrenewed)

ElectionFairSpec == ElectionSpec /\ ElectionFairness
=============================================================================
