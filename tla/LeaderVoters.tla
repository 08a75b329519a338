---------------------------- MODULE LeaderVoters ----------------------------
(***************************************************************************)
(* The voters of coordinate/leader: goroutines started by AddVoter that    *)
(* keep calling elect() to create the leader key or to extend its lease,   *)
(* against one etcd v2 key with a time-to-live.                            *)
(*                                                                         *)
(* elect() is a Get followed by a conditional Set.  The two are separate   *)
(* steps here, so any other voter's request, an expiry of the lease, a     *)
(* cancellation or a crash can fall between them.                          *)
(*                                                                         *)
(* etcd's ModifiedIndex only grows and elect() only compares it for        *)
(* equality (PrevIndex), so it is kept as one bit per voter: current[v] is *)
(* TRUE while the index in v's last Get response is still the key's.       *)
(***************************************************************************)
CONSTANTS Nodes,    \* public IPs: the values voters write to the key
          Voters,   \* goroutine slots, each usable for one AddVoter at a time
          Owner,    \* the node whose agent runs the goroutine of a slot
          None      \* the leader key does not exist

ASSUME VotersAssumption ==
    /\ None \notin Nodes
    /\ Owner \in [Voters -> Nodes]

VARIABLES leaderKey,  \* value of the leader key, or None when it is absent
          pc,         \* where the goroutine in a slot is
          ctx,        \* its context: live, done (cancelled), or dead with its process
          current     \* its Get response still has the key's ModifiedIndex

voterVars == <<leaderKey, pc, ctx, current>>

(***************************************************************************)
(* none: no goroutine.  start: the goroutine runs, its first elect() is    *)
(* due.  wait: in the select of the voter loop.  create, renew: Get has    *)
(* returned and the Set is on its way.                                     *)
(***************************************************************************)
VoterPC == {"none", "start", "wait", "create", "renew"}

VoterTypeOK ==
    /\ leaderKey \in Nodes \cup {None}
    /\ pc \in [Voters -> VoterPC]
    /\ ctx \in [Voters -> {"live", "done", "dead"}]
    /\ current \in [Voters -> BOOLEAN]

VoterInit ==
    /\ leaderKey = None
    /\ pc = [v \in Voters |-> "none"]
    /\ ctx = [v \in Voters |-> "live"]
    /\ current = [v \in Voters |-> FALSE]

Running(v) == pc[v] # "none"
Live(v) == Running(v) /\ ctx[v] = "live"
NoneCurrent == [v \in Voters |-> FALSE]

(***************************************************************************)
(* A write or an expiry moves the key's ModifiedIndex, so no earlier Get   *)
(* response is current any more.                                           *)
(***************************************************************************)
WriteKey(value) == leaderKey' = value /\ current' = NoneCurrent
-----------------------------------------------------------------------------
AddVoter(v) ==
    /\ pc[v] = "none"
    /\ pc' = [pc EXCEPT ![v] = "start"]
    /\ ctx' = [ctx EXCEPT ![v] = "live"]
    /\ UNCHANGED <<leaderKey, current>>

CancelVoter(v) ==
    /\ Live(v)
    /\ ctx' = [ctx EXCEPT ![v] = "done"]
    /\ UNCHANGED <<leaderKey, pc, current>>

(***************************************************************************)
(* The voter loop's select.  A cancelled voter whose ticker has also fired *)
(* may still pick the ticker, so "done" does not forbid another elect().   *)
(***************************************************************************)
MayElect(v) == pc[v] \in {"start", "wait"}

\* Variant: cancelling only leaves the select, not the loop.
VoterKeepsLooping(v) ==
    pc[v] = "wait" /\ ctx[v] = "done" /\ UNCHANGED voterVars

VoterExit(v) ==
    /\ pc[v] = "wait" /\ ctx[v] = "done"
    /\ pc' = [pc EXCEPT ![v] = "none"]
    /\ UNCHANGED <<leaderKey, ctx, current>>

\* Variant: a missing key is an error like any other.
ElectGivesUp(v) ==
    /\ MayElect(v) /\ leaderKey = None
    /\ pc' = [pc EXCEPT ![v] = "wait"]
    /\ UNCHANGED <<leaderKey, ctx, current>>

(***************************************************************************)
(* elect(): the Get, and what it decides.                                  *)
(***************************************************************************)
ElectNotFound(v) ==
    /\ MayElect(v) /\ leaderKey = None
    /\ pc' = [pc EXCEPT ![v] = "create"]
    /\ UNCHANGED <<leaderKey, ctx, current>>

ElectOtherLeader(v) ==
    /\ MayElect(v) /\ leaderKey \notin {None, Owner[v]}
    /\ pc' = [pc EXCEPT ![v] = "wait"]
    /\ UNCHANGED <<leaderKey, ctx, current>>

\* Variant: renews whoever's lease it is.
ElectAnyLease(v) ==
    /\ MayElect(v) /\ leaderKey # None
    /\ pc' = [pc EXCEPT ![v] = "renew"]
    /\ current' = [current EXCEPT ![v] = TRUE]
    /\ UNCHANGED <<leaderKey, ctx>>

(***************************************************************************)
(* The own lease: with more than half of the term left there is nothing to *)
(* do yet, otherwise it is to be extended.  (LeaseTiming has the clock.)   *)
(***************************************************************************)
ElectOwnLease(v) ==
    /\ MayElect(v) /\ leaderKey = Owner[v]
    /\ \/ pc' = [pc EXCEPT ![v] = "wait"] /\ UNCHANGED current
       \/ /\ pc' = [pc EXCEPT ![v] = "renew"]
          /\ current' = [current EXCEPT ![v] = TRUE]
    /\ UNCHANGED <<leaderKey, ctx>>

(***************************************************************************)
(* The Get is not a quorum read: a lagging etcd member may still answer    *)
(* "not found" when the key exists.  (Other outdated answers either end    *)
(* elect() at once, as a failure does, or lead to a Set that is refused.)  *)
(***************************************************************************)
ElectStaleNotFound(v) ==
    /\ MayElect(v) /\ leaderKey # None
    /\ pc' = [pc EXCEPT ![v] = "create"]
    /\ UNCHANGED <<leaderKey, ctx, current>>

Elect(v) == ElectNotFound(v) \/ ElectOtherLeader(v) \/ ElectOwnLease(v)

ElectFails(v) ==
    /\ MayElect(v)
    /\ pc' = [pc EXCEPT ![v] = "wait"]
    /\ UNCHANGED <<leaderKey, ctx, current>>

(***************************************************************************)
(* elect(): the Set.  Creating needs PrevNoExist, extending needs          *)
(* PrevValue and PrevIndex to match.  Whether or not etcd accepts it the   *)
(* goroutine only logs and goes back to its loop.                          *)
(***************************************************************************)
AfterSet(v) == pc' = [pc EXCEPT ![v] = IF ctx[v] = "dead" THEN "none" ELSE "wait"]

\* Variant: creates the key without PrevNoExist.
SetAlways(v) ==
    /\ pc[v] = "create"
    /\ WriteKey(Owner[v])
    /\ AfterSet(v)
    /\ UNCHANGED ctx

\* Variant: writes something else than the public IP.
SetOtherValue(v) ==
    /\ pc[v] = "create"
    /\ IF leaderKey = None THEN WriteKey(v) ELSE UNCHANGED <<leaderKey, current>>
    /\ AfterSet(v)
    /\ UNCHANGED ctx

SetNoExist(v) ==
    /\ pc[v] = "create"
    /\ IF leaderKey = None THEN WriteKey(Owner[v]) ELSE UNCHANGED <<leaderKey, current>>
    /\ AfterSet(v)
    /\ UNCHANGED ctx

\* Variant: extends without PrevValue and PrevIndex.
SetWithoutCompare(v) ==
    /\ pc[v] = "renew"
    /\ WriteKey(Owner[v])
    /\ AfterSet(v)
    /\ UNCHANGED ctx

CompareAndSet(v) ==
    /\ pc[v] = "renew"
    /\ IF leaderKey = Owner[v] /\ current[v]
       THEN WriteKey(Owner[v]) ELSE UNCHANGED <<leaderKey, current>>
    /\ AfterSet(v)
    /\ UNCHANGED ctx

ElectSet(v) == SetNoExist(v) \/ CompareAndSet(v)

SetLost(v) ==
    /\ pc[v] \in {"create", "renew"}
    /\ AfterSet(v)
    /\ UNCHANGED <<leaderKey, ctx, current>>
-----------------------------------------------------------------------------
(***************************************************************************)
(* The lease runs out.  Nothing bounds how late a renewal can be, so this  *)
(* can happen to any leader.                                               *)
(***************************************************************************)
Expire ==
    /\ leaderKey # None
    /\ WriteKey(None)
    /\ UNCHANGED <<pc, ctx>>

(***************************************************************************)
(* The agent process of node n dies.  A Set that is already on its way to  *)
(* etcd outlives the process.                                              *)
(***************************************************************************)
Crash(n) ==
    /\ \E v \in Voters : Owner[v] = n /\ Running(v)
    /\ pc' = [v \in Voters |-> IF Owner[v] = n /\ MayElect(v) THEN "none" ELSE pc[v]]
    /\ ctx' = [v \in Voters |-> IF Owner[v] = n /\ Running(v) THEN "dead" ELSE ctx[v]]
    /\ UNCHANGED <<leaderKey, current>>

VoterStep(v) == \/ Elect(v) \/ ElectStaleNotFound(v) \/ ElectFails(v)
                \/ ElectSet(v) \/ SetLost(v) \/ VoterExit(v)

VoterNext ==
    \/ \E v \in Voters : AddVoter(v) \/ CancelVoter(v) \/ VoterStep(v)
    \/ \E n \in Nodes : Crash(n)
    \/ Expire

VoterSpec == VoterInit /\ [][VoterNext]_voterVars

(***************************************************************************)
(* The lease of a leader that has no goroutine left to renew it.           *)
(***************************************************************************)
ExpireUnrenewed ==
    /\ \A v \in Voters : Owner[v] = leaderKey => ~Running(v)
    /\ Expire

(***************************************************************************)
(* What the code's scheduling guarantees.  A running voter keeps being     *)
(* scheduled (its ticker never stops) and etcd keeps answering some of its *)
(* requests; every request ends, accepted, refused or lost; Go's select    *)
(* picks at random among ready cases, so a voter that is cancelled does    *)
(* not take the ticker forever; a lease nobody renews runs out.            *)
(***************************************************************************)
VoterFairness ==
    /\ \A v \in Voters :
          /\ SF_voterVars(Elect(v))
          /\ SF_voterVars(ElectSet(v))
          /\ WF_voterVars(ElectSet(v) \/ SetLost(v))
          /\ SF_voterVars(VoterExit(v))
    /\ WF_voterVars(ExpireUnrenewed)

VoterFairSpec == VoterSpec /\ VoterFairness
-----------------------------------------------------------------------------
(***************************************************************************)
(* The conditional requests of elect() implement a lease lock: leadership  *)
(* only ever changes hands through an expiry, whatever stale responses the *)
(* voters act on and whoever crashed in between.                           *)
(***************************************************************************)
Lock == INSTANCE LeaseLock WITH holder <- leaderKey
LeaseLockSpec == Lock!Spec

(***************************************************************************)
(* AddVoter, the voter loop and elect() implement the election service the *)
(* agent is written against, its promises of progress included.            *)
(***************************************************************************)
VoterStatus == [v \in Voters |-> IF Running(v) THEN ctx[v] ELSE "none"]
Service == INSTANCE Election WITH status <- VoterStatus
ElectionService == Service!ElectionFairSpec

(***************************************************************************)
(* A Get response that still carries the key's ModifiedIndex tells the     *)
(* truth: the key still has this voter's own value.  So a renewal that     *)
(* passes the PrevIndex test can only extend the caller's own lease.       *)
(***************************************************************************)
CurrentMeansOwn == \A v \in Voters : current[v] => leaderKey = Owner[v]

(***************************************************************************)
(* Failover: as long as some node keeps a voter running, the cluster is    *)
(* not left without a leader for good.                                     *)
(***************************************************************************)
Failover ==
    (\E v \in Voters : <>[]Live(v)) => []<>(leaderKey # None)

(***************************************************************************)
(* A node that has stopped taking part (its voters cancelled or its agent  *)
(* dead) eventually loses the leadership and does not get it back, even    *)
(* though cancelled goroutines may call elect() again and requests of a    *)
(* dead process may still arrive.                                          *)
(***************************************************************************)
Retires(n) ==
    <>[](\A v \in Voters : Owner[v] = n => ~Live(v)) => <>[](leaderKey # n)
RetiredLoseLead == \A n \in Nodes : Retires(n)
=============================================================================
