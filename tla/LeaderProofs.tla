---------------------------- MODULE LeaderProofs ----------------------------
(***************************************************************************)
(* The client of the leader election.  The voters implement a lease lock,  *)
(* for any number of nodes and voter goroutines.  A leader whose agent     *)
(* runs keeps its lease, for every term, delay and clock skew within the   *)
(* budget of LeaseTiming.  A watch never takes its subscriber back in      *)
(* time, for every history of the key, every limit on errors and any       *)
(* number of restarts, as long as etcd answers Gets with the latest value. *)
(***************************************************************************)
EXTENDS LeaderVoters, LeaseTiming, KeyWatch, TLAPS

(***************************************************************************)
(* Every variable of the election stays in its range.                      *)
(***************************************************************************)
THEOREM VoterTypeCorrect == VoterSpec => []VoterTypeOK
  <1>1. VoterInit => VoterTypeOK
    BY DEF VoterInit, VoterTypeOK, VoterPC
  <1>2. VoterTypeOK /\ [VoterNext]_voterVars => VoterTypeOK'
    <2> SUFFICES ASSUME VoterTypeOK, [VoterNext]_voterVars PROVE VoterTypeOK'
      OBVIOUS
    <2> USE VotersAssumption DEF VoterTypeOK, VoterPC
    <2>1. ASSUME NEW v \in Voters, AddVoter(v) \/ CancelVoter(v) \/ VoterExit(v)
          PROVE  VoterTypeOK'
      BY <2>1 DEF AddVoter, CancelVoter, VoterExit
    <2>2. ASSUME NEW v \in Voters, Elect(v) \/ ElectStaleNotFound(v) \/ ElectFails(v)
          PROVE  VoterTypeOK'
      BY <2>2, Zenon DEF Elect, ElectNotFound, ElectOtherLeader, ElectOwnLease,
                  ElectStaleNotFound, ElectFails
    <2>3. ASSUME NEW v \in Voters, ElectSet(v) \/ SetLost(v)
          PROVE  VoterTypeOK'
      <3>1. pc' \in [Voters -> VoterPC] /\ ctx' = ctx
        BY <2>3 DEF ElectSet, SetNoExist, CompareAndSet, SetLost, AfterSet
      <3>2. leaderKey' \in Nodes \cup {None}
        BY <2>3 DEF ElectSet, SetNoExist, CompareAndSet, SetLost, WriteKey
      <3>3. current' = current \/ current' = NoneCurrent
        BY <2>3 DEF ElectSet, SetNoExist, CompareAndSet, SetLost, WriteKey
      <3>4. current' \in [Voters -> BOOLEAN]
        BY <3>3, Zenon DEF NoneCurrent
      <3> QED BY <3>1, <3>2, <3>4
    <2>4. ASSUME NEW n \in Nodes, Crash(n)
          PROVE  VoterTypeOK'
      BY <2>4 DEF Crash
    <2>5. CASE Expire
      BY <2>5 DEF Expire, WriteKey, NoneCurrent
    <2>6. CASE UNCHANGED voterVars
      BY <2>6 DEF voterVars
    <2> QED BY <2>1, <2>2, <2>3, <2>4, <2>5, <2>6 DEF VoterNext, VoterStep
  <1> QED BY <1>1, <1>2, PTL DEF VoterSpec

(***************************************************************************)
(* A Get response with the key's own ModifiedIndex is never wrong about    *)
(* who the leader is, so elect()'s renewal extends nobody else's lease.    *)
(***************************************************************************)
THEOREM CurrentIsOwn == VoterSpec => []CurrentMeansOwn
  <1>1. VoterInit => CurrentMeansOwn
    BY DEF VoterInit, CurrentMeansOwn
  <1>2. VoterTypeOK /\ CurrentMeansOwn /\ [VoterNext]_voterVars => CurrentMeansOwn'
    <2> SUFFICES ASSUME VoterTypeOK, CurrentMeansOwn, [VoterNext]_voterVars
                 PROVE  CurrentMeansOwn'
      OBVIOUS
    <2> USE VotersAssumption DEF VoterTypeOK, CurrentMeansOwn
    <2>1. ASSUME NEW v \in Voters,
                 AddVoter(v) \/ CancelVoter(v) \/ VoterExit(v) \/ SetLost(v)
          PROVE  CurrentMeansOwn'
      BY <2>1 DEF AddVoter, CancelVoter, VoterExit, SetLost
    <2>2. ASSUME NEW v \in Voters, Elect(v) \/ ElectStaleNotFound(v) \/ ElectFails(v)
          PROVE  CurrentMeansOwn'
      BY <2>2 DEF Elect, ElectNotFound, ElectOtherLeader, ElectOwnLease,
                  ElectStaleNotFound, ElectFails
    <2>3. ASSUME NEW v \in Voters, ElectSet(v)
          PROVE  CurrentMeansOwn'
      BY <2>3 DEF ElectSet, SetNoExist, CompareAndSet, WriteKey, NoneCurrent
    <2>4. ASSUME NEW n \in Nodes, Crash(n)
          PROVE  CurrentMeansOwn'
      BY <2>4 DEF Crash
    <2>5. CASE Expire
      BY <2>5 DEF Expire, WriteKey, NoneCurrent
    <2>6. CASE UNCHANGED voterVars
      BY <2>6 DEF voterVars
    <2> QED BY <2>1, <2>2, <2>3, <2>4, <2>5, <2>6 DEF VoterNext, VoterStep
  <1> QED BY <1>1, <1>2, VoterTypeCorrect, PTL DEF VoterSpec

(***************************************************************************)
(* elect()'s conditional requests implement the lease lock: leadership     *)
(* never moves from one node to another without an expiry in between.      *)
(***************************************************************************)
THEOREM ImplementsLeaseLock == VoterSpec => LeaseLockSpec
  <1>1. VoterInit => Lock!Init
    BY DEF VoterInit, Lock!Init
  <1>2. VoterTypeOK /\ [VoterNext]_voterVars => [Lock!Next]_leaderKey
    <2> SUFFICES ASSUME VoterTypeOK, [VoterNext]_voterVars
                 PROVE  leaderKey' = leaderKey \/ Lock!Next
      OBVIOUS
    <2> USE VotersAssumption DEF VoterTypeOK, Lock!Next, Lock!Acquire, Lock!Lapse
    <2>1. ASSUME NEW v \in Voters,
                 AddVoter(v) \/ CancelVoter(v) \/ VoterExit(v) \/ SetLost(v)
          PROVE  leaderKey' = leaderKey
      BY <2>1 DEF AddVoter, CancelVoter, VoterExit, SetLost
    <2>2. ASSUME NEW v \in Voters, Elect(v) \/ ElectStaleNotFound(v) \/ ElectFails(v)
          PROVE  leaderKey' = leaderKey
      BY <2>2 DEF Elect, ElectNotFound, ElectOtherLeader, ElectOwnLease,
                  ElectStaleNotFound, ElectFails
    <2>3. ASSUME NEW v \in Voters, ElectSet(v)
          PROVE  leaderKey' = leaderKey \/ Lock!Next
      BY <2>3 DEF ElectSet, SetNoExist, CompareAndSet, WriteKey
    <2>4. ASSUME NEW n \in Nodes, Crash(n)
          PROVE  leaderKey' = leaderKey
      BY <2>4 DEF Crash
    <2>5. CASE Expire
      BY <2>5 DEF Expire, WriteKey
    <2>6. CASE UNCHANGED voterVars
      BY <2>6 DEF voterVars
    <2> QED BY <2>1, <2>2, <2>3, <2>4, <2>5, <2>6 DEF VoterNext, VoterStep
  <1> QED BY <1>1, <1>2, VoterTypeCorrect, PTL DEF VoterSpec, LeaseLockSpec, Lock!Spec

(***************************************************************************)
(* AddVoter, the voter loop and elect() implement the election service     *)
(* that the agent is written against (its safety; progress is left to TLC).*)
(***************************************************************************)
THEOREM ImplementsElection == VoterSpec => Service!ElectionSpec
  <1>1. VoterInit => Service!ElectionInit
    BY DEF VoterInit, Service!ElectionInit, VoterStatus, Running
  <1>2. VoterTypeOK /\ [VoterNext]_voterVars
          => [Service!ElectionNext]_(Service!electionVars)
    <2> SUFFICES ASSUME VoterTypeOK, [VoterNext]_voterVars
                 PROVE  Service!ElectionNext \/ UNCHANGED <<leaderKey, VoterStatus>>
      BY DEF Service!electionVars
    <2> USE VotersAssumption DEF VoterTypeOK, VoterPC, VoterStatus, Running
    <2>1. ASSUME NEW v \in Voters, AddVoter(v) PROVE Service!AddVoter(v)
      BY <2>1, Zenon DEF AddVoter, Service!AddVoter
    <2>2. ASSUME NEW v \in Voters, CancelVoter(v) PROVE Service!CancelVoter(v)
      BY <2>2, Zenon DEF CancelVoter, Live, Service!CancelVoter
    <2>3. ASSUME NEW v \in Voters, VoterExit(v) PROVE Service!VoterExit(v)
      BY <2>3, Zenon DEF VoterExit, Service!VoterExit
    <2>4. ASSUME NEW v \in Voters, Elect(v) \/ ElectStaleNotFound(v) \/ ElectFails(v)
          PROVE  UNCHANGED <<leaderKey, VoterStatus>>
      BY <2>4 DEF Elect, ElectNotFound, ElectOtherLeader, ElectOwnLease,
                  ElectStaleNotFound, ElectFails, MayElect
    <2>5. ASSUME NEW v \in Voters, pc[v] # "none", AfterSet(v), UNCHANGED ctx
          PROVE  VoterStatus' = [VoterStatus EXCEPT ![v] = IF ctx[v] = "dead" THEN "none" ELSE @]
      BY <2>5, Zenon DEF AfterSet
    <2>6. ASSUME NEW v \in Voters, ElectSet(v) \/ SetLost(v)
          PROVE  Service!Win(v) \/ Service!VoterExit(v) \/ UNCHANGED <<leaderKey, VoterStatus>>
      <3>1. pc[v] # "none" /\ AfterSet(v) /\ UNCHANGED ctx
        BY <2>6 DEF ElectSet, SetNoExist, CompareAndSet, SetLost
      <3>2. VoterStatus' = [VoterStatus EXCEPT ![v] = IF ctx[v] = "dead" THEN "none" ELSE @]
        BY <2>5, <3>1
      <3>3. VoterStatus[v] = ctx[v] /\ VoterStatus \in [Voters -> {"none", "live", "done", "dead"}]
        BY <3>1
      <3>4. leaderKey' = leaderKey \/ (leaderKey = None /\ leaderKey' = Owner[v])
        BY <2>6 DEF ElectSet, SetNoExist, CompareAndSet, SetLost, WriteKey
      <3> HIDE DEF VoterStatus
      <3>5. CASE leaderKey' = leaderKey
        BY <3>1, <3>2, <3>3, <3>5, Zenon DEF Service!VoterExit
      <3>6. CASE leaderKey = None /\ leaderKey' = Owner[v]
        BY <3>1, <3>2, <3>3, <3>6 DEF Service!Win, Service!AfterElect
      <3> QED BY <3>4, <3>5, <3>6
    <2>7. ASSUME NEW n \in Nodes, Crash(n) PROVE Service!Crash(n)
      <3> DEFINE inFlight == {v \in Voters : Owner[v] = n /\ pc[v] \in {"create", "renew"}}
      <3>1. inFlight \in SUBSET {v \in Service!VotersOf(n) : VoterStatus[v] # "none"}
        BY DEF Service!VotersOf
      <3>2. VoterStatus' = [v \in Voters |-> IF v \in inFlight THEN "dead"
                              ELSE IF v \in Service!VotersOf(n) THEN "none" ELSE VoterStatus[v]]
        BY <2>7 DEF Crash, MayElect, Service!VotersOf
      <3>3. UNCHANGED leaderKey
        BY <2>7 DEF Crash
      <3> HIDE DEF inFlight, VoterStatus
      <3> QED BY <3>1, <3>2, <3>3 DEF Service!Crash
    <2>8. CASE Expire
      BY <2>8 DEF Expire, WriteKey, Service!Expire, Service!ElectionNext
    <2>9. CASE UNCHANGED voterVars
      BY <2>9 DEF voterVars
    <2> QED BY <2>1, <2>2, <2>3, <2>4, <2>6, <2>7, <2>8, <2>9
            DEF VoterNext, VoterStep, Service!ElectionNext
  <1> QED BY <1>1, <1>2, VoterTypeCorrect, PTL DEF VoterSpec, Service!ElectionSpec

-----------------------------------------------------------------------------
(* The lease clock. *)


(***************************************************************************)
(* The derived times of elect() and AddVoter are natural numbers, and a    *)
(* term of at least a second leaves a positive time-to-live.               *)
(***************************************************************************)
LEMMA DerivedTimes ==
    /\ Period \in Nat /\ HalfTerm \in Nat /\ TTL \in Nat
    /\ Period <= HalfTerm /\ HalfTerm < TTL
  <1> DEFINE q == Term \div Second
  <1>1. q \in Nat /\ q >= 1 /\ Term < Second * (q + 1) /\ Term % Second < Second
    BY TimingAssumption
  <1>2. Period \in Nat /\ HalfTerm \in Nat /\ Period <= HalfTerm /\ 2 * HalfTerm <= Term
    BY TimingAssumption DEF Period, HalfTerm
  <1>3. TTL \in Nat
    BY <1>1, TimingAssumption DEF TTL
  <1>4. Second * (q + 1) = TTL + Second /\ Second <= TTL
    BY <1>1, TimingAssumption DEF TTL
  <1>5. HalfTerm < TTL
    <2> HIDE DEF q
    <2> QED BY <1>1, <1>2, <1>3, <1>4, TimingAssumption
  <1> QED BY <1>2, <1>3, <1>5

(***************************************************************************)
(* Every variable of the lease clock stays in its range.                   *)
(***************************************************************************)
THEOREM TypeCorrect == Spec => []TypeOK
  <1> USE DerivedTimes, TimingAssumption
  <1>1. Init => TypeOK
    BY DEF Init, TypeOK, Period
  <1>2. TypeOK /\ [Next]_vars => TypeOK'
    <2> SUFFICES ASSUME TypeOK, [Next]_vars PROVE TypeOK'
      OBVIOUS
    <2> USE DEF TypeOK
    <2>1. CASE TickerFires
      BY <2>1 DEF TickerFires
    <2>2. CASE ElectGet
      BY <2>2 DEF ElectGet
    <2>3. CASE SetLease
      BY <2>3 DEF SetLease
    <2>4. CASE Tick
      BY <2>4 DEF Tick
    <2>5. CASE UNCHANGED vars
      BY <2>5 DEF vars
    <2> QED BY <2>1, <2>2, <2>3, <2>4, <2>5 DEF Next
  <1> QED BY <1>1, <1>2, PTL DEF Spec

(***************************************************************************)
(* With delay and skew within the budget there is always enough of the     *)
(* lease left to get through the next call of elect().                     *)
(***************************************************************************)
THEOREM AlwaysEnoughLeft == Spec => []EnoughLeft
  <1> USE DerivedTimes, TimingAssumption
  <1>1. Init => EnoughLeft
    BY DEF Init, EnoughLeft, WithinBudget
  <1>2. TypeOK /\ EnoughLeft /\ [Next]_vars => EnoughLeft'
    <2> SUFFICES ASSUME TypeOK, EnoughLeft, [Next]_vars
                 PROVE  EnoughLeft'
      OBVIOUS
    <2> USE DEF TypeOK, EnoughLeft, WithinBudget
    <2>1. CASE TickerFires
      BY <2>1 DEF TickerFires
    <2>2. CASE ElectGet /\ WithinBudget
      <3>1. ttl # 0
        BY <2>2 DEF ElectGet
      <3>2. PICK offset \in -skew..skew :
               step' = IF NotDue(offset) THEN "wait" ELSE "extend"
        BY <2>2, <3>1 DEF ElectGet
      <3>3. CASE NotDue(offset)
        BY <2>2, <3>2, <3>3 DEF ElectGet, NotDue
      <3>4. CASE ~NotDue(offset)
        BY <2>2, <3>2, <3>4 DEF ElectGet
      <3> QED BY <3>3, <3>4
    <2>3. CASE ElectGet /\ ~WithinBudget
      BY <2>3 DEF ElectGet
    <2>4. CASE SetLease
      BY <2>4 DEF SetLease
    <2>5. CASE Tick
      BY <2>5 DEF Tick
    <2>6. CASE UNCHANGED vars
      BY <2>6 DEF vars
    <2> QED BY <2>1, <2>2, <2>3, <2>4, <2>5, <2>6 DEF Next
  <1> QED BY <1>1, <1>2, TypeCorrect, PTL DEF Spec

(***************************************************************************)
(* A leader whose agent keeps running never loses its lease: for every     *)
(* term, elect()'s test for half a term and its wake-up five times a term  *)
(* tolerate Term/2 - Term/5 of delay and clock skew together.              *)
(***************************************************************************)
THEOREM LeaseNeverLapses == Spec => []LeaseHeld
  <1>1. TypeOK /\ EnoughLeft => LeaseHeld
    BY DerivedTimes, TimingAssumption DEF TypeOK, EnoughLeft, LeaseHeld
  <1> QED BY <1>1, TypeCorrect, AlwaysEnoughLeft, PTL
-----------------------------------------------------------------------------

(***************************************************************************)
(* Every variable of the watch stays in its range.                         *)
(***************************************************************************)
THEOREM WatchTypeCorrect == WatchSpec => []WatchTypeOK
  <1> USE WatchAssumption DEF WatchTypeOK, Fetching, Sending
  <1>1. WatchInit => WatchTypeOK
    <2> SUFFICES ASSUME WatchInit PROVE WatchTypeOK
      OBVIOUS
    <2> USE DEF WatchInit
    <2>1. hist \in Seq(Values \cup {Gone}) /\ Len(hist) = 0
      OBVIOUS
    <2>2. sent \in BOOLEAN /\ closed \in BOOLEAN /\ restarts \in Nat
      BY Zenon
    <2>3. prev \in Values \cup {Gone} /\ steps \in 0..(StepLimit + 1)
      OBVIOUS
    <2> QED BY <2>1, <2>2, <2>3
  <1>2. WatchTypeOK /\ [WatchNext]_watchVars => WatchTypeOK'
    <2> SUFFICES ASSUME WatchTypeOK, [WatchNext]_watchVars PROVE WatchTypeOK'
      OBVIOUS
    <2> USE DEF subVars, envVars
    <2>1. ASSUME NEW value \in Values \cup {Gone}, KeyChange(value) PROVE WatchTypeOK'
      <3>1. hist' \in Seq(Values \cup {Gone}) /\ Len(hist') = Len(hist) + 1
        BY <2>1 DEF KeyChange
      <3> QED BY <2>1, <3>1 DEF KeyChange
    <2>2. ASSUME NEW i \in DOMAIN hist, FetchedAt(i) PROVE WatchTypeOK'
      <3>1. at' \in {"sendFirst", "send", "next"}
        BY <2>2 DEF FetchedAt, AfterFetch
      <3>2. i \in 0..Len(hist) /\ i > 0
        OBVIOUS
      <3> QED BY <2>2, <3>1, <3>2 DEF FetchedAt
    <2>3. CASE FetchAbandoned
      BY <2>3 DEF FetchAbandoned
    <2>4. CASE NextEvent
      BY <2>4 DEF NextEvent
    <2>5. CASE NextClusterError
      BY <2>5 DEF NextClusterError, CountError
    <2>6. CASE NextExpired
      BY <2>6 DEF NextExpired, CountError
    <2>7. CASE NextUnknownError
      BY <2>7 DEF NextUnknownError, CountError
    <2>8. CASE Deliver
      <3>1. UNCHANGED <<hist, next, resp, steps, restarts, closed>>
        BY <2>8 DEF Deliver
      <3>2. at' = "next" /\ sent' \in BOOLEAN
        BY <2>8 DEF Deliver
      <3>3. hist[resp] \in Values \cup {Gone}
        BY <2>8 DEF Deliver
      <3> QED BY <2>8, <3>1, <3>2, <3>3 DEF Deliver
    <2>9. CASE Exit \/ Close
      BY <2>9, Zenon DEF Exit, Close
    <2>10. CASE Restart
      <3>1. UNCHANGED <<hist, recorded>> /\ restarts' \in Nat /\ Len(hist) \in Nat
        BY <2>10 DEF Restart
      <3>2. sent' \in BOOLEAN /\ closed' \in BOOLEAN
        BY <2>10, Zenon DEF Restart
      <3>3. steps' = 0 /\ at' = "first" /\ next' = 0 /\ resp' = 0 /\ last' = 0 /\ prev' = Gone
        BY <2>10 DEF Restart
      <3> QED BY <3>1, <3>2, <3>3
    <2>11. CASE UNCHANGED watchVars
      BY <2>11 DEF watchVars
    <2> QED BY <2>1, <2>2, <2>3, <2>4, <2>5, <2>6, <2>7, <2>8, <2>9, <2>10, <2>11, Zenon
            DEF WatchNext, Fetched
  <1> QED BY <1>1, <1>2, PTL DEF WatchSpec

(***************************************************************************)
(* What AddWatch is about to send is never older than what it sent before  *)
(* and never ahead of its watcher, if no Get is answered with old data.    *)
(***************************************************************************)
THEOREM WatchKeepsOrder == ~StaleReads /\ WatchSpec => []PositionsOrdered
  <1> SUFFICES ASSUME ~StaleReads PROVE WatchSpec => []PositionsOrdered
    OBVIOUS
  <1> USE DEF PositionsOrdered, Sending
  <1>1. WatchInit => PositionsOrdered
    BY DEF WatchInit
  <1>2. WatchTypeOK /\ PositionsOrdered /\ [WatchNext]_watchVars => PositionsOrdered'
    <2> SUFFICES ASSUME WatchTypeOK, PositionsOrdered, [WatchNext]_watchVars PROVE PositionsOrdered'
      OBVIOUS
    <2> USE DEF WatchTypeOK, subVars, envVars
    <2>1. ASSUME NEW value \in Values \cup {Gone}, KeyChange(value) PROVE PositionsOrdered'
      <3>1. \A i \in 1..Len(hist) : hist'[i] = hist[i]
        BY <2>1 DEF KeyChange
      <3> QED BY <2>1, <3>1 DEF KeyChange
    <2>2. CASE Fetched
      BY <2>2 DEF Fetched, FetchedAt
    <2>3. CASE NextEvent
      BY <2>3 DEF NextEvent
    <2>4. CASE NextClusterError \/ NextExpired \/ NextUnknownError
      BY <2>4 DEF NextClusterError, NextExpired, NextUnknownError
    <2>5. CASE Deliver
      BY <2>5 DEF Deliver
    <2>6. CASE FetchAbandoned \/ Exit \/ Close
      BY <2>6 DEF FetchAbandoned, Exit, Close
    <2>7. CASE Restart
      BY <2>7 DEF Restart
    <2>8. CASE UNCHANGED watchVars
      BY <2>8 DEF watchVars
    <2> QED BY <2>1, <2>2, <2>3, <2>4, <2>5, <2>6, <2>7, <2>8 DEF WatchNext
  <1> QED BY <1>1, <1>2, WatchTypeCorrect, PTL DEF WatchSpec

(***************************************************************************)
(* AddWatch implements the feed: its subscriber is told values the key     *)
(* really had and never an older one after a newer one, through errors,    *)
(* expired histories, recreated watchers and restarts of the agent, if no  *)
(* Get is answered with old data (the code's Get does allow that).         *)
(***************************************************************************)
THEOREM WatchIsFeed == ~StaleReads /\ WatchSpec => FeedSpec
  <1> SUFFICES ASSUME ~StaleReads PROVE WatchSpec => FeedSpec
    OBVIOUS
  <1>1. WatchInit => Feed!Init
    BY DEF WatchInit, Feed!Init
  <1>2. WatchTypeOK /\ PositionsOrdered /\ [WatchNext]_watchVars => [Feed!Next]_<<hist, last>>
    <2> SUFFICES ASSUME WatchTypeOK, PositionsOrdered, [WatchNext]_watchVars
                 PROVE  UNCHANGED <<hist, last>> \/ Feed!Next
      OBVIOUS
    <2> USE DEF WatchTypeOK, subVars, envVars
    <2>1. ASSUME NEW value \in Values \cup {Gone}, KeyChange(value) PROVE Feed!Change
      BY <2>1 DEF KeyChange, Feed!Change
    <2>2. CASE Deliver
      <3>1. resp \in DOMAIN hist /\ resp >= last /\ hist[resp] # Gone
        BY <2>2 DEF Deliver, PositionsOrdered, Sending
      <3> QED BY <2>2, <3>1 DEF Deliver, Feed!Deliver, Feed!Next
    <2>3. CASE Restart
      BY <2>3 DEF Restart, Feed!Restart, Feed!Next
    <2>4. CASE Fetched \/ FetchAbandoned \/ Exit \/ Close
      BY <2>4 DEF Fetched, FetchedAt, FetchAbandoned, Exit, Close
    <2>5. CASE NextEvent \/ NextClusterError \/ NextExpired \/ NextUnknownError
      BY <2>5 DEF NextEvent, NextClusterError, NextExpired, NextUnknownError
    <2>6. CASE UNCHANGED watchVars
      BY <2>6 DEF watchVars
    <2> QED BY <2>1, <2>2, <2>3, <2>4, <2>5, <2>6 DEF WatchNext, Feed!Next
  <1> QED BY <1>1, <1>2, WatchTypeCorrect, WatchKeepsOrder, PTL DEF WatchSpec, FeedSpec, Feed!Spec

(***************************************************************************)
(* What the subscriber was told last is the value the key had at the       *)
(* position it was told of: AddWatchCallback's prev is never out of date   *)
(* with its position.                                                      *)
(***************************************************************************)
ToldIsHad == last # 0 => prev = hist[last] /\ prev # Gone

(***************************************************************************)
(* ToldIsHad is kept by every step of the watch, since a value about to be *)
(* sent is one the key had and no delete.                                  *)
(***************************************************************************)
LEMMA ToldWasHad == ~StaleReads /\ WatchSpec => []ToldIsHad
  <1> SUFFICES ASSUME ~StaleReads PROVE WatchSpec => []ToldIsHad
    OBVIOUS
  <1>1. WatchInit => ToldIsHad
    BY DEF WatchInit, ToldIsHad
  <1>2. WatchTypeOK /\ PositionsOrdered /\ ToldIsHad /\ [WatchNext]_watchVars => ToldIsHad'
    <2> SUFFICES ASSUME WatchTypeOK, PositionsOrdered, ToldIsHad, [WatchNext]_watchVars
                 PROVE  ToldIsHad'
      OBVIOUS
    <2>1. ASSUME NEW value \in Values \cup {Gone}, KeyChange(value) PROVE ToldIsHad'
      <3>1. \A i \in 1..Len(hist) : hist'[i] = hist[i]
        BY <2>1 DEF KeyChange, WatchTypeOK
      <3> QED BY <2>1, <3>1 DEF KeyChange, ToldIsHad, WatchTypeOK, subVars
    <2>2. CASE Deliver
      BY <2>2 DEF Deliver, PositionsOrdered, ToldIsHad
    <2>3. CASE Restart
      BY <2>3 DEF Restart, ToldIsHad
    <2>4. CASE UNCHANGED <<hist, prev, last>>
      BY <2>4 DEF ToldIsHad
    <2>5. CASE Fetched \/ FetchAbandoned \/ Exit \/ Close
      BY <2>4, <2>5 DEF Fetched, FetchedAt, FetchAbandoned, Exit, Close, subVars
    <2>6. CASE NextEvent \/ NextClusterError \/ NextExpired \/ NextUnknownError
      BY <2>4, <2>6 DEF NextEvent, NextClusterError, NextExpired, NextUnknownError, subVars
    <2>7. CASE UNCHANGED watchVars
      BY <2>4, <2>7 DEF watchVars
    <2> QED BY <2>1, <2>2, <2>3, <2>5, <2>6, <2>7 DEF WatchNext
  <1> QED BY <1>1, <1>2, WatchTypeCorrect, WatchKeepsOrder, PTL DEF WatchSpec

(***************************************************************************)
(* An agent that was told of its own election does not record it again     *)
(* until it has been told of another leader, however often the watch       *)
(* repeats values, if no Get is answered with old data: the leader it was  *)
(* told of last is the one that led between the two records.               *)
(***************************************************************************)
THEOREM ElectionsRecordedOnce == ~StaleReads /\ WatchSpec => RecordsEachElectionOnce
  <1> SUFFICES ASSUME ~StaleReads PROVE WatchSpec => RecordsEachElectionOnce
    OBVIOUS
  <1> DEFINE Once == recorded' # recorded /\ recorded # 0 /\ recorded <= last
                     => OtherLedBetween(recorded, recorded')
  <1>1. WatchTypeOK /\ PositionsOrdered /\ ToldIsHad /\ [WatchNext]_watchVars => [Once]_watchVars
    <2> SUFFICES ASSUME WatchTypeOK, PositionsOrdered, ToldIsHad, [WatchNext]_watchVars,
                        recorded' # recorded, recorded # 0, recorded <= last
                 PROVE  OtherLedBetween(recorded, recorded')
      OBVIOUS
    <2>1. CASE Deliver
      <3>1. recorded' = resp /\ prev # Me
        BY <2>1 DEF Deliver
      <3>2. last \in recorded..resp /\ last # 0
        BY <2>1 DEF Deliver, PositionsOrdered, WatchTypeOK
      <3>3. hist[last] \notin {Me, Gone}
        BY <3>1, <3>2 DEF ToldIsHad
      <3> QED BY <3>1, <3>2, <3>3 DEF OtherLedBetween
    <2>2. CASE Restart \/ UNCHANGED watchVars
      BY <2>2 DEF Restart, watchVars
    <2>3. CASE Fetched \/ FetchAbandoned \/ Exit \/ Close
      BY <2>3 DEF Fetched, FetchedAt, FetchAbandoned, Exit, Close, subVars
    <2>4. CASE NextEvent \/ NextClusterError \/ NextExpired \/ NextUnknownError
      BY <2>4 DEF NextEvent, NextClusterError, NextExpired, NextUnknownError, subVars
    <2>5. CASE \E value \in Values \cup {Gone} : KeyChange(value)
      BY <2>5 DEF KeyChange, subVars
    <2> QED BY <2>1, <2>2, <2>3, <2>4, <2>5 DEF WatchNext
  <1> QED BY <1>1, WatchTypeCorrect, WatchKeepsOrder, ToldWasHad, PTL
          DEF WatchSpec, RecordsEachElectionOnce
=============================================================================
