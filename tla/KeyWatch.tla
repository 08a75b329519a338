------------------------------ MODULE KeyWatch ------------------------------
(***************************************************************************)
(* A watch on the leader key as AddWatch and AddWatchCallback of           *)
(* coordinate/leader run it, with the callback of planet's agent that      *)
(* records LeaderElected events as its subscriber.                         *)
(*                                                                         *)
(* hist is etcd's sequence of changes to the key; a position in it stands  *)
(* for an etcd index.  The history etcd keeps for watchers (1000 events)   *)
(* is shared by all keys, so a watch may expire at any time, also when     *)
(* this key has not changed.  The goroutine of AddWatch sends to an        *)
(* unbuffered channel, so sending a value and running the callback are one *)
(* step here.                                                              *)
(***************************************************************************)
EXTENDS Naturals, Sequences

CONSTANTS Values,       \* values of the key
          Gone,         \* an expiry or a delete; also: no value
          Me,           \* the public IP of this agent
          StepLimit,    \* errors before the watch is recreated (10)
          StaleReads,   \* whether a lagging etcd member may answer a Get
          UnknownErrors,\* whether Next can fail with an unclassified error
          MaxIndex,     \* bound: changes of the key
          MaxRestarts,  \* bound: restarts of the agent
          CanClose      \* whether the client may be closed

ASSUME WatchAssumption ==
    /\ Gone \notin Values /\ Me \in Values
    /\ StepLimit \in Nat /\ MaxIndex \in Nat /\ MaxRestarts \in Nat
    /\ StaleReads \in BOOLEAN /\ UnknownErrors \in BOOLEAN /\ CanClose \in BOOLEAN

VARIABLES hist,      \* changes of the key
          at,        \* where the goroutine of AddWatch is
          next,      \* the watcher waits for events after this position
          resp,      \* position of the value about to be sent
          steps,     \* AddWatch's error counter, capped above StepLimit
          sent,      \* AddWatch's sentAnything
          prev,      \* AddWatchCallback's prev: the value delivered last
          last,      \* its position
          recorded,  \* position of the last LeaderElected event, 0 for none
          closed,    \* Client.Close has been called
          restarts

watchVars == <<hist, at, next, resp, steps, sent, prev, last, recorded, closed, restarts>>
subVars == <<prev, last, recorded>>
envVars == <<closed, restarts>>

(***************************************************************************)
(* first, refetch, expired, recreate: in getWatchAtLatestIndex, called     *)
(* from the four places of AddWatch; sendFirst, send: at the two sends;    *)
(* next: in watcher.Next.                                                  *)
(***************************************************************************)
Fetching == {"first", "refetch", "expired", "recreate"}
Sending == {"sendFirst", "send"}

WatchTypeOK ==
    /\ hist \in Seq(Values \cup {Gone})
    /\ at \in Fetching \cup Sending \cup {"next", "exited", "panicked"}
    /\ next \in 0..Len(hist) /\ resp \in 0..Len(hist)
    /\ last \in 0..Len(hist) /\ recorded \in 0..Len(hist)
    /\ at \in Sending => resp > 0
    /\ steps \in 0..(StepLimit + 1)
    /\ sent \in BOOLEAN /\ closed \in BOOLEAN
    /\ prev \in Values \cup {Gone}
    /\ restarts \in Nat

ValueAt(i) == IF i = 0 THEN Gone ELSE hist[i]
Current == ValueAt(Len(hist))

WatchInit ==
    /\ hist = <<>>
    /\ at = "first"
    /\ next = 0 /\ resp = 0 /\ steps = 0 /\ sent = FALSE
    /\ prev = Gone /\ last = 0 /\ recorded = 0
    /\ closed = FALSE /\ restarts = 0
-----------------------------------------------------------------------------
(***************************************************************************)
(* The key in etcd: created, renewed (the same value again), or expired.   *)
(***************************************************************************)
KeyChange(value) ==
    /\ Len(hist) < MaxIndex
    /\ value = Gone => Current # Gone
    /\ hist' = Append(hist, value)
    /\ UNCHANGED <<at, next, resp, steps, sent, subVars, envVars>>

\* Variant: an expired watch is only recreated.
AfterFetchSilent(from) == IF from = "first" THEN "sendFirst" ELSE "next"

(***************************************************************************)
(* getWatchAtLatestIndex: getFirstValue polls until the key exists, and    *)
(* the new watcher continues after the index of the response.  The Get is  *)
(* not a quorum read, so the response may be an old one.  Only the calls   *)
(* at the start and after an expired watch go on to send the value; a      *)
(* recreated watch goes straight back to waiting.                          *)
(***************************************************************************)
AfterFetch(from) == CASE from = "first" -> "sendFirst" [] from = "expired" -> "send" [] OTHER -> "next"

\* Variant: the new watcher starts over, not after the response's index.
FetchedFromStart(i) ==
    /\ at \in Fetching /\ hist[i] # Gone
    /\ next' = 0
    /\ resp' = i
    /\ at' = AfterFetch(at)
    /\ steps' = IF at = "recreate" THEN 0 ELSE steps
    /\ UNCHANGED <<hist, sent, subVars, envVars>>

FetchedAt(i) ==
    /\ at \in Fetching /\ hist[i] # Gone
    /\ next' = i
    /\ resp' = i
    /\ at' = AfterFetch(at)
    /\ steps' = IF at = "recreate" THEN 0 ELSE steps
    /\ UNCHANGED <<hist, sent, subVars, envVars>>

Fetched == \E i \in DOMAIN hist : (StaleReads \/ i = Len(hist)) /\ FetchedAt(i)
FetchedLatest == Fetched /\ next' = Len(hist)

(***************************************************************************)
(* getFirstValue gives up because the client was closed and returns nil.   *)
(* After an expired watch, and when the loop fetches for a nil watcher,    *)
(* the code goes on to read resp.PrevNode of that nil response.            *)
(***************************************************************************)
FetchAbandoned ==
    /\ at \in Fetching /\ closed
    /\ at' = IF at \in {"first", "recreate"} THEN "refetch" ELSE "panicked"
    /\ UNCHANGED <<hist, next, resp, steps, sent, subVars, envVars>>

\* Variant: does not wait for an event.
NextTooEarly ==
    /\ at = "next" /\ next <= Len(hist)
    /\ next' = next + 1
    /\ UNCHANGED <<hist, at, resp, steps, sent, subVars, envVars>>

(***************************************************************************)
(* watcher.Next returns the next event.  An expiry carries no value and is *)
(* passed over, and so is a renewal once something has been sent.          *)
(***************************************************************************)
NextEvent ==
    /\ at = "next" /\ next < Len(hist)
    /\ next' = next + 1
    /\ IF hist[next + 1] = Gone \/ (sent /\ ValueAt(next) = hist[next + 1])
       THEN UNCHANGED <<at, resp>>
       ELSE at' = "send" /\ resp' = next + 1
    /\ UNCHANGED <<hist, steps, sent, subVars, envVars>>

CountError == steps' = IF steps > StepLimit THEN steps ELSE steps + 1

NextClusterError ==
    /\ at = "next"
    /\ CountError
    /\ UNCHANGED <<hist, at, next, resp, sent, subVars, envVars>>

NextExpired ==
    /\ at = "next"
    /\ CountError
    /\ at' = "expired"
    /\ UNCHANGED <<hist, next, resp, sent, subVars, envVars>>

NextUnknownError ==
    /\ UnknownErrors
    /\ at = "next"
    /\ CountError
    /\ at' = IF steps' > StepLimit THEN "recreate" ELSE at
    /\ UNCHANGED <<hist, next, resp, sent, subVars, envVars>>

\* Variant: records every time this node is told to be the leader.
DeliverRecordsAll ==
    /\ at \in Sending
    /\ at' = "next"
    /\ sent' = (sent \/ at = "send")
    /\ prev' = hist[resp]
    /\ last' = resp
    /\ recorded' = IF hist[resp] = Me THEN resp ELSE recorded
    /\ UNCHANGED <<hist, next, resp, steps, envVars>>

(***************************************************************************)
(* The send, and the callback: prev is what this callback was given last,  *)
(* and LeaderElected is recorded when this node became the leader and the  *)
(* value differs from prev.                                                *)
(***************************************************************************)
Deliver ==
    /\ at \in Sending
    /\ at' = "next"
    /\ sent' = (sent \/ at = "send")
    /\ prev' = hist[resp]
    /\ last' = resp
    /\ recorded' = IF hist[resp] = Me /\ prev # Me THEN resp ELSE recorded
    /\ UNCHANGED <<hist, next, resp, steps, envVars>>

Exit ==
    /\ closed /\ at \in Sending \cup {"next"}
    /\ at' = "exited"
    /\ UNCHANGED <<hist, next, resp, steps, sent, subVars, envVars>>

Close ==
    /\ CanClose /\ ~closed
    /\ closed' = TRUE
    /\ UNCHANGED <<hist, at, next, resp, steps, sent, subVars, restarts>>

(***************************************************************************)
(* The agent's process ends and systemd starts it again: a new client and  *)
(* a new watch.  The timeline of recorded events is kept on disk.          *)
(***************************************************************************)
Restart ==
    /\ restarts < MaxRestarts
    /\ restarts' = restarts + 1
    /\ at' = "first" /\ next' = 0 /\ resp' = 0 /\ steps' = 0 /\ sent' = FALSE
    /\ prev' = Gone /\ last' = 0 /\ closed' = FALSE
    /\ UNCHANGED <<hist, recorded>>

WatchNext ==
    \/ \E value \in Values \cup {Gone} : KeyChange(value)
    \/ Fetched \/ FetchAbandoned
    \/ NextEvent \/ NextClusterError \/ NextExpired \/ NextUnknownError
    \/ Deliver \/ Exit \/ Close \/ Restart

WatchSpec == WatchInit /\ [][WatchNext]_watchVars

(***************************************************************************)
(* The goroutine runs; etcd, though it may fail and lag any number of      *)
(* times, keeps answering: a Get now and then with the latest value, the   *)
(* watcher with the event that is due or with its having been cleared.     *)
(***************************************************************************)
WatchFairSpec ==
    /\ WatchSpec
    /\ SF_watchVars(FetchedLatest)
    /\ SF_watchVars(next < Len(hist) /\ (NextEvent \/ NextExpired))
    /\ WF_watchVars(Deliver)
-----------------------------------------------------------------------------
(***************************************************************************)
(* AddWatch implements the feed: whatever errors, expired histories and    *)
(* recreated watchers it goes through, a subscriber is never told an older *)
(* value after a newer one, and never a value the key did not have.  The   *)
(* order is lost when StaleReads: getFirstValue's Get asks for no quorum,  *)
(* and a lagging member's answer takes the subscriber back.                *)
(***************************************************************************)
Feed == INSTANCE WatchFeed
FeedSpec == Feed!Spec

(***************************************************************************)
(* Why: the value about to be sent is not older than the one delivered     *)
(* last and not newer than the watcher's position (unless StaleReads).     *)
(***************************************************************************)
PositionsOrdered ==
    /\ last <= next
    /\ at \in Sending => last <= resp /\ resp <= next /\ hist[resp] # Gone

(***************************************************************************)
(* The subscriber keeps catching up with the key: it is never left with a  *)
(* value other than the key's for good, so the agent's callbacks act on    *)
(* the leader that really is the leader.                                   *)
(***************************************************************************)
LearnsLatest == []<>(Current # Gone => prev = Current)

(***************************************************************************)
(* An agent records that it was elected only if somebody else led since    *)
(* the last time it recorded that, although the watch repeats values       *)
(* (unless StaleReads: told an old election again, it records that one).   *)
(* (last < recorded: it has restarted and not been told anything yet, and  *)
(* then it does record the same election again.)                           *)
(***************************************************************************)
OtherLedBetween(i, j) == \E k \in i..j : hist[k] \notin {Me, Gone}
RecordsEachElectionOnce ==
    [][recorded' # recorded /\ recorded # 0 /\ recorded <= last
       => OtherLedBetween(recorded, recorded')]_watchVars
=============================================================================
