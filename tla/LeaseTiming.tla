---------------------------- MODULE LeaseTiming ----------------------------
(***************************************************************************)
(* When elect() renews.  A leader's voter wakes up every Term/5, reads the *)
(* key, and extends the lease once no more than Term/2 of it is left by    *)
(* its own clock.  The module asks how slow etcd may be and how far the    *)
(* clocks may differ before a healthy leader loses its lease.              *)
(*                                                                         *)
(* Time is counted in ticks.  The lease is kept by etcd, which counts its  *)
(* own time; the voter compares the expiration time with a local clock     *)
(* that may be off by up to skew either way.                               *)
(***************************************************************************)
EXTENDS Integers

CONSTANTS Second,    \* ticks in a second
          Term,      \* LeaderConfig.Term, in ticks
          MaxDelay,  \* longest call of elect(), in ticks
          Skews      \* how far, at most, the two clocks may differ: the cases

Period == Term \div 5
HalfTerm == Term \div 2
\* A Set carries its time-to-live in whole seconds.
TTL == (Term \div Second) * Second

ASSUME TimingAssumption ==
    /\ Second \in Nat \ {0} /\ Term \in Nat /\ MaxDelay \in Nat /\ Skews \subseteq Nat
    /\ Term >= Second            \* AddVoter refuses a shorter term
    /\ MaxDelay < Period         \* elect() returns before the ticker fires again

VARIABLES ttl,    \* ticks left of the lease, 0 when it has expired
          since,  \* ticks since the voter's ticker fired last
          step,   \* wait: in the voter loop; get, create, extend: in elect()
          skew    \* largest difference of the two clocks; never changes

vars == <<ttl, since, step, skew>>

\* The delays and the skew within which leadership is stable.
WithinBudget ==
    /\ Period + MaxDelay + skew <= HalfTerm
    /\ Period + 2 * MaxDelay < TTL

TypeOK ==
    /\ ttl \in 0..TTL
    /\ since \in 0..Period
    /\ step \in {"wait", "get", "create", "extend"}
    /\ skew \in Skews

(***************************************************************************)
(* The goroutine's first elect() has created the key; its answer took up   *)
(* to MaxDelay, and only then is the ticker started.                       *)
(***************************************************************************)
Init ==
    /\ ttl \in (TTL - MaxDelay)..TTL
    /\ since = 0
    /\ step = "wait"
    /\ skew \in Skews

TickerFires ==
    /\ step = "wait" /\ since = Period
    /\ since' = 0
    /\ step' = "get"
    /\ UNCHANGED <<ttl, skew>>

\* Variant: postpone while there is any lease left.
NotDueWhileHeld(offset) == ttl + offset > 0

(***************************************************************************)
(* The Get of elect(), with the expiration seen through a skewed clock.    *)
(***************************************************************************)
NotDue(offset) == ttl + offset > HalfTerm

\* Variant: a missing key is an error like any other.
GetGivesUp ==
    /\ step = "get"
    /\ IF ttl = 0 THEN step' = "wait"
       ELSE \E offset \in -skew..skew :
              step' = IF NotDue(offset) THEN "wait" ELSE "extend"
    /\ UNCHANGED <<ttl, since, skew>>

ElectGet ==
    /\ step = "get"
    /\ IF ttl = 0 THEN step' = "create"
       ELSE \E offset \in -skew..skew :
              step' = IF NotDue(offset) THEN "wait" ELSE "extend"
    /\ UNCHANGED <<ttl, since, skew>>

\* Variant: adds a term to what is left of the lease.
SetAddsTerm ==
    /\ step \in {"create", "extend"}
    /\ ttl' = IF step = "extend" /\ ttl = 0 THEN 0 ELSE ttl + TTL
    /\ step' = "wait"
    /\ UNCHANGED <<since, skew>>

(***************************************************************************)
(* The Set of elect(): a lease that ran out in the meantime is not         *)
(* extended (PrevValue fails), and a missing one is created.               *)
(***************************************************************************)
SetLease ==
    /\ step \in {"create", "extend"}
    /\ ttl' = IF step = "extend" /\ ttl = 0 THEN 0 ELSE TTL
    /\ step' = "wait"
    /\ UNCHANGED <<since, skew>>

(***************************************************************************)
(* Time passes, but not beyond the moment the ticker fires or the longest  *)
(* time a call of elect() takes.                                           *)
(***************************************************************************)
Tick ==
    /\ since < IF step = "wait" THEN Period ELSE MaxDelay
    /\ since' = since + 1
    /\ ttl' = IF ttl = 0 THEN 0 ELSE ttl - 1
    /\ UNCHANGED <<step, skew>>

Next == TickerFires \/ ElectGet \/ SetLease \/ Tick

Spec == Init /\ [][Next]_vars

\* The process is scheduled and time passes.
FairSpec == Spec /\ WF_vars(Next)
-----------------------------------------------------------------------------
(***************************************************************************)
(* A leader whose agent keeps running never loses its lease while delay    *)
(* and skew stay within the budget: elect()'s "more than half a term left" *)
(* test never postpones the renewal past the expiry.                       *)
(***************************************************************************)
LeaseHeld == WithinBudget => ttl > 0

(***************************************************************************)
(* What makes it inductive: there is always enough lease left to get       *)
(* through the next complete call of elect(), which ends within MaxDelay.   *)
(***************************************************************************)
EnoughLeft ==
    /\ step # "wait" => since <= MaxDelay
    /\ WithinBudget =>
        ttl > (IF step = "wait" THEN Period - since + MaxDelay ELSE MaxDelay - since)

(***************************************************************************)
(* Beyond the budget the lease may run out, even between elect()'s Get and *)
(* its Set; but elect() finds the key gone at a later tick and creates it  *)
(* again, so an unopposed voter never stays without the leadership.        *)
(***************************************************************************)
Recovers == []<>(ttl > 0)
=============================================================================
