----------------------------- MODULE ScopeCleaner -----------------------------
(***************************************************************************)
(* The cleaner of systemd scopes on one node (runSystemdCgroupCleaner).    *)
(* systemd-run makes a scope and then puts its process there; some scopes  *)
(* stay when all of their processes have exited.  Every 15 minutes the     *)
(* cleaner lists the scopes that are older than a minute, reads the        *)
(* processes of each and stops the ones that have none.                    *)
(***************************************************************************)
EXTENDS Naturals

CONSTANTS Scopes,
          SlowScopes, \* fault: a scope may be without its first process for a minute
          MaxErrors   \* bound: errors of the walk and of systemd

ASSUME CleanerAssumption == SlowScopes \in BOOLEAN /\ MaxErrors \in Nat

VARIABLES
    scope,  \* none, empty (no process yet), busy, left (all processes have exited), gone
    old,    \* the scopes made more than a minute ago
    paths,  \* the scopes the cleaner has listed and not looked at
    seen,   \* the one it has found without processes
    errors

cleanerVars == <<scope, old, paths, seen, errors>>

Present == {s \in Scopes : scope[s] \in {"empty", "busy", "left"}}

CleanerTypeOK ==
    /\ scope \in [Scopes -> {"none", "empty", "busy", "left", "gone"}]
    /\ old \subseteq Scopes /\ paths \subseteq Scopes /\ seen \subseteq Scopes
    /\ errors \in 0..MaxErrors

CleanerInit ==
    /\ scope = [s \in Scopes |-> "none"] /\ old = {} /\ paths = {} /\ seen = {} /\ errors = 0

-----------------------------------------------------------------------------
(* External: systemd-run --scope, as the kubelet uses it for mounts. *)

CreateScope(s) ==
    /\ scope[s] = "none" /\ scope' = [scope EXCEPT ![s] = "empty"]
    /\ UNCHANGED <<old, paths, seen, errors>>

ProcessJoins(s) ==
    /\ scope[s] = "empty" /\ scope' = [scope EXCEPT ![s] = "busy"]
    /\ UNCHANGED <<old, paths, seen, errors>>

\* The scope goes with its last process, or stays.
ProcessesExit(s) ==
    /\ scope[s] = "busy" /\ \E end \in {"left", "gone"} : scope' = [scope EXCEPT ![s] = end]
    /\ UNCHANGED <<old, paths, seen, errors>>

MinutePasses(s) ==
    /\ s \in Present \ old /\ (scope[s] # "empty" \/ SlowScopes)
    /\ old' = old \cup {s}
    /\ UNCHANGED <<scope, paths, seen, errors>>

-----------------------------------------------------------------------------
(* cleanSystemdScopes. *)

\* Variant: new scopes are not spared.
ListedVariant == Present

\* Variant: the comparison of the times is the wrong way round.
ListedYoung == Present \ old

Listed == Present \cap old

\* The walk over the hierarchy; an error cuts it short.
Walk ==
    /\ paths = {} /\ seen = {}
    /\ \/ paths' = Listed /\ UNCHANGED errors
       \/ /\ errors < MaxErrors /\ errors' = errors + 1
          /\ paths' \in SUBSET Listed
    /\ UNCHANGED <<scope, old, seen>>

\* cgroup.procs of the next scope.
ReadProcs(s) ==
    /\ s \in paths /\ seen = {} /\ paths' = paths \ {s}
    /\ seen' = IF scope[s] \in {"empty", "left"} THEN {s} ELSE {}
    /\ UNCHANGED <<scope, old, errors>>

\* An error is logged; the scope's turn comes again with the next walk.
StopUnit ==
    /\ seen # {} /\ seen' = {}
    /\ \/ scope' = [s \in Scopes |-> IF s \in seen THEN "gone" ELSE scope[s]] /\ UNCHANGED errors
       \/ errors < MaxErrors /\ errors' = errors + 1 /\ UNCHANGED scope
    /\ UNCHANGED <<old, paths>>

\* The agent has ended, and the cleaner with it.
CleanerEnds == paths' = {} /\ seen' = {} /\ UNCHANGED <<scope, old, errors>>

\* The node has been rebooted: nothing is left of the scopes it had.
ScopesGone ==
    /\ scope' = [s \in Scopes |-> IF scope[s] = "none" THEN "none" ELSE "gone"]
    /\ old' = {} /\ paths' = {} /\ seen' = {} /\ UNCHANGED errors

cleanSystemdScopes == Walk \/ (\E s \in Scopes : ReadProcs(s)) \/ StopUnit

-----------------------------------------------------------------------------
(***************************************************************************)
(* A scope the cleaner is about to stop has been left by its processes: no *)
(* process is in it, and none is still to join it, although the lists of   *)
(* scopes and of processes may be stale by the time of StopUnit.  This is  *)
(* what the minute is for (cgroup.go:377).                                 *)
(***************************************************************************)
StopsOnlyLeft == \A s \in seen : scope[s] = "left"

(***************************************************************************)
(* A scope that its processes have left behind does not stay for good.     *)
(***************************************************************************)
LeftScopesGo == (\E s \in Scopes : scope[s] = "left") ~> (\A s \in Scopes : scope[s] # "left")
=============================================================================
