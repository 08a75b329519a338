----------------------------- MODULE LeaseLock -----------------------------
(***************************************************************************)
(* What leader election promises its users: at any time at most one node   *)
(* holds the leadership, a node only takes it when nobody holds it, and it *)
(* is only given up by lapsing.  There is no step that moves leadership    *)
(* from one node straight to another.                                      *)
(***************************************************************************)
CONSTANTS Nodes,    \* the public IPs of the nodes taking part
          None      \* nobody is the leader

VARIABLE holder     \* the current leader, or None

Init == holder = None

Acquire(n) == holder = None /\ holder' = n

Lapse == holder # None /\ holder' = None

Next == Lapse \/ \E n \in Nodes : Acquire(n)

Spec == Init /\ [][Next]_holder
=============================================================================
