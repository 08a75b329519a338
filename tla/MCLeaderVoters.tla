--------------------------- MODULE MCLeaderVoters ---------------------------
EXTENDS LeaderVoters, TLC

CONSTANTS n1, n2, v1, v2, v3

\* n1 has two goroutine slots, so that a cancelled voter can still be running
\* when the next one is added; n2 competes with one.
MCOwner == v1 :> n1 @@ v2 :> n1 @@ v3 :> n2
=============================================================================
