--------------------------- MODULE MCPlanetAgent ---------------------------
EXTENDS PlanetAgent, TLC

CONSTANTS n1, n2, n3, v1, v2, v3

\* n1 has two goroutine slots, so that a cancelled voter can still be running
\* when the next one is added; n2 competes with one,
\* n3 (where it is used) only follows.
MCOwner == v1 :> n1 @@ v2 :> n1 @@ v3 :> n2

AllEnabled == [n \in Nodes |-> "true"]
SecondDisabled == [n \in Nodes |-> IF n = n2 THEN "false" ELSE "true"]
=============================================================================
