----------------------------- MODULE MCAgentHost -----------------------------
(***************************************************************************)
(* A master and a regular node.  The CPUs are the largest number without   *)
(* reservations and the smallest with them; the operator disables the      *)
(* configuration or brings another.                                        *)
(***************************************************************************)
EXTENDS AgentHost

CONSTANTS m1, w1

MCOperatorConfigs ==
    { EmptyConfig,
      [enabled |-> TRUE, auto |-> FALSE, quota |-> 200000, reserved |-> 500, system |-> 100] }
=============================================================================
