----------------------------- MODULE MCEtcdNode -----------------------------
(***************************************************************************)
(* Three etcd versions, of which one is the v2.3.8 the code assumes, and   *)
(* masters h1, h2 and h3.                                                  *)
(***************************************************************************)
EXTENDS EtcdNode

CONSTANTS v238, v31, v33, h1, h2, h3, none

MCVersions == {v238, v31, v33}
MCHosts == {h1, h2, h3}
MCClients == {"apiserver", "agent"}
=============================================================================
