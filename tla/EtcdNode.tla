------------------------------ MODULE EtcdNode ------------------------------
(***************************************************************************)
(* etcd on one node of either kind.  setupEtcd, when planet starts, makes  *)
(* etcd.service a gateway or a member, and the commands follow the same    *)
(* setting: on a gateway etcd upgrade and the join do nothing.             *)
(***************************************************************************)
EXTENDS EtcdMember, EtcdGateway

nodeVars == <<memberVars, gatewayVars>>

setupEtcd == IF role = "gateway" THEN GatewayInit ELSE GatewayAbsent

NodeInit == MemberInit /\ setupEtcd

NodeNext ==
    \/ role # "gateway" /\ MemberNext /\ UNCHANGED gatewayVars
    \/ role = "gateway" /\ GatewayNext /\ UNCHANGED memberVars

NodeSpec == NodeInit /\ [][NodeNext]_nodeVars /\ MemberFairness /\ GatewayFairness

NodeTypeOK == MemberTypeOK /\ GatewayTypeOK
=============================================================================
