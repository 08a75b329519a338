---------------------------- MODULE EtcdGateway -----------------------------
(***************************************************************************)
(* etcd on a node that is no member: etcd.service runs the etcd gateway,   *)
(* and the planet agent keeps its list of endpoints in step with the       *)
(* member list of the cluster (watchEtcdMasters).                          *)
(*                                                                         *)
(* The agent itself reaches etcd through the gateway on 127.0.0.1:2379.    *)
(***************************************************************************)
EXTENDS Naturals

CONSTANTS Hosts,           \* the masters' client addresses
          CrashInWindow,   \* whether the agent may die while the gateway runs with an older list
                           \* than the one in the file
          DisjointChanges, \* whether the members may change beyond the gateway's reach
          MaxChanges       \* bound: membership changes, deaths, and uses of etcd disable

ASSUME GatewayAssumption ==
    /\ {CrashInWindow, DisjointChanges} \subseteq BOOLEAN /\ MaxChanges \in Nat

VARIABLES
    members,    \* the members that have started
    unstarted,  \* whether the list has a member that has no client URLs yet
    listed,     \* PLANET_ETCD_GW_ENDPOINTS as an etcd.service started now gets it: from the
                \* synced file or, without one, from the container's environment
    gateway,    \* etcd.service: masked, queued, up
    endpoints,  \* what the running gateway balances over; {} when it does not run
    agent,      \* resyncEtcdMasters: down, idle, changed, written
    clientURLs, \* the agent's etcdGateway
    newClientURLs,
    changes

gatewayVars == <<members, unstarted, listed, gateway, endpoints,
                 agent, clientURLs, newClientURLs, changes>>

GatewayTypeOK ==
    /\ members \subseteq Hosts /\ unstarted \in BOOLEAN
    /\ {listed, endpoints, clientURLs, newClientURLs} \subseteq SUBSET Hosts
    /\ gateway \in {"masked", "queued", "up"}
    /\ agent \in {"down", "idle", "changed", "written"}
    /\ changes \in 0..MaxChanges

\* EtcdGatewayList is the initial cluster of the node's configuration.
GatewayInit ==
    /\ members \in SUBSET Hosts \ {{}} /\ unstarted = FALSE
    /\ listed \in {H \in SUBSET Hosts : H \cap members # {}}
    /\ gateway = "queued" /\ endpoints = {}
    /\ agent = "down" /\ clientURLs = {} /\ newClientURLs = {}
    /\ changes = 0

\* A master has no gateway.
GatewayAbsent ==
    /\ members = {} /\ unstarted = FALSE /\ listed = {} /\ endpoints = {}
    /\ gateway = "masked" /\ agent = "down" /\ clientURLs = {} /\ newClientURLs = {}
    /\ changes = 0

Bounded == changes < MaxChanges /\ changes' = changes + 1

MembersChange(H) ==
    /\ Bounded
    /\ H # members
    /\ DisjointChanges \/ \A list \in {listed, endpoints, newClientURLs} \ {{}} :
                             list \cap H # {}
    /\ members' = H
    /\ UNCHANGED <<unstarted, listed, gateway, endpoints, agent, clientURLs, newClientURLs>>

\* MemberAdd announces a member; it has client URLs once it runs.
MemberAnnounced(b) ==
    /\ Bounded
    /\ unstarted # b /\ unstarted' = b
    /\ UNCHANGED <<members, listed, gateway, endpoints, agent, clientURLs, newClientURLs>>
-----------------------------------------------------------------------------
\* systemd starts the agent, which must find etcd.service active.
AgentStarts ==
    /\ agent = "down" /\ gateway = "up"
    /\ agent' = "idle"
    /\ clientURLs' = listed
    /\ UNCHANGED <<members, unstarted, listed, gateway, endpoints, newClientURLs, changes>>

MayDie == CrashInWindow \/ (gateway = "up" => endpoints = listed)

AgentDies ==
    /\ Bounded
    /\ agent # "down" /\ MayDie
    /\ agent' = "down"
    /\ UNCHANGED <<members, unstarted, listed, gateway, endpoints, clientURLs, newClientURLs>>

\* The list cannot be had, a member has no client URLs, or nothing has changed.
NothingToResync ==
    /\ agent = "idle"
    /\ gateway # "up" \/ unstarted \/ members = clientURLs
    /\ UNCHANGED gatewayVars

\* Up to the comparison: every listed member has client URLs and the list has changed.
resyncEtcdMasters ==
    /\ agent = "idle"
    /\ gateway = "up" /\ endpoints \cap members # {}
    /\ ~unstarted
    /\ members # clientURLs
    /\ newClientURLs' = members
    /\ agent' = "changed"
    /\ UNCHANGED <<members, unstarted, listed, gateway, endpoints, clientURLs, changes>>

WriteList ==
    /\ agent = "changed"
    /\ listed' = newClientURLs
    /\ agent' = "written"
    /\ UNCHANGED <<members, unstarted, gateway, endpoints, clientURLs, newClientURLs, changes>>

\* Variant: the list counts as applied although the restart failed.
RestartGatewayVariant ==
    /\ agent = "written"
    /\ agent' = "idle"
    /\ clientURLs' = newClientURLs
    /\ UNCHANGED <<members, unstarted, listed, gateway, endpoints, newClientURLs, changes>>

\* systemctl restart fails on a masked unit, and may fail otherwise (RestartFails); the
\* next comparison is then still with the old list.
RestartGateway ==
    /\ agent = "written"
    /\ agent' = "idle"
    /\ IF gateway = "masked"
       THEN UNCHANGED <<gateway, endpoints, clientURLs>>
       ELSE gateway' = "queued" /\ endpoints' = {} /\ clientURLs' = newClientURLs
    /\ UNCHANGED <<members, unstarted, listed, newClientURLs, changes>>

RestartFails ==
    /\ Bounded
    /\ agent = "written"
    /\ agent' = "idle"
    /\ UNCHANGED <<members, unstarted, listed, gateway, endpoints, clientURLs, newClientURLs>>
-----------------------------------------------------------------------------
GatewayStarts ==
    /\ gateway = "queued"
    /\ gateway' = "up" /\ endpoints' = listed
    /\ UNCHANGED <<members, unstarted, listed, agent, clientURLs, newClientURLs, changes>>

\* etcdDisable and etcdEnable, which make no difference between a gateway and a member
\* but for the join; etcdEnable restarts the agent among the clients.
Disable ==
    /\ Bounded
    /\ gateway # "masked"
    /\ gateway' = "masked" /\ endpoints' = {}
    /\ UNCHANGED <<members, unstarted, listed, agent, clientURLs, newClientURLs>>

Enable ==
    /\ gateway = "masked"
    /\ gateway' = "queued"
    /\ agent' = "down"
    /\ UNCHANGED <<members, unstarted, listed, endpoints, clientURLs, newClientURLs, changes>>

Resync == resyncEtcdMasters \/ WriteList \/ RestartGateway \/ RestartFails

GatewayNext ==
    \/ \E H \in SUBSET Hosts \ {{}} : MembersChange(H)
    \/ \E b \in BOOLEAN : MemberAnnounced(b)
    \/ AgentStarts \/ AgentDies \/ NothingToResync \/ Resync \/ GatewayStarts \/ Disable \/ Enable

\* The agent polls every 15 seconds, and systemd restarts the agent and the gateway.
GatewayFairness == WF_gatewayVars(Resync) /\ WF_gatewayVars(AgentStarts) /\ WF_gatewayVars(GatewayStarts)

GatewaySpec == GatewayInit /\ [][GatewayNext]_gatewayVars /\ GatewayFairness

\* etcd.go:432: the gateway balances over the members of the cluster, once the members
\* no longer change, all of them have started and the gateway is enabled.
GatewayFollows ==
    <>[](gateway # "masked" /\ ~unstarted) => <>[](endpoints = members)
=============================================================================
