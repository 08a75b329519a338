------------------------------ MODULE AgentHost ------------------------------
(***************************************************************************)
(* The agents of a cluster as they start, and on one of the nodes the      *)
(* scopes its kubelet makes and the cleaner its agent runs.                *)
(***************************************************************************)
EXTENDS AgentStartup, ScopeCleaner

CONSTANT Host \* the node whose scopes are looked at

ASSUME HostAssumption == Host \in Nodes

hostVars == <<startupVars, cleanerVars>>

HostTypeOK == StartupTypeOK /\ CleanerTypeOK

HostInit == StartupInit /\ CleanerInit

AgentMoves(n) == NodeStep(n) /\ UNCHANGED cleanerVars

AgentEnds(n) == AgentDies(n) /\ IF n = Host THEN CleanerEnds ELSE UNCHANGED cleanerVars

NodeReboots(n) == Reboot(n) /\ IF n = Host THEN ScopesGone ELSE UNCHANGED cleanerVars

ScopesMove ==
    /\ \E s \in Scopes :
           \/ kubelet[Host] # None /\ CreateScope(s)
           \/ ProcessJoins(s) \/ ProcessesExit(s) \/ MinutePasses(s)
    /\ UNCHANGED startupVars

\* The last thing runAgent starts is the cleaner.
runSystemdCgroupCleaner == agent[Host] = "up" /\ cleanSystemdScopes /\ UNCHANGED startupVars

HostNext ==
    \/ \E n \in Nodes : AgentMoves(n) \/ AgentEnds(n) \/ NodeReboots(n)
    \/ ScopesMove \/ runSystemdCgroupCleaner

\* systemd restarts agents and kubelets, Retry does not give up, time passes and the ticker
\* of the cleaner goes on.
HostFairness ==
    /\ \A n \in Nodes : /\ WF_hostVars(runAgent(n) /\ UNCHANGED cleanerVars)
                        /\ WF_hostVars(KubeletStarts(n) /\ UNCHANGED cleanerVars)
    /\ WF_hostVars((\E s \in Scopes : MinutePasses(s)) /\ UNCHANGED startupVars)
    /\ WF_hostVars(runSystemdCgroupCleaner)

HostSpec == HostInit /\ [][HostNext]_hostVars /\ HostFairness
=============================================================================
