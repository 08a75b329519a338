---------------------------- MODULE MCPlanetNode ----------------------------
(***************************************************************************)
(* A master, a gateway node, and flags that start() refuses, in one        *)
(* rootfs; one block device; a state directory left by a killed daemon.    *)
(***************************************************************************)
EXTENDS PlanetNode

Pair(k, v) == [name |-> k, val |-> v]

master ==
    [env |-> <<Pair("NO_PROXY", <<".example.com">>), Pair("DOCKER_OPTS", <<"--debug">>),
               Pair("https_proxy", <<"squid">>), Pair("PLANET_ROLE", <<"node">>)>>,
     role |-> "master", mounts |-> {"etcd", "docker", "registry", "gravity"},
     backend |-> Unset, btrfs |-> FALSE, dockerOptions |-> <<>>, kubeletOptions |-> <<"--v=2">>,
     etcdProxy |-> "off", flannel |-> TRUE, cloud |-> "aws", uid |-> 980,
     listen |-> <<"127.0.0.2", "10.1.0.1">>, servers |-> <<"8.8.8.8", "9.9.9.9">>,
     kubeletConfig |-> <<[mode |-> "AlwaysAllow", anonymous |-> Unset, failSwapOn |-> "true",
                          readOnlyPort |-> "10255", maxPods |-> "250"]>>,
     hostname |-> "master-1"]

gateway ==
    [master EXCEPT !.env = <<Pair("HTTP_PROXY", <<"squid">>)>>, !.role = "node",
                   !.backend = "overlay2", !.btrfs = TRUE, !.dockerOptions = <<"--live-restore">>,
                   !.etcdProxy = "on", !.flannel = FALSE, !.cloud = Unset, !.uid = 1000,
                   !.listen = <<"127.0.0.2">>, !.servers = <<"8.8.8.8">>,
                   !.kubeletConfig = <<>>, !.hostname = Unset]

refused == [gateway EXCEPT !.flannel = TRUE, !.cloud = "azure"]

MCFlags == {master, gateway, refused}
MCUsers == {"root", "daemon"}
MCDirs == {1, 2, 3}
MCLeft == {2}
MCCommands == {"listener", "stop", "monitor"}
MCNumbers == {7, 8}
=============================================================================
