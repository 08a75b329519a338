------------------------------ MODULE PlanetBox ------------------------------
(***************************************************************************)
(* The container, and the commands the daemon runs in it (box.Enter).  A   *)
(* command finds the container by the state directories under runc's data  *)
(* directory, catches all of the daemon's signals, starts its process in   *)
(* the container and then forwards signals to it until a SIGCHLD shows it  *)
(* has exited.                                                             *)
(***************************************************************************)
EXTENDS Integers, Sequences

CONSTANTS Dirs,     \* names of state directories: ReadDir sorts them, uuid.New picks any
          Left,     \* those that daemons killed earlier have left
          Commands, \* what runs commands in the container: the goroutines of the daemon
          Buffer    \* bound: the signals a forwarder's channel holds (128 in the code)

ASSUME BoxAssumption ==
    /\ Dirs \subseteq Nat \ {0} /\ Left \subseteq Dirs /\ Buffer \in Nat \ {0}
    \* Of the directories there are, one is listed first and one last.
    /\ \A S \in SUBSET Dirs : S # {} => \E a, b \in S : \A d \in S : a <= d /\ d <= b

VARIABLES
    dir,     \* the containers: none, empty (no state yet), created, running, stopped
    own,     \* the daemon's container, or 0
    phase,   \* of a command: idle, entered, started, forwarding, done, failed
    target,  \* the container it runs in
    process, \* its process: none, up, exited, killed
    inbox    \* the signals its forwarder has caught

boxVars == <<dir, own, phase, target, process, inbox>>

BoxTypeOK ==
    /\ dir \in [Dirs -> {"none", "empty", "created", "running", "stopped"}]
    /\ own \in Dirs \cup {0}
    /\ phase \in [Commands -> {"idle", "entered", "started", "forwarding", "done", "failed"}]
    /\ target \in [Commands -> Dirs \cup {0}]
    /\ process \in [Commands -> {"none", "up", "exited", "killed"}]
    /\ inbox \in [Commands -> Seq({"CHLD", "TERM", "HUP"})]
    /\ \A c \in Commands : Len(inbox[c]) <= Buffer

BoxInit ==
    /\ dir = [d \in Dirs |-> IF d \in Left THEN "stopped" ELSE "none"]
    /\ own = 0
    /\ phase = [c \in Commands |-> "idle"] /\ target = [c \in Commands |-> 0]
    /\ process = [c \in Commands |-> "none"] /\ inbox = [c \in Commands |-> <<>>]

FirstDir(S) == CHOOSE d \in S : \A e \in S : d <= e
LastDir(S) == CHOOSE d \in S : \A e \in S : e <= d

\* Variant: the last container with a state that is not stopped, running or not.
getContainerVariant ==
    LET present == {d \in Dirs : dir[d] # "none"}
    IN IF present = {} \/ dir[LastDir(present)] \in {"empty", "stopped"} THEN 0 ELSE LastDir(present)

\* The first running container, else the last one, unless that is stopped or has no state;
\* 0 stands for the error.
getContainer ==
    LET present == {d \in Dirs : dir[d] # "none"}
        running == {d \in Dirs : dir[d] = "running"}
    IN IF running # {} THEN FirstDir(running)
       ELSE IF present = {} \/ dir[LastDir(present)] \in {"empty", "stopped"} THEN 0
       ELSE LastDir(present)

\* A signal enters a channel, unless that is full.  Behind an equal one it changes nothing:
\* by the time the first is looked at, the second has happened too.
Queued(box, sig) ==
    IF Len(box) = Buffer \/ (box # <<>> /\ box[Len(box)] = sig) THEN box ELSE Append(box, sig)

\* Variant: the channel is only registered when forwarding starts.
CaughtVariant(boxes, sig) ==
    [c \in Commands |-> IF phase[c] = "forwarding" THEN Queued(boxes[c], sig) ELSE boxes[c]]

\* signal.Notify: every forwarder gets every signal.
Caught(boxes, sig) ==
    [c \in Commands |-> IF phase[c] \in {"entered", "started", "forwarding"}
                        THEN Queued(boxes[c], sig) ELSE boxes[c]]

\* A command is called.  The monitor already has the container.
Enter(c, d) ==
    /\ phase[c] = "idle"
    /\ phase' = [phase EXCEPT ![c] = IF d = 0 THEN "failed" ELSE "entered"]
    /\ target' = [target EXCEPT ![c] = d]
    /\ inbox' = [inbox EXCEPT ![c] = <<>>]
    /\ UNCHANGED <<dir, own, process>>

\* container.Run fails if the container has stopped meanwhile.
RunProcess(c) ==
    /\ phase[c] = "entered"
    /\ IF dir[target[c]] \in {"created", "running"}
       THEN phase' = [phase EXCEPT ![c] = "started"] /\ process' = [process EXCEPT ![c] = "up"]
       ELSE phase' = [phase EXCEPT ![c] = "failed"] /\ UNCHANGED process
    /\ UNCHANGED <<dir, own, target, inbox>>

\* waitConsole, setProcessUserCgroup and ClosePostStart are over.
StartForwarding(c) ==
    /\ phase[c] = "started" /\ phase' = [phase EXCEPT ![c] = "forwarding"]
    /\ UNCHANGED <<dir, own, target, process, inbox>>

\* The process of c ends by itself.
ProcessExits(c) ==
    /\ process[c] = "up" /\ process' = [process EXCEPT ![c] = "exited"]
    /\ inbox' = Caught(inbox, "CHLD")
    /\ UNCHANGED <<dir, own, phase, target>>

\* One round of Forward.  SIGCHLD makes it look whether its own process is gone (reap); any
\* other signal goes to the process, which here does not survive it.
Forward(c) ==
    /\ phase[c] = "forwarding" /\ inbox[c] # <<>>
    /\ LET rest == [inbox EXCEPT ![c] = Tail(@)]
           gone == process[c] # "up"
       IN IF Head(inbox[c]) = "CHLD"
          THEN /\ phase' = IF gone THEN [phase EXCEPT ![c] = "done"] ELSE phase
               /\ inbox' = rest /\ UNCHANGED process
          ELSE /\ process' = IF gone THEN process ELSE [process EXCEPT ![c] = "killed"]
               /\ inbox' = IF gone THEN rest ELSE Caught(rest, "CHLD")
               /\ UNCHANGED phase
    /\ UNCHANGED <<dir, own, target>>

\* The caller takes note of the result.
Return(c) ==
    /\ phase[c] \in {"done", "failed"} /\ phase' = [phase EXCEPT ![c] = "idle"]
    /\ process' = [process EXCEPT ![c] = "none"] /\ target' = [target EXCEPT ![c] = 0]
    /\ inbox' = [inbox EXCEPT ![c] = <<>>]
    /\ UNCHANGED <<dir, own>>

-----------------------------------------------------------------------------
(* The container. *)

\* root.Create: a directory without a state.
CreateContainer ==
    /\ own = 0 /\ \E d \in Dirs : dir[d] = "none" /\ own' = d /\ dir' = [dir EXCEPT ![d] = "empty"]
    /\ UNCHANGED <<phase, target, process, inbox>>

\* container.Run: the init process is prepared, and executes the container's init.
RunContainer ==
    /\ own # 0 /\ dir[own] \in {"empty", "created"}
    /\ dir' = [dir EXCEPT ![own] = IF @ = "empty" THEN "created" ELSE "running"]
    /\ UNCHANGED <<own, phase, target, process, inbox>>

\* Init ends, and with it every process of the container.
ContainerStops ==
    /\ own # 0 /\ dir[own] \in {"created", "running"}
    /\ dir' = [dir EXCEPT ![own] = "stopped"]
    /\ process' = [c \in Commands |-> IF process[c] = "up" /\ target[c] = own
                                      THEN "killed" ELSE process[c]]
    /\ inbox' = Caught(inbox, "CHLD")
    /\ UNCHANGED <<own, phase, target>>

\* The daemon's process ends, with its goroutines; d are the containers it leaves.
DaemonGone(d) ==
    /\ own' = 0 /\ dir' = d
    /\ phase' = [c \in Commands |-> "idle"] /\ target' = [c \in Commands |-> 0]
    /\ process' = [c \in Commands |-> "none"] /\ inbox' = [c \in Commands |-> <<>>]

\* Destroy removes the directory of a container that does not run; a created one is killed.
Destroyed ==
    IF own = 0 \/ dir[own] = "running" THEN dir ELSE [dir EXCEPT ![own] = "none"]

Working(c) == RunProcess(c) \/ StartForwarding(c) \/ Forward(c)

-----------------------------------------------------------------------------
(***************************************************************************)
(* A command runs in the running container if there is one, whatever       *)
(* directories earlier daemons have left beside it (getContainer).         *)
(***************************************************************************)
EntersRunning ==
    [][\A c \in Commands :
          (phase[c] = "idle" /\ phase'[c] # "idle" /\ \E d \in Dirs : dir[d] = "running")
              => phase'[c] = "entered" /\ dir[target'[c]] = "running"]_boxVars

(***************************************************************************)
(* A command whose process has ended returns, however early it ended: its  *)
(* SIGCHLD is caught although nothing is forwarded yet, and the SIGCHLDs   *)
(* of other commands' processes do not stand in for it.                    *)
(***************************************************************************)
CommandsReturn ==
    (\E c \in Commands : process[c] \in {"exited", "killed"})
        ~> (\A c \in Commands : process[c] \notin {"exited", "killed"})
=============================================================================
