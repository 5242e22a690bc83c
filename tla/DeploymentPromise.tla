--------------------------- MODULE DeploymentPromise ---------------------------
(***************************************************************************)
(* What modulesvc promises the commands that call it, without goroutines,  *)
(* channels or loops.  A deployment creates containers that did not exist, *)
(* starts only containers it created, never stops or removes one, and      *)
(* succeeds only when every container it took on runs.  An undeployment    *)
(* never starts one, and succeeds only when it has dealt with every        *)
(* container it listed, none of which it leaves running.                   *)
(***************************************************************************)
CONSTANT Container

VARIABLES
    docker,  \* status of each container
    phase,   \* what the command is doing or has returned
    fresh,   \* containers the running deployment created
    owed     \* containers the command must have dealt with before success

vars == <<docker, phase, fresh, owed>>

Init ==
    /\ docker = [c \in Container |-> "absent"]
    /\ phase = "idle"
    /\ fresh = {}
    /\ owed = {}

BeginDeploy ==
    /\ phase = "idle"
    /\ phase' = "deploying"
    /\ UNCHANGED <<docker, fresh, owed>>

\* The list of containers to remove is made once, or cannot be made.
BeginUndeploy ==
    /\ phase = "idle"
    /\ \/ phase' = "undeploying" /\ owed' \subseteq {c \in Container : docker[c] # "absent"}
       \/ phase' = "error" /\ UNCHANGED owed
    /\ UNCHANGED <<docker, fresh>>

\* Taking on more containers, and possibly giving up, in any deployment step.
\* Containers still in the making go on being created after the error.
Proceed ==
    /\ phase \in {"deploying", "error"}
    /\ phase' \in {phase, "error"}
    /\ owed \subseteq owed'

Create(c) ==
    /\ Proceed
    /\ docker[c] = "absent"
    /\ docker' = [docker EXCEPT ![c] = "stopped"]
    /\ fresh' = fresh \union {c}

Start(c) ==
    /\ Proceed
    /\ c \in fresh
    /\ docker' = [docker EXCEPT ![c] = "running"]
    /\ UNCHANGED fresh

Fail == Proceed /\ UNCHANGED <<docker, fresh>>

DeploySucceeds ==
    /\ phase = "deploying"
    /\ \A c \in owed : docker[c] = "running"
    /\ phase' = "ok"
    /\ UNCHANGED <<docker, fresh, owed>>

Remove(c) ==
    /\ phase = "undeploying"
    /\ c \in owed
    /\ \/ /\ docker' \in {docker, [docker EXCEPT ![c] = "stopped"]}
          /\ phase' = "error"
          /\ UNCHANGED owed
       \/ /\ docker' \in {[docker EXCEPT ![c] = "stopped"],
                          [docker EXCEPT ![c] = "absent"]}
          /\ owed' = owed \ {c}
          /\ UNCHANGED phase
    /\ UNCHANGED fresh

UndeploySucceeds ==
    /\ phase = "undeploying"
    /\ owed = {}
    /\ phase' = "ok"
    /\ UNCHANGED <<docker, fresh, owed>>

\* The process exits or is killed; Docker keeps what it holds.
End ==
    /\ phase # "idle"
    /\ phase' = "idle"
    /\ fresh' = {}
    /\ owed' = {}
    /\ UNCHANGED docker

Next ==
    \/ BeginDeploy \/ BeginUndeploy
    \/ \E c \in Container : Create(c) \/ Start(c) \/ Remove(c)
    \/ Fail
    \/ DeploySucceeds \/ UndeploySucceeds
    \/ End

Spec == Init /\ [][Next]_vars

=============================================================================
