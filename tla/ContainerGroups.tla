---------------------------- MODULE ContainerGroups ----------------------------
(***************************************************************************)
(* The containers of one kind (the management modules, the modules of a    *)
(* profile) as the set of the states they are in, and what DeployModules   *)
(* and UndeployModuleByNamePattern make of it.  A module counts with its   *)
(* sidecar, if it has one: both run; there is no module container; or      *)
(* there is one and the pair does not run, being created and never         *)
(* started, stopped and not removed, cut off from the network, or without  *)
(* its sidecar.  ModuleDeployment goes through the containers one by one.  *)
(***************************************************************************)
GroupState == (SUBSET {"running", "absent", "dead"}) \ {{}}

\* A module whose container exists is skipped, and its sidecar with it.
AfterDeployment(c) ==
    IF "absent" \in c THEN (c \ {"absent"}) \union {"running"} ELSE c

AfterFailedDeployment(c) ==
    {d \in GroupState :
        /\ c \ {"absent"} \subseteq d
        /\ d \subseteq c \union {"running", "dead"}
        /\ "absent" \in c \/ d = c}

\* A container that is stopped and cannot be removed is only logged; another
\* error ends the undeployment where it is.
AfterFailedUndeployment(c) ==
    {d \in GroupState :
        /\ c \intersect {"absent"} \subseteq d
        /\ d \subseteq c \union {"absent", "dead"}
        /\ c = {"absent"} => d = c}

AfterUndeployment(c) == {d \in AfterFailedUndeployment(c) : "running" \notin d}

================================================================================
