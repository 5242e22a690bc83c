---------------------- MODULE EnvironmentDeploymentProofs ----------------------
(***************************************************************************)
(* Proofs about EnvironmentDeployment, for every set of profiles, with any *)
(* number of tenants and consortia and any set of commands.                *)
(*                                                                         *)
(* The inductive invariant is what a deployment can count on at each of    *)
(* its control points: the containers there are (ContainersUp), the        *)
(* application and the tenants (ApplicationThere, TenantsThere), the       *)
(* tenants the partitions behind it hold (PartitionsDone), those of the    *)
(* partition it is at, step by step (StepsDone), and the consortia it has  *)
(* created (ConsortiaDone).  A user or a consortium tenant that is half    *)
(* set up is one the command found, or the one it is at (HalfUsersKnown,   *)
(* HalfJoinsKnown).                                                        *)
(***************************************************************************)
EXTENDS EnvironmentDeployment, TLAPS

Deploying == cmd \in {"deploy", "cleanup"}
DeploySteps == {"createTenantEntitlements", "createRoles", "createUsers",
                "attachCapabilitySets"}

Undeployment == {"undeployModules", "undeployManagement", "undeploySystem"}
InStep == {"visit", "password", "userRoles"}
InPartition == InStep \union {"list"}
Partitioning == InPartition \union {"partitions"}
Joining == {"join", "status"}
FromConsortia == Joining \union {"consortiums", "ui"}
FromPartitions == Partitioning \union FromConsortia
FromTenants == FromPartitions \union {"tenants"}
FromApplication == FromTenants \union {"application", "discovery"}
FromManagement == FromApplication \union {"management", "modules"}
FromSystem == FromManagement \union {"system"}

\* A deployment is at one of these control points, or has succeeded.
Reached(S) == Deploying /\ (pc \in S \/ result = "ok")

-----------------------------------------------------------------------------
\* The control point fits the command.
ControlOK ==
    /\ pc = "idle" <=> cmd = "none"
    /\ pc = "returned" <=> result # "none"
    /\ pc \in Undeployment => cmd \in {"cleanup", "undeploy"}
    /\ pc \in FromSystem => Deploying \/ cmd \in SingleSteps
    /\ pc \in (FromSystem \ FromTenants) \union {"ui"} => Deploying
    /\ pc = "tenants" => Deploying \/ cmd = "createTenants"
    /\ pc \in FromConsortia => Deploying \/ cmd = "createConsortiums"
    /\ pc \in InPartition => step = cmd \/ (Deploying /\ step \in DeploySteps)
    /\ pc \in {"password", "userRoles"} => step = "createUsers"

\* The loops go through the tenants they are meant for.
LoopOK ==
    /\ pc \in InPartition \union Joining => part[1] \notin left
    /\ pc \in InPartition =>
          part[1] \in Consortium \/ (Consortium = {} /\ part = <<Nop, "default">>)
    /\ pc \in InPartition /\ part[1] \in Consortium => part[2] \in {"central", "member"}
    /\ pc \in InStep => todo \subseteq Partition(part) \intersect tenants
    /\ pc \in {"password", "userRoles"} => at \in Partition(part)
    /\ pc \in Joining => part[1] \in Consortium /\ todo \subseteq Members(part[1])
    /\ Deploying /\ pc \in Undeployment \union (FromSystem \ FromPartitions) =>
          left = Consortium

\* No container of the groups behind is missing, and one that does not run was
\* so before.
ContainersUp ==
    /\ pc = "management" => "absent" \notin containers["system"]
    /\ pc = "modules" => \A g \in {"system", "management"} : "absent" \notin containers[g]
    /\ Reached(FromApplication) => \A g \in Groups : "absent" \notin containers[g]
    /\ Reached(FromManagement) => DeadGroups \subseteq inherited.dead

ApplicationThere ==
    /\ "discovery" \in registered => "application" \in registered
    /\ pc = "discovery" => "application" \in registered
    /\ pc \in {"management", "modules", "application"} => inherited.application = registered
    /\ Reached(FromTenants) =>
          /\ "application" \in registered
          /\ "discovery" \in registered \/ inherited.application = {"application"}

TenantsThere == Reached(FromPartitions) => tenants = Tenant

\* Whoever is half set up was so before, or is being set up.
HalfUsersKnown ==
    Reached(FromManagement) =>
        \A t \in HalfUsers :
            t \in inherited.users \/ (t = at /\ pc \in {"password", "userRoles"})

HalfJoinsKnown ==
    Reached(FromManagement) =>
        \A t \in Tenant :
            joined[t] \in {"pending", "erroneous"} =>
                t \in inherited.joins \/ (t = at /\ pc = "status")

\* What the steps give a tenant
HasRole(t) == t \in entitled /\ t \in roles
HasUser(t) == user[t] # "none"
Finished(t) == HasRole(t) /\ HasUser(t) /\ t \in attached \union early

PartitionsDone ==
    /\ Deploying /\ pc = "partitions" =>
          \A t \in Tenant : ConsortiumOf[t] \in Consortium \ left => Finished(t)
    /\ Deploying /\ pc \in InPartition =>
          /\ \A t \in Tenant :
                ConsortiumOf[t] \in Consortium \ (left \union {part[1]}) => Finished(t)
          /\ part[2] = "member" => \A t \in Partition(<<part[1], "central">>) : Finished(t)
    /\ Reached(FromConsortia) => \A t \in Covered : Finished(t)

\* The steps behind, and the tenants the loop of the present one has visited
StepsDone ==
    Deploying /\ pc \in InPartition =>
        \A t \in Partition(part) :
            /\ \/ step \in {"createUsers", "attachCapabilitySets"}
               \/ step = "createRoles" /\ pc = "visit" /\ t \notin todo
               => HasRole(t)
            /\ \/ step = "attachCapabilitySets"
               \/ step = "createUsers" /\ pc \in InStep /\ t \notin todo
               => HasUser(t)
            /\ step = "attachCapabilitySets" /\ pc = "visit" /\ t \notin todo =>
                  t \in attached \union early

ConsortiaDone ==
    /\ pc = "consortiums" =>
          \A t \in Tenant : ConsortiumOf[t] \in Consortium \ left => joined[t] # "none"
    /\ pc \in Joining =>
          \A t \in Tenant :
             /\ ConsortiumOf[t] \in Consortium \ (left \union {part[1]}) => joined[t] # "none"
             /\ t \in Members(part[1]) \ todo => joined[t] # "none"
    /\ Reached({"ui"}) =>
          \A t \in Tenant : ConsortiumOf[t] \in Consortium => joined[t] # "none"

IInv ==
    /\ TypeOK
    /\ ControlOK
    /\ LoopOK
    /\ ContainersUp
    /\ ApplicationThere
    /\ TenantsThere
    /\ HalfUsersKnown
    /\ HalfJoinsKnown
    /\ PartitionsDone
    /\ StepsDone
    /\ ConsortiaDone
    /\ UsersGetTheirRole
    /\ CentralEntitledFirst
    /\ CentralJoinsFirst

\* The profile, the control points and the helpers of the actions are plain
\* abbreviations: every proof below may look through them.
USE DEF
    Tenant, Consortium, ConsortiumOf, Central, Commands,
    Reached, Deploying, DeploySteps, Undeployment, InStep, InPartition,
    Partitioning, Joining, FromConsortia, FromPartitions, FromTenants,
    FromApplication, FromManagement, FromSystem, SingleSteps,
    DeadGroups, Goto, Return, Visits, Done, Fails, server, data, control, history

\* Nothing is there, and no command has begun.
LEMMA InitHolds == Init => IInv
  <1> SUFFICES ASSUME Init PROVE IInv
    OBVIOUS
  <1>1. TypeOK
    BY EnvironmentAssumption DEF Init, TypeOK, Progress, Status, Nothing, Groups, GroupState
  <1>2. ControlOK /\ LoopOK /\ ContainersUp /\ ApplicationThere /\ TenantsThere
    BY DEF Init, ControlOK, LoopOK, ContainersUp, ApplicationThere, TenantsThere
  <1>3. HalfUsersKnown /\ HalfJoinsKnown /\ PartitionsDone /\ StepsDone /\ ConsortiaDone
    BY DEF Init, HalfUsersKnown, HalfJoinsKnown, PartitionsDone, StepsDone, ConsortiaDone
  <1>4. UsersGetTheirRole /\ CentralEntitledFirst /\ CentralJoinsFirst
    BY DEF Init, UsersGetTheirRole, CentralEntitledFirst, CentralJoinsFirst
  <1> QED BY <1>1, <1>2, <1>3, <1>4 DEF IInv

-----------------------------------------------------------------------------
\* What a deployment and an undeployment make of a group: some state of its
\* containers; a deployment that passes leaves none absent, and none without
\* running that was not so before.
LEMMA GroupStates ==
  ASSUME NEW c \in GroupState
  PROVE  /\ AfterFailedDeployment(c) \in SUBSET GroupState
         /\ AfterFailedUndeployment(c) \in SUBSET GroupState
         /\ AfterUndeployment(c) \in SUBSET GroupState
         /\ {AfterDeployment(c)} \in SUBSET GroupState
         /\ "absent" \notin AfterDeployment(c)
         /\ "dead" \in AfterDeployment(c) => "dead" \in c
  <1>1. /\ AfterFailedDeployment(c) \in SUBSET GroupState
        /\ AfterFailedUndeployment(c) \in SUBSET GroupState
    BY DEF AfterFailedDeployment, AfterFailedUndeployment
  <1>2. AfterUndeployment(c) \in SUBSET GroupState
    BY <1>1 DEF AfterUndeployment
  <1>3. /\ {AfterDeployment(c)} \in SUBSET GroupState
        /\ "absent" \notin AfterDeployment(c)
        /\ "dead" \in AfterDeployment(c) => "dead" \in c
    BY DEF AfterDeployment, GroupState
  <1> QED BY <1>1, <1>2, <1>3

\* Only that group becomes something else.
LEMMA BecomeTypes ==
  ASSUME TypeOK, NEW g \in {"management", "modules"},
         NEW outcomes \in SUBSET GroupState, Become(g, outcomes)
  PROVE  /\ containers' \in [Groups -> GroupState]
         /\ containers'[g] \in outcomes
         /\ \A h \in Groups \ {g} : containers'[h] = containers[h]
         /\ containers'["system"] = containers["system"]
  <1>1. PICK c \in outcomes : containers' = [containers EXCEPT ![g] = c]
    BY DEF Become
  <1>2. containers \in [Groups -> GroupState] /\ "system" \in Groups
    BY DEF TypeOK, Groups
  <1> QED BY <1>1, <1>2 DEF Groups

\* The steps that touch containers leave every group in some state, and the
\* services of docker compose running or gone.
LEMMA ContainersTyped ==
  ASSUME IInv, Undeploy \/ Containers
  PROVE  /\ containers' \in [Groups -> GroupState]
         /\ containers'["system"] \in {{"running"}, {"absent"}}
  <1> USE DEF IInv
  <1>1. CASE UndeploySystem \/ DeploySystem
    BY <1>1 DEF UndeploySystem, DeploySystem, TypeOK, Groups, GroupState
  <1>2. ASSUME NEW g \in {"management", "modules"},
               NEW outcomes \in {AfterFailedDeployment(containers[g]),
                                 AfterFailedUndeployment(containers[g]),
                                 AfterUndeployment(containers[g]),
                                 {AfterDeployment(containers[g])}},
               Become(g, outcomes)
        PROVE  /\ containers' \in [Groups -> GroupState]
               /\ containers'["system"] = containers["system"]
    <2>1. containers[g] \in GroupState
      BY DEF TypeOK, Groups
    <2>2. outcomes \in SUBSET GroupState
      BY <1>2, <2>1, GroupStates
    <2> QED BY <1>2, <2>2, BecomeTypes
  <1>3. CASE UndeployModules
    BY <1>2, <1>3 DEF UndeployModules, TypeOK
  <1>4. CASE UndeployManagement
    BY <1>2, <1>4 DEF UndeployManagement, TypeOK
  <1>5. CASE DeployManagement
    BY <1>2, <1>5 DEF DeployManagement, TypeOK
  <1>6. CASE DeployModules
    BY <1>2, <1>6 DEF DeployModules, TypeOK
  <1> QED BY <1>1, <1>3, <1>4, <1>5, <1>6 DEF Undeploy, Containers

(***************************************************************************)
(* The steps of the commands, one lemma each: what it does to the types,   *)
(* to the control points and loops, to what is there once (containers,     *)
(* application, tenants, consortia) and to what the partitions leave       *)
(* behind                                                                  *)
(***************************************************************************)
LEMMA StartKeeps ==
  ASSUME IInv, NEW c \in Commands, NEW k \in {"volumes", "nothing"}, Start(c, k)
  PROVE  IInv'
  <1>1. TypeOK'
    BY DEF IInv, TypeOK, Start
  <1>2. ControlOK' /\ LoopOK'
    BY EnvironmentAssumption DEF IInv, TypeOK, ControlOK, LoopOK, Start
  <1>3. /\ ContainersUp' /\ ApplicationThere' /\ TenantsThere'
        /\ HalfJoinsKnown' /\ ConsortiaDone' /\ CentralJoinsFirst'
    BY DEF IInv, ContainersUp, ApplicationThere, TenantsThere, HalfJoinsKnown,
           ConsortiaDone, CentralJoinsFirst, Members, Start
  <1>4. /\ HalfUsersKnown' /\ PartitionsDone' /\ StepsDone'
        /\ UsersGetTheirRole' /\ CentralEntitledFirst'
    BY DEF IInv, HalfUsersKnown, PartitionsDone, StepsDone, UsersGetTheirRole,
           CentralEntitledFirst, Members, Start
  <1> QED BY <1>1, <1>2, <1>3, <1>4 DEF IInv

LEMMA UndeployModulesKeeps ==
  ASSUME IInv, UndeployModules
  PROVE  IInv'
  <1>1. TypeOK'
    BY ContainersTyped DEF IInv, TypeOK, UndeployModules, Undeploy
  <1>2. ControlOK' /\ LoopOK'
    BY DEF IInv, ControlOK, LoopOK, UndeployModules
  <1>3. /\ ContainersUp' /\ ApplicationThere' /\ TenantsThere'
        /\ HalfJoinsKnown' /\ ConsortiaDone' /\ CentralJoinsFirst'
    BY DEF IInv, ContainersUp, ApplicationThere, TenantsThere, HalfJoinsKnown,
           ConsortiaDone, CentralJoinsFirst, Members, ControlOK, UndeployModules
  <1>4. /\ HalfUsersKnown' /\ PartitionsDone' /\ StepsDone'
        /\ UsersGetTheirRole' /\ CentralEntitledFirst'
    BY DEF IInv, HalfUsersKnown, PartitionsDone, StepsDone, UsersGetTheirRole,
           CentralEntitledFirst, HasRole, HasUser, Finished, Covered, HalfUsers,
           Members, UndeployModules
  <1> QED BY <1>1, <1>2, <1>3, <1>4 DEF IInv

LEMMA UndeployManagementKeeps ==
  ASSUME IInv, UndeployManagement
  PROVE  IInv'
  <1>1. TypeOK'
    BY ContainersTyped DEF IInv, TypeOK, UndeployManagement, Undeploy
  <1>2. ControlOK' /\ LoopOK'
    BY DEF IInv, ControlOK, LoopOK, UndeployManagement
  <1>3. /\ ContainersUp' /\ ApplicationThere' /\ TenantsThere'
        /\ HalfJoinsKnown' /\ ConsortiaDone' /\ CentralJoinsFirst'
    BY DEF IInv, ContainersUp, ApplicationThere, TenantsThere, HalfJoinsKnown,
           ConsortiaDone, CentralJoinsFirst, Members, ControlOK, UndeployManagement
  <1>4. /\ HalfUsersKnown' /\ PartitionsDone' /\ StepsDone'
        /\ UsersGetTheirRole' /\ CentralEntitledFirst'
    BY DEF IInv, HalfUsersKnown, PartitionsDone, StepsDone, UsersGetTheirRole,
           CentralEntitledFirst, HasRole, HasUser, Finished, Covered, HalfUsers,
           Members, UndeployManagement
  <1> QED BY <1>1, <1>2, <1>3, <1>4 DEF IInv

\* With the volumes the data goes.
LEMMA UndeploySystemTypes ==
  ASSUME IInv, UndeploySystem
  PROVE TypeOK'
  <1> USE DEF IInv
  <1>1. UNCHANGED data \/ WipeVolumes
    BY DEF UndeploySystem, WipeVolumes
  <1>2. /\ containers' \in [Groups -> GroupState]
        /\ containers'["system"] \in {{"running"}, {"absent"}}
    BY ContainersTyped DEF Undeploy
  <1>3. /\ UNCHANGED <<control, cmd, keep, setting, history>>
        /\ pc' \in {"returned", "system"} /\ result' \in {result, "ok", "error"}
    BY DEF UndeploySystem
  <1>4. CASE UNCHANGED data
    BY <1>2, <1>3, <1>4 DEF TypeOK
  <1>5. CASE WipeVolumes
    BY <1>2, <1>3, <1>5 DEF TypeOK, WipeVolumes, Progress, Status
  <1> QED BY <1>1, <1>4, <1>5

LEMMA UndeploySystemKeeps ==
  ASSUME IInv, UndeploySystem
  PROVE  IInv'
  <1>1. TypeOK'
    BY UndeploySystemTypes
  <1>2. ControlOK' /\ LoopOK'
    BY DEF IInv, ControlOK, LoopOK, UndeploySystem
  <1>3. /\ ContainersUp' /\ ApplicationThere' /\ TenantsThere'
        /\ HalfJoinsKnown' /\ ConsortiaDone' /\ CentralJoinsFirst'
    BY DEF IInv, ContainersUp, ApplicationThere, TenantsThere, HalfJoinsKnown,
           ConsortiaDone, CentralJoinsFirst, Members, ControlOK, UndeploySystem,
           WipeVolumes
  <1>4. /\ HalfUsersKnown' /\ PartitionsDone' /\ StepsDone'
        /\ UsersGetTheirRole' /\ CentralEntitledFirst'
    BY DEF IInv, HalfUsersKnown, PartitionsDone, StepsDone, UsersGetTheirRole,
           CentralEntitledFirst, Members, ControlOK, UndeploySystem, WipeVolumes
  <1> QED BY <1>1, <1>2, <1>3, <1>4 DEF IInv

LEMMA DeploySystemKeeps ==
  ASSUME IInv, DeploySystem
  PROVE  IInv'
  <1>1. TypeOK'
    BY ContainersTyped DEF IInv, TypeOK, DeploySystem, Containers, HalfUsers, HalfJoins
  <1>2. ControlOK' /\ LoopOK'
    BY DEF IInv, ControlOK, LoopOK, DeploySystem
  <1>3. /\ ContainersUp' /\ ApplicationThere' /\ TenantsThere'
        /\ HalfJoinsKnown' /\ ConsortiaDone' /\ CentralJoinsFirst'
    BY DEF IInv, ContainersUp, ApplicationThere, TenantsThere, HalfJoinsKnown,
           ConsortiaDone, CentralJoinsFirst, Members, HalfJoins, ControlOK,
           DeploySystem, TypeOK, Groups
  <1>4. /\ HalfUsersKnown' /\ PartitionsDone' /\ StepsDone'
        /\ UsersGetTheirRole' /\ CentralEntitledFirst'
    BY DEF IInv, HalfUsersKnown, PartitionsDone, StepsDone, UsersGetTheirRole,
           CentralEntitledFirst, HasRole, HasUser, Finished, Covered, HalfUsers,
           Members, DeploySystem, HalfJoins
  <1> QED BY <1>1, <1>2, <1>3, <1>4 DEF IInv

\* The management modules are there, if not running, before the modules begin.
LEMMA DeployManagementUp ==
  ASSUME IInv, DeployManagement
  PROVE ContainersUp'
  <1> USE DEF IInv
  <1>1. CASE result' = "error" /\ pc' = "returned"
    BY <1>1 DEF ContainersUp, ControlOK
  <1>2. CASE pc' = "modules" /\ Become("management", {AfterDeployment(containers["management"])})
              /\ UNCHANGED <<cmd, history, result>>
    <2> DEFINE c == AfterDeployment(containers["management"])
    <2>1. /\ {c} \in SUBSET GroupState
          /\ "absent" \notin c
          /\ "dead" \in c => "dead" \in containers["management"]
      BY GroupStates DEF TypeOK, Groups
    <2>2. /\ containers'["management"] = c
          /\ \A h \in Groups \ {"management"} : containers'[h] = containers[h]
      BY <1>2, <2>1, BecomeTypes
    <2>3. pc = "management" /\ result = "none" /\ Deploying
      BY DEF DeployManagement, ControlOK
    <2> QED BY <1>2, <2>1, <2>2, <2>3 DEF ContainersUp, Groups
  <1> QED BY <1>1, <1>2 DEF DeployManagement

LEMMA DeployManagementKeeps ==
  ASSUME IInv, DeployManagement
  PROVE  IInv'
  <1>1. TypeOK'
    BY ContainersTyped DEF IInv, TypeOK, DeployManagement, Containers
  <1>2. ControlOK' /\ LoopOK'
    BY DEF IInv, ControlOK, LoopOK, DeployManagement
  <1>3. ContainersUp'
    BY DeployManagementUp
  <1>4. /\ ApplicationThere' /\ TenantsThere' /\ HalfJoinsKnown'
        /\ ConsortiaDone' /\ CentralJoinsFirst'
    BY DEF IInv, ApplicationThere, TenantsThere, HalfJoinsKnown,
           ConsortiaDone, Members, CentralJoinsFirst, DeployManagement
  <1>5. /\ HalfUsersKnown' /\ PartitionsDone' /\ StepsDone'
        /\ UsersGetTheirRole' /\ CentralEntitledFirst'
    BY DEF IInv, HalfUsersKnown, PartitionsDone, StepsDone, UsersGetTheirRole,
           CentralEntitledFirst, HasRole, HasUser, Finished, Covered, HalfUsers,
           Members, DeployManagement
  <1> QED BY <1>1, <1>2, <1>3, <1>4, <1>5 DEF IInv

\* The last of the groups is there.
LEMMA DeployModulesUp ==
  ASSUME IInv, DeployModules
  PROVE ContainersUp'
  <1> USE DEF IInv
  <1>1. CASE result' = "error" /\ pc' = "returned"
    BY <1>1 DEF ContainersUp, ControlOK
  <1>2. CASE pc' = "application" /\ Become("modules", {AfterDeployment(containers["modules"])})
              /\ UNCHANGED <<cmd, history, result>>
    <2> DEFINE c == AfterDeployment(containers["modules"])
    <2>1. /\ {c} \in SUBSET GroupState
          /\ "absent" \notin c
          /\ "dead" \in c => "dead" \in containers["modules"]
      BY GroupStates DEF TypeOK, Groups
    <2>2. /\ containers'["modules"] = c
          /\ \A h \in Groups \ {"modules"} : containers'[h] = containers[h]
      BY <1>2, <2>1, BecomeTypes
    <2>3. pc = "modules" /\ result = "none" /\ Deploying
      BY DEF DeployModules, ControlOK
    <2> QED BY <1>2, <2>1, <2>2, <2>3 DEF ContainersUp, Groups
  <1> QED BY <1>1, <1>2 DEF DeployModules

LEMMA DeployModulesKeeps ==
  ASSUME IInv, DeployModules
  PROVE  IInv'
  <1>1. TypeOK'
    BY ContainersTyped DEF IInv, TypeOK, DeployModules, Containers
  <1>2. ControlOK' /\ LoopOK'
    BY DEF IInv, ControlOK, LoopOK, DeployModules
  <1>3. ContainersUp'
    BY DeployModulesUp
  <1>4. /\ ApplicationThere' /\ TenantsThere' /\ HalfJoinsKnown'
        /\ ConsortiaDone' /\ CentralJoinsFirst'
    BY DEF IInv, ApplicationThere, TenantsThere, HalfJoinsKnown,
           ConsortiaDone, Members, CentralJoinsFirst, DeployModules
  <1>5. /\ HalfUsersKnown' /\ PartitionsDone' /\ StepsDone'
        /\ UsersGetTheirRole' /\ CentralEntitledFirst'
    BY DEF IInv, HalfUsersKnown, PartitionsDone, StepsDone, UsersGetTheirRole,
           CentralEntitledFirst, HasRole, HasUser, Finished, Covered, HalfUsers,
           Members, DeployModules
  <1> QED BY <1>1, <1>2, <1>3, <1>4, <1>5 DEF IInv

-----------
(***************************************************************************)
(* The application and its tenants                                         *)
(***************************************************************************)
LEMMA CreateApplicationKeeps ==
  ASSUME IInv, CreateApplication
  PROVE  IInv'
  <1>1. TypeOK'
    <2>1. registered' \subseteq {"application", "discovery"}
      BY DEF IInv, TypeOK, CreateApplication
    <2>2. pc' \in {"discovery", "tenants", "returned"} /\ result' \in {result, "error"}
      BY DEF CreateApplication
    <2>3. UNCHANGED <<containers, tenants, entitled, roles, user, attached, joined, control,
                      cmd, keep, setting, history>>
      BY DEF CreateApplication
    <2> QED BY <2>1, <2>2, <2>3 DEF IInv, TypeOK
  <1>2. ControlOK' /\ LoopOK'
    BY DEF IInv, ControlOK, LoopOK, CreateApplication
  <1>3. /\ ContainersUp' /\ ApplicationThere' /\ TenantsThere'
        /\ HalfJoinsKnown' /\ ConsortiaDone' /\ CentralJoinsFirst'
    BY DEF IInv, ContainersUp, TypeOK, ApplicationThere, TenantsThere, HalfJoinsKnown,
           ConsortiaDone, Members, CentralJoinsFirst, CreateApplication
  <1>4. /\ HalfUsersKnown' /\ PartitionsDone' /\ StepsDone'
        /\ UsersGetTheirRole' /\ CentralEntitledFirst'
    BY DEF IInv, HalfUsersKnown, PartitionsDone, StepsDone, UsersGetTheirRole,
           CentralEntitledFirst, HasRole, HasUser, Finished, Covered, HalfUsers,
           Members, CreateApplication, ManagersAnswer
  <1> QED BY <1>1, <1>2, <1>3, <1>4 DEF IInv

LEMMA CreateDiscoveryKeeps ==
  ASSUME IInv, CreateDiscovery
  PROVE  IInv'
  <1>1. TypeOK'
    <2>1. registered' \subseteq {"application", "discovery"}
      BY DEF IInv, TypeOK, CreateDiscovery
    <2>2. pc' \in {"tenants", "returned"} /\ result' \in {result, "error"}
      BY DEF CreateDiscovery
    <2>3. UNCHANGED <<containers, tenants, entitled, roles, user, attached, joined, control,
                      cmd, keep, setting, history>>
      BY DEF CreateDiscovery
    <2> QED BY <2>1, <2>2, <2>3 DEF IInv, TypeOK
  <1>2. ControlOK' /\ LoopOK'
    BY DEF IInv, ControlOK, LoopOK, CreateDiscovery
  <1>3. /\ ContainersUp' /\ ApplicationThere' /\ TenantsThere'
        /\ HalfJoinsKnown' /\ ConsortiaDone' /\ CentralJoinsFirst'
    BY DEF IInv, ContainersUp, ApplicationThere, TenantsThere, HalfJoinsKnown,
           ConsortiaDone, CentralJoinsFirst, Members, CreateDiscovery
  <1>4. /\ HalfUsersKnown' /\ PartitionsDone' /\ StepsDone'
        /\ UsersGetTheirRole' /\ CentralEntitledFirst'
    BY DEF IInv, HalfUsersKnown, PartitionsDone, StepsDone, UsersGetTheirRole,
           CentralEntitledFirst, HasRole, HasUser, Finished, Covered, HalfUsers,
           Members, CreateDiscovery
  <1> QED BY <1>1, <1>2, <1>3, <1>4 DEF IInv

LEMMA CreateTenantKeeps ==
  ASSUME IInv, NEW t \in Tenant, CreateTenant(t)
  PROVE  IInv'
  <1>1. TypeOK'
    BY DEF IInv, TypeOK, CreateTenant
  <1>2. ControlOK' /\ LoopOK'
    BY DEF IInv, ControlOK, LoopOK, CreateTenant
  <1>3. /\ ContainersUp' /\ ApplicationThere' /\ TenantsThere'
        /\ HalfJoinsKnown' /\ ConsortiaDone' /\ CentralJoinsFirst'
    BY DEF IInv, ContainersUp, ApplicationThere, TenantsThere, HalfJoinsKnown,
           ConsortiaDone, CentralJoinsFirst, Members, CreateTenant
  <1>4. /\ HalfUsersKnown' /\ PartitionsDone' /\ StepsDone'
        /\ UsersGetTheirRole' /\ CentralEntitledFirst'
    BY DEF IInv, HalfUsersKnown, PartitionsDone, StepsDone, UsersGetTheirRole,
           CentralEntitledFirst, HasRole, HasUser, Finished, Covered, HalfUsers,
           Members, CreateTenant, ManagersAnswer
  <1> QED BY <1>1, <1>2, <1>3, <1>4 DEF IInv

LEMMA CreateTenantsEndsKeeps ==
  ASSUME IInv, CreateTenantsEnds
  PROVE  IInv'
  <1>1. TypeOK'
    BY DEF IInv, TypeOK, CreateTenantsEnds
  <1>2. ControlOK' /\ LoopOK'
    BY DEF IInv, ControlOK, LoopOK, CreateTenantsEnds
  <1>3. /\ ContainersUp' /\ ApplicationThere' /\ TenantsThere'
        /\ HalfJoinsKnown' /\ ConsortiaDone' /\ CentralJoinsFirst'
    BY DEF IInv, ContainersUp, ApplicationThere, TenantsThere, HalfJoinsKnown,
           ConsortiaDone, CentralJoinsFirst, Members, CreateTenantsEnds
  <1>4. /\ HalfUsersKnown' /\ PartitionsDone' /\ StepsDone'
        /\ UsersGetTheirRole' /\ CentralEntitledFirst'
    BY DEF IInv, HalfUsersKnown, HalfUsers, StepsDone, LoopOK, HasRole, PartitionsDone,
           HasUser, Finished, Covered, TenantsThere, UsersGetTheirRole,
           CentralEntitledFirst, Members, CreateTenantsEnds, ManagersAnswer
  <1> QED BY <1>1, <1>2, <1>3, <1>4 DEF IInv

-----------------------------------------------------------------------------
(***************************************************************************)
(* The partitions and the steps over their tenants                         *)
(***************************************************************************)
LEMMA EnterPartitionKeeps ==
  ASSUME IInv, NEW c \in Consortium \union {Nop}, EnterPartition(c)
  PROVE  IInv'
  <1>1. TypeOK'
    BY DEF IInv, TypeOK, ControlOK, EnterPartition, FirstStep
  <1>2. ControlOK' /\ LoopOK'
    BY DEF IInv, TypeOK, ControlOK, LoopOK, EnterPartition, FirstStep
  <1>3. /\ ContainersUp' /\ ApplicationThere' /\ TenantsThere'
        /\ HalfJoinsKnown' /\ ConsortiaDone' /\ CentralJoinsFirst'
    BY DEF IInv, ContainersUp, ApplicationThere, TenantsThere, HalfJoinsKnown,
           ConsortiaDone, CentralJoinsFirst, Members, EnterPartition
  <1>4. /\ HalfUsersKnown' /\ PartitionsDone' /\ StepsDone'
        /\ UsersGetTheirRole' /\ CentralEntitledFirst'
    BY DEF IInv, HalfUsersKnown, PartitionsDone, StepsDone, UsersGetTheirRole,
           CentralEntitledFirst, HasRole, HasUser, Finished, Covered, HalfUsers,
           Members, EnterPartition, FirstStep
  <1> QED BY <1>1, <1>2, <1>3, <1>4 DEF IInv

LEMMA ListTenantsKeeps ==
  ASSUME IInv, ListTenants
  PROVE  IInv'
  <1>1. TypeOK'
    BY DEF IInv, TypeOK, ListTenants
  <1>2. ControlOK' /\ LoopOK'
    BY DEF IInv, ControlOK, LoopOK, ListTenants
  <1>3. /\ ContainersUp' /\ ApplicationThere' /\ TenantsThere'
        /\ HalfJoinsKnown' /\ ConsortiaDone' /\ CentralJoinsFirst'
    BY DEF IInv, ContainersUp, ApplicationThere, TenantsThere, HalfJoinsKnown,
           ConsortiaDone, CentralJoinsFirst, Members, ListTenants
  <1>4. /\ HalfUsersKnown' /\ PartitionsDone' /\ StepsDone'
        /\ UsersGetTheirRole' /\ CentralEntitledFirst'
    BY DEF IInv, HalfUsersKnown, HalfUsers, StepsDone, HasRole, PartitionsDone,
           Partition, TypeOf, HasUser, Finished, Covered, TenantsThere,
           UsersGetTheirRole, CentralEntitledFirst, Members, ListTenants,
           ManagersAnswer
  <1> QED BY <1>1, <1>2, <1>3, <1>4 DEF IInv

LEMMA StepDoneKeeps ==
  ASSUME IInv, StepDone
  PROVE  IInv'
  <1>1. TypeOK'
    BY DEF IInv, TypeOK, ControlOK, StepDone, FirstStep, StepAfter, LastStep
  <1>2. ControlOK' /\ LoopOK'
    BY DEF IInv, ControlOK, LoopOK, StepDone, FirstStep, StepAfter, LastStep
  <1>3. /\ ContainersUp' /\ ApplicationThere' /\ TenantsThere'
        /\ HalfJoinsKnown' /\ ConsortiaDone' /\ CentralJoinsFirst'
    BY DEF IInv, ContainersUp, ApplicationThere, TenantsThere, HalfJoinsKnown,
           ConsortiaDone, CentralJoinsFirst, Members, StepDone
  <1>4. /\ HalfUsersKnown' /\ PartitionsDone' /\ StepsDone'
        /\ UsersGetTheirRole' /\ CentralEntitledFirst'
    BY EnvironmentAssumption DEF IInv, HalfUsersKnown, TypeOK, ControlOK, HalfUsers,
           StepsDone, LoopOK, HasRole, PartitionsDone, Partition, TypeOf, HasUser,
           Finished, Covered, TenantsThere, UsersGetTheirRole, CentralEntitledFirst,
           Members, StepDone, FirstStep, StepAfter, LastStep
  <1> QED BY <1>1, <1>2, <1>3, <1>4 DEF IInv

LEMMA EntitleTenantKeeps ==
  ASSUME IInv, NEW t \in Tenant, EntitleTenant(t)
  PROVE  IInv'
  <1>1. TypeOK'
    BY DEF IInv, TypeOK, LoopOK, EntitleTenant
  <1>2. ControlOK' /\ LoopOK'
    BY DEF IInv, ControlOK, LoopOK, EntitleTenant
  <1>3. /\ ContainersUp' /\ ApplicationThere' /\ TenantsThere'
        /\ HalfJoinsKnown' /\ ConsortiaDone' /\ CentralJoinsFirst'
    BY DEF IInv, ContainersUp, ApplicationThere, TenantsThere, HalfJoinsKnown,
           ConsortiaDone, CentralJoinsFirst, Members, EntitleTenant
  <1>4. /\ HalfUsersKnown' /\ PartitionsDone' /\ StepsDone'
        /\ UsersGetTheirRole' /\ CentralEntitledFirst'
    BY DEF IInv, HalfUsersKnown, TypeOK, ControlOK, HalfUsers, StepsDone, LoopOK,
           HasRole, PartitionsDone, Partition, TypeOf, HasUser, Finished, Covered,
           TenantsThere, UsersGetTheirRole, CentralEntitledFirst, Members,
           EntitleTenant, ManagersAnswer
  <1> QED BY <1>1, <1>2, <1>3, <1>4 DEF IInv

LEMMA CreateRoleKeeps ==
  ASSUME IInv, NEW t \in Tenant, CreateRole(t)
  PROVE  IInv'
  <1>1. TypeOK'
    BY DEF IInv, TypeOK, CreateRole, Answers
  <1>2. ControlOK' /\ LoopOK'
    BY DEF IInv, ControlOK, LoopOK, CreateRole
  <1>3. /\ ContainersUp' /\ ApplicationThere' /\ TenantsThere'
        /\ HalfJoinsKnown' /\ ConsortiaDone' /\ CentralJoinsFirst'
    BY DEF IInv, ContainersUp, ApplicationThere, TenantsThere, HalfJoinsKnown,
           ConsortiaDone, CentralJoinsFirst, Members, CreateRole
  <1>4. /\ HalfUsersKnown' /\ PartitionsDone' /\ StepsDone'
        /\ UsersGetTheirRole' /\ CentralEntitledFirst'
    BY DEF IInv, HalfUsersKnown, PartitionsDone, StepsDone, UsersGetTheirRole,
           CentralEntitledFirst, Partition, TypeOf, HasRole, HasUser, Finished,
           Covered, HalfUsers, Members, CreateRole, Answers
  <1> QED BY <1>1, <1>2, <1>3, <1>4 DEF IInv

LEMMA CreateUserKeeps ==
  ASSUME IInv, NEW t \in Tenant, CreateUser(t)
  PROVE  IInv'
  <1>1. TypeOK'
    BY DEF IInv, TypeOK, Progress, CreateUser
  <1>2. ControlOK' /\ LoopOK'
    BY DEF IInv, ControlOK, LoopOK, Partition, TypeOf, CreateUser
  <1>3. /\ ContainersUp' /\ ApplicationThere' /\ TenantsThere'
        /\ HalfJoinsKnown' /\ ConsortiaDone' /\ CentralJoinsFirst'
    BY DEF IInv, ContainersUp, ApplicationThere, TenantsThere, HalfJoinsKnown,
           ConsortiaDone, CentralJoinsFirst, Members, CreateUser
  <1>4. /\ HalfUsersKnown' /\ PartitionsDone' /\ StepsDone'
        /\ UsersGetTheirRole' /\ CentralEntitledFirst'
    BY DEF IInv, HalfUsersKnown, TypeOK, HalfUsers, StepsDone, HasRole, PartitionsDone,
           Partition, TypeOf, HasUser, Finished, Covered, TenantsThere,
           UsersGetTheirRole, CentralEntitledFirst, Members, CreateUser, Answers
  <1> QED BY <1>1, <1>2, <1>3, <1>4 DEF IInv

LEMMA AttachCapabilitySetsKeeps ==
  ASSUME IInv, NEW t \in Tenant, AttachCapabilitySets(t)
  PROVE  IInv'
  <1>1. TypeOK'
    BY DEF IInv, TypeOK, AttachCapabilitySets
  <1>2. ControlOK' /\ LoopOK'
    BY DEF IInv, ControlOK, LoopOK, AttachCapabilitySets
  <1>3. /\ ContainersUp' /\ ApplicationThere' /\ TenantsThere'
        /\ HalfJoinsKnown' /\ ConsortiaDone' /\ CentralJoinsFirst'
    BY DEF IInv, ContainersUp, ApplicationThere, TenantsThere, HalfJoinsKnown,
           ConsortiaDone, CentralJoinsFirst, Members, AttachCapabilitySets
  <1>4. /\ HalfUsersKnown' /\ PartitionsDone' /\ StepsDone'
        /\ UsersGetTheirRole' /\ CentralEntitledFirst'
    BY DEF IInv, HalfUsersKnown, PartitionsDone, StepsDone, UsersGetTheirRole,
           CentralEntitledFirst, Partition, TypeOf, HasRole, HasUser, Finished,
           Covered, HalfUsers, Members, AttachCapabilitySets, Answers
  <1> QED BY <1>1, <1>2, <1>3, <1>4 DEF IInv

LEMMA AttachUserPasswordKeeps ==
  ASSUME IInv, AttachUserPassword
  PROVE  IInv'
  <1>1. TypeOK'
    BY DEF IInv, TypeOK, Progress, AttachUserPassword
  <1>2. ControlOK' /\ LoopOK'
    BY DEF IInv, ControlOK, LoopOK, Partition, TypeOf, AttachUserPassword
  <1>3. /\ ContainersUp' /\ ApplicationThere' /\ TenantsThere'
        /\ HalfJoinsKnown' /\ ConsortiaDone' /\ CentralJoinsFirst'
    BY DEF IInv, ContainersUp, ApplicationThere, TenantsThere, HalfJoinsKnown,
           ConsortiaDone, CentralJoinsFirst, Members, AttachUserPassword
  <1>4. /\ HalfUsersKnown' /\ PartitionsDone' /\ StepsDone'
        /\ UsersGetTheirRole' /\ CentralEntitledFirst'
    BY DEF IInv, HalfUsersKnown, TypeOK, HalfUsers, StepsDone, HasRole, PartitionsDone,
           Partition, TypeOf, HasUser, Finished, Covered, TenantsThere,
           UsersGetTheirRole, CentralEntitledFirst, Members, AttachUserPassword
  <1> QED BY <1>1, <1>2, <1>3, <1>4 DEF IInv

LEMMA AttachUserRolesKeeps ==
  ASSUME IInv, AttachUserRoles
  PROVE  IInv'
  <1>1. TypeOK'
    BY DEF IInv, TypeOK, Progress, AttachUserRoles
  <1>2. ControlOK' /\ LoopOK'
    BY DEF IInv, ControlOK, LoopOK, AttachUserRoles
  <1>3. /\ ContainersUp' /\ ApplicationThere' /\ TenantsThere'
        /\ HalfJoinsKnown' /\ ConsortiaDone' /\ CentralJoinsFirst'
    BY DEF IInv, ContainersUp, ApplicationThere, TenantsThere, HalfJoinsKnown,
           ConsortiaDone, CentralJoinsFirst, Members, AttachUserRoles
  <1>4. /\ HalfUsersKnown' /\ PartitionsDone' /\ StepsDone'
        /\ UsersGetTheirRole' /\ CentralEntitledFirst'
    BY DEF IInv, HalfUsersKnown, TypeOK, ControlOK, HalfUsers, StepsDone, LoopOK,
           HasRole, PartitionsDone, Partition, TypeOf, HasUser, Finished, Covered,
           TenantsThere, UsersGetTheirRole, CentralEntitledFirst, Members,
           AttachUserRoles
  <1> QED BY <1>1, <1>2, <1>3, <1>4 DEF IInv

LEMMA RemoveUserKeeps ==
  ASSUME IInv, NEW t \in Tenant, RemoveUser(t)
  PROVE  IInv'
  <1>1. TypeOK'
    BY DEF IInv, TypeOK, Progress, RemoveUser
  <1>2. ControlOK' /\ LoopOK'
    BY DEF IInv, ControlOK, LoopOK, RemoveUser
  <1>3. /\ ContainersUp' /\ ApplicationThere' /\ TenantsThere'
        /\ HalfJoinsKnown' /\ ConsortiaDone' /\ CentralJoinsFirst'
    BY DEF IInv, ContainersUp, ApplicationThere, TenantsThere, HalfJoinsKnown,
           ConsortiaDone, CentralJoinsFirst, Members, RemoveUser
  <1>4. /\ HalfUsersKnown' /\ PartitionsDone' /\ StepsDone'
        /\ UsersGetTheirRole' /\ CentralEntitledFirst'
    BY DEF IInv, HalfUsersKnown, TypeOK, ControlOK, StepsDone, PartitionsDone, HasUser,
           Finished, Covered, TenantsThere, UsersGetTheirRole, CentralEntitledFirst,
           Members, RemoveUser, Answers
  <1> QED BY <1>1, <1>2, <1>3, <1>4 DEF IInv

LEMMA RemoveRoleKeeps ==
  ASSUME IInv, NEW t \in Tenant, RemoveRole(t)
  PROVE  IInv'
  <1>1. TypeOK'
    BY DEF IInv, TypeOK, Progress, RemoveRole
  <1>2. ControlOK' /\ LoopOK'
    BY DEF IInv, ControlOK, LoopOK, RemoveRole
  <1>3. /\ ContainersUp' /\ ApplicationThere' /\ TenantsThere'
        /\ HalfJoinsKnown' /\ ConsortiaDone' /\ CentralJoinsFirst'
    BY DEF IInv, ContainersUp, ApplicationThere, TenantsThere, HalfJoinsKnown,
           ConsortiaDone, CentralJoinsFirst, Members, RemoveRole
  <1>4. /\ HalfUsersKnown' /\ PartitionsDone' /\ StepsDone'
        /\ UsersGetTheirRole' /\ CentralEntitledFirst'
    BY DEF IInv, HalfUsersKnown, TypeOK, ControlOK, StepsDone, PartitionsDone, HasUser,
           Finished, Covered, TenantsThere, UsersGetTheirRole, CentralEntitledFirst,
           Members, RemoveRole, Answers
  <1> QED BY <1>1, <1>2, <1>3, <1>4 DEF IInv

LEMMA RemoveEntitlementKeeps ==
  ASSUME IInv, NEW t \in Tenant, RemoveEntitlement(t)
  PROVE  IInv'
  <1>1. TypeOK'
    BY DEF IInv, TypeOK, RemoveEntitlement
  <1>2. ControlOK' /\ LoopOK'
    BY DEF IInv, ControlOK, LoopOK, RemoveEntitlement
  <1>3. /\ ContainersUp' /\ ApplicationThere' /\ TenantsThere'
        /\ HalfJoinsKnown' /\ ConsortiaDone' /\ CentralJoinsFirst'
    BY DEF IInv, ContainersUp, ApplicationThere, TenantsThere, HalfJoinsKnown,
           ConsortiaDone, CentralJoinsFirst, Members, RemoveEntitlement
  <1>4. /\ HalfUsersKnown' /\ PartitionsDone' /\ StepsDone'
        /\ UsersGetTheirRole' /\ CentralEntitledFirst'
    BY DEF IInv, HalfUsersKnown, TypeOK, ControlOK, StepsDone, PartitionsDone, HasUser,
           Finished, Covered, TenantsThere, UsersGetTheirRole, CentralEntitledFirst,
           Members, RemoveEntitlement, ManagersAnswer
  <1> QED BY <1>1, <1>2, <1>3, <1>4 DEF IInv

LEMMA RemoveTenantKeeps ==
  ASSUME IInv, NEW t \in Tenant, RemoveTenant(t)
  PROVE  IInv'
  <1>1. TypeOK'
    BY DEF IInv, TypeOK, Progress, RemoveTenant
  <1>2. ControlOK' /\ LoopOK'
    BY DEF IInv, ControlOK, LoopOK, RemoveTenant
  <1>3. /\ ContainersUp' /\ ApplicationThere' /\ TenantsThere'
        /\ HalfJoinsKnown' /\ ConsortiaDone' /\ CentralJoinsFirst'
    BY DEF IInv, ContainersUp, ApplicationThere, TenantsThere, HalfJoinsKnown,
           ConsortiaDone, CentralJoinsFirst, Members, ControlOK, RemoveTenant
  <1>4. /\ HalfUsersKnown' /\ PartitionsDone' /\ StepsDone'
        /\ UsersGetTheirRole' /\ CentralEntitledFirst'
    BY DEF IInv, HalfUsersKnown, TypeOK, ControlOK, StepsDone, PartitionsDone, HasUser,
           Finished, Covered, TenantsThere, UsersGetTheirRole, CentralEntitledFirst,
           Members, RemoveTenant, ManagersAnswer
  <1> QED BY <1>1, <1>2, <1>3, <1>4 DEF IInv

-----------------------------------------------------------------------------
(***************************************************************************)
(* The consortia, and how a command ends                                   *)
(***************************************************************************)
LEMMA EnterConsortiumKeeps ==
  ASSUME IInv, NEW c \in Consortium, EnterConsortium(c)
  PROVE  IInv'
  <1>1. TypeOK'
    BY DEF IInv, TypeOK, Members, HalfUsers, HalfJoins, EnterConsortium, Answers
  <1>2. ControlOK' /\ LoopOK'
    BY DEF IInv, ControlOK, LoopOK, Members, EnterConsortium
  <1>3. /\ ContainersUp' /\ ApplicationThere' /\ TenantsThere'
        /\ HalfJoinsKnown' /\ ConsortiaDone' /\ CentralJoinsFirst'
    BY DEF IInv, ContainersUp, ApplicationThere, TenantsThere, HalfJoinsKnown,
           ConsortiaDone, CentralJoinsFirst, Members, EnterConsortium
  <1>4. /\ HalfUsersKnown' /\ PartitionsDone' /\ StepsDone'
        /\ UsersGetTheirRole' /\ CentralEntitledFirst'
    BY DEF IInv, HalfUsersKnown, PartitionsDone, StepsDone, UsersGetTheirRole,
           CentralEntitledFirst, HasRole, HasUser, Finished, Covered, HalfUsers,
           Members, EnterConsortium, Answers
  <1> QED BY <1>1, <1>2, <1>3, <1>4 DEF IInv

LEMMA JoinTenantKeeps ==
  ASSUME IInv, NEW t \in Tenant, JoinTenant(t)
  PROVE  IInv'
  <1>1. TypeOK'
    BY DEF IInv, TypeOK, Status, JoinTenant
  <1>2. ControlOK' /\ LoopOK'
    BY DEF IInv, ControlOK, LoopOK, Members, JoinTenant
  <1>3. /\ ContainersUp' /\ ApplicationThere' /\ TenantsThere'
        /\ HalfJoinsKnown' /\ ConsortiaDone' /\ CentralJoinsFirst'
    BY DEF IInv, ContainersUp, TypeOK, ApplicationThere, TenantsThere, HalfJoinsKnown,
           ConsortiaDone, LoopOK, Members, CentralJoinsFirst, JoinTenant, NextToJoin
  <1>4. /\ HalfUsersKnown' /\ PartitionsDone' /\ StepsDone'
        /\ UsersGetTheirRole' /\ CentralEntitledFirst'
    BY DEF IInv, HalfUsersKnown, PartitionsDone, StepsDone, UsersGetTheirRole,
           CentralEntitledFirst, HasRole, HasUser, Finished, Covered, HalfUsers,
           Members, JoinTenant, NextToJoin
  <1> QED BY <1>1, <1>2, <1>3, <1>4 DEF IInv

LEMMA TenantStatusKeeps ==
  ASSUME IInv, TenantStatus
  PROVE  IInv'
  <1>1. TypeOK'
    BY DEF IInv, TypeOK, TenantStatus
  <1>2. ControlOK' /\ LoopOK'
    BY DEF IInv, ControlOK, LoopOK, Members, TenantStatus
  <1>3. /\ ContainersUp' /\ ApplicationThere' /\ TenantsThere'
        /\ HalfJoinsKnown' /\ ConsortiaDone' /\ CentralJoinsFirst'
    BY DEF IInv, ContainersUp, ApplicationThere, TenantsThere, HalfJoinsKnown,
           ConsortiaDone, CentralJoinsFirst, Members, TenantStatus
  <1>4. /\ HalfUsersKnown' /\ PartitionsDone' /\ StepsDone'
        /\ UsersGetTheirRole' /\ CentralEntitledFirst'
    BY DEF IInv, HalfUsersKnown, PartitionsDone, StepsDone, UsersGetTheirRole,
           CentralEntitledFirst, HasRole, HasUser, Finished, Covered, HalfUsers,
           Members, TenantStatus
  <1> QED BY <1>1, <1>2, <1>3, <1>4 DEF IInv

LEMMA ConsortiumDoneKeeps ==
  ASSUME IInv, ConsortiumDone
  PROVE  IInv'
  <1>1. TypeOK'
    BY DEF IInv, TypeOK, ConsortiumDone
  <1>2. ControlOK' /\ LoopOK'
    BY DEF IInv, ControlOK, LoopOK, ConsortiumDone
  <1>3. /\ ContainersUp' /\ ApplicationThere' /\ TenantsThere'
        /\ HalfJoinsKnown' /\ ConsortiaDone' /\ CentralJoinsFirst'
    BY DEF IInv, ContainersUp, ApplicationThere, TenantsThere, HalfJoinsKnown,
           ConsortiaDone, CentralJoinsFirst, Members, ConsortiumDone
  <1>4. /\ HalfUsersKnown' /\ PartitionsDone' /\ StepsDone'
        /\ UsersGetTheirRole' /\ CentralEntitledFirst'
    BY DEF IInv, HalfUsersKnown, PartitionsDone, StepsDone, UsersGetTheirRole,
           CentralEntitledFirst, HasRole, HasUser, Finished, Covered, HalfUsers,
           Members, ConsortiumDone
  <1> QED BY <1>1, <1>2, <1>3, <1>4 DEF IInv

LEMMA CreateConsortiumEndsKeeps ==
  ASSUME IInv, CreateConsortiumEnds
  PROVE  IInv'
  <1>1. TypeOK'
    BY DEF IInv, TypeOK, CreateConsortiumEnds
  <1>2. ControlOK' /\ LoopOK'
    BY DEF IInv, ControlOK, LoopOK, CreateConsortiumEnds
  <1>3. /\ ContainersUp' /\ ApplicationThere' /\ TenantsThere'
        /\ HalfJoinsKnown' /\ ConsortiaDone' /\ CentralJoinsFirst'
    BY DEF IInv, ContainersUp, ApplicationThere, TenantsThere, HalfJoinsKnown,
           ConsortiaDone, CentralJoinsFirst, Members, CreateConsortiumEnds
  <1>4. /\ HalfUsersKnown' /\ PartitionsDone' /\ StepsDone'
        /\ UsersGetTheirRole' /\ CentralEntitledFirst'
    BY DEF IInv, HalfUsersKnown, PartitionsDone, StepsDone, UsersGetTheirRole,
           CentralEntitledFirst, HasRole, HasUser, Finished, Covered, HalfUsers,
           Members, CreateConsortiumEnds
  <1> QED BY <1>1, <1>2, <1>3, <1>4 DEF IInv

LEMMA SetUpKeeps ==
  ASSUME IInv, NEW t \in Tenant, SetUp(t)
  PROVE  IInv'
  <1>1. TypeOK'
    BY DEF IInv, TypeOK, Status, SetUp
  <1>2. ControlOK' /\ LoopOK'
    BY DEF IInv, ControlOK, LoopOK, Partition, Members, TypeOf, SetUp
  <1>3. /\ ContainersUp' /\ ApplicationThere' /\ TenantsThere'
        /\ HalfJoinsKnown' /\ ConsortiaDone' /\ CentralJoinsFirst'
    BY DEF IInv, ContainersUp, TypeOK, ApplicationThere, TenantsThere, HalfJoinsKnown,
           ConsortiaDone, Members, CentralJoinsFirst, SetUp
  <1>4. /\ HalfUsersKnown' /\ PartitionsDone' /\ StepsDone'
        /\ UsersGetTheirRole' /\ CentralEntitledFirst'
    BY DEF IInv, HalfUsersKnown, PartitionsDone, StepsDone, UsersGetTheirRole,
           CentralEntitledFirst, Partition, TypeOf, HasRole, HasUser, Finished,
           Covered, HalfUsers, Members, SetUp
  <1> QED BY <1>1, <1>2, <1>3, <1>4 DEF IInv

LEMMA DeployUiKeeps ==
  ASSUME IInv, DeployUi
  PROVE  IInv'
  <1>1. TypeOK'
    BY DEF IInv, TypeOK, DeployUi
  <1>2. ControlOK' /\ LoopOK'
    BY DEF IInv, ControlOK, LoopOK, DeployUi
  <1>3. /\ ContainersUp' /\ ApplicationThere' /\ TenantsThere'
        /\ HalfJoinsKnown' /\ ConsortiaDone' /\ CentralJoinsFirst'
    BY DEF IInv, ContainersUp, ApplicationThere, TenantsThere, HalfJoinsKnown,
           ConsortiaDone, CentralJoinsFirst, Members, DeployUi
  <1>4. /\ HalfUsersKnown' /\ PartitionsDone' /\ StepsDone'
        /\ UsersGetTheirRole' /\ CentralEntitledFirst'
    BY DEF IInv, HalfUsersKnown, PartitionsDone, StepsDone, UsersGetTheirRole,
           CentralEntitledFirst, HasRole, HasUser, Finished, Covered, HalfUsers,
           Members, DeployUi
  <1> QED BY <1>1, <1>2, <1>3, <1>4 DEF IInv

LEMMA ProcessEndsKeeps ==
  ASSUME IInv, ProcessEnds
  PROVE  IInv'
  <1>1. TypeOK'
    BY DEF IInv, TypeOK, ProcessEnds, Nothing
  <1>2. ControlOK' /\ LoopOK'
    BY DEF IInv, ControlOK, LoopOK, ProcessEnds
  <1>3. /\ ContainersUp' /\ ApplicationThere' /\ TenantsThere'
        /\ HalfJoinsKnown' /\ ConsortiaDone' /\ CentralJoinsFirst'
    BY DEF IInv, ContainersUp, ApplicationThere, TenantsThere, HalfJoinsKnown,
           ConsortiaDone, CentralJoinsFirst, Members, ProcessEnds
  <1>4. /\ HalfUsersKnown' /\ PartitionsDone' /\ StepsDone'
        /\ UsersGetTheirRole' /\ CentralEntitledFirst'
    BY DEF IInv, HalfUsersKnown, PartitionsDone, StepsDone, UsersGetTheirRole,
           CentralEntitledFirst, Members, ProcessEnds, Nothing
  <1> QED BY <1>1, <1>2, <1>3, <1>4 DEF IInv

LEMMA StutterKeeps ==
  ASSUME IInv, UNCHANGED vars
  PROVE  IInv'
  <1>1. TypeOK'
    BY DEF IInv, TypeOK, vars
  <1>2. ControlOK' /\ LoopOK'
    BY DEF IInv, ControlOK, LoopOK, Partition, Members, TypeOf, vars
  <1>3. /\ ContainersUp' /\ ApplicationThere' /\ TenantsThere'
        /\ HalfJoinsKnown' /\ ConsortiaDone' /\ CentralJoinsFirst'
    BY DEF IInv, ContainersUp, ApplicationThere, TenantsThere, HalfJoinsKnown,
           ConsortiaDone, CentralJoinsFirst, Members, vars
  <1>4. /\ HalfUsersKnown' /\ PartitionsDone' /\ StepsDone'
        /\ UsersGetTheirRole' /\ CentralEntitledFirst'
    BY DEF IInv, HalfUsersKnown, PartitionsDone, StepsDone, UsersGetTheirRole,
           CentralEntitledFirst, Partition, TypeOf, HasRole, HasUser, Finished,
           Covered, HalfUsers, Members, vars
  <1> QED BY <1>1, <1>2, <1>3, <1>4 DEF IInv

-----------------------------------------------------------------------------
\* Every step keeps the invariant.
LEMMA NextStep == IInv /\ [Next]_vars => IInv'
  <1> SUFFICES ASSUME IInv, [Next]_vars PROVE IInv'
    OBVIOUS
  <1>1. CASE \E c \in Commands, k \in {"volumes", "nothing"} : Start(c, k)
    BY <1>1, StartKeeps
  <1>2. CASE Undeploy
    BY <1>2, UndeployModulesKeeps, UndeployManagementKeeps, UndeploySystemKeeps DEF Undeploy
  <1>3. CASE Containers
    BY <1>3, DeploySystemKeeps, DeployManagementKeeps, DeployModulesKeeps DEF Containers
  <1>4. CASE Application
    BY <1>4, CreateApplicationKeeps, CreateDiscoveryKeeps, CreateTenantKeeps,
       CreateTenantsEndsKeeps DEF Application
  <1>5. CASE Partitions
    BY <1>5, EnterPartitionKeeps, ListTenantsKeeps, StepDoneKeeps DEF Partitions
  <1>6. CASE Create
    BY <1>6, EntitleTenantKeeps, CreateRoleKeeps, CreateUserKeeps, AttachCapabilitySetsKeeps,
       AttachUserPasswordKeeps, AttachUserRolesKeeps DEF Create
  <1>7. CASE Remove
    BY <1>7, RemoveUserKeeps, RemoveRoleKeeps, RemoveEntitlementKeeps, RemoveTenantKeeps
       DEF Remove
  <1>8. CASE CreateConsortium
    BY <1>8, EnterConsortiumKeeps, JoinTenantKeeps, TenantStatusKeeps, ConsortiumDoneKeeps,
       CreateConsortiumEndsKeeps DEF CreateConsortium
  <1>9. CASE \E t \in Tenant : SetUp(t)
    BY <1>9, SetUpKeeps
  <1>10. CASE DeployUi \/ ProcessEnds
    BY <1>10, DeployUiKeeps, ProcessEndsKeeps
  <1>11. CASE UNCHANGED vars
    BY <1>11, StutterKeeps
  <1> QED
    BY <1>1, <1>2, <1>3, <1>4, <1>5, <1>6, <1>7, <1>8, <1>9, <1>10, <1>11 DEF Next

\* With the command at its end, what it can count on there is what it promises:
\* it has been through every partition and every consortium.
LEMMA Ready == IInv => SuccessMeansReady
  <1> SUFFICES ASSUME IInv, pc = "returned", result = "ok", Deploying
               PROVE  /\ \A g \in Groups :
                            /\ "absent" \notin containers[g]
                            /\ "dead" \in containers[g] => g \in inherited.dead
                      /\ "application" \in registered
                      /\ "discovery" \in registered \/ inherited.application = {"application"}
                      /\ tenants = Tenant
                      /\ \A t \in Covered :
                            /\ t \in entitled
                            /\ t \in attached \union early
                            /\ user[t] = "ready" \/ t \in inherited.users
                            /\ \/ ConsortiumOf[t] = Nop
                               \/ joined[t] \in {"completed", "failed"}
                               \/ t \in inherited.joins
    BY DEF SuccessMeansReady
  <1> USE DEF IInv
  <1>1. /\ \A g \in Groups :
              /\ "absent" \notin containers[g]
              /\ "dead" \in containers[g] => g \in inherited.dead
        /\ tenants = Tenant
    BY DEF ContainersUp, TenantsThere
  <1>2. /\ "application" \in registered
        /\ "discovery" \in registered \/ inherited.application = {"application"}
    BY DEF ApplicationThere
  <1>3. ASSUME NEW t \in Covered
        PROVE  /\ t \in entitled
               /\ t \in attached \union early
               /\ user[t] = "ready" \/ t \in inherited.users
               /\ \/ ConsortiumOf[t] = Nop
                  \/ joined[t] \in {"completed", "failed"}
                  \/ t \in inherited.joins
    <2>1. t \in Tenant /\ (ConsortiumOf[t] = Nop \/ ConsortiumOf[t] \in Consortium)
      BY EnvironmentAssumption DEF Covered, TypeOK
    <2>2. Finished(t)
      BY DEF PartitionsDone
    <2>3. user[t] = "ready" \/ t \in inherited.users
      BY <2>1, <2>2 DEF Finished, HasUser, HalfUsersKnown, HalfUsers, TypeOK, Progress
    <2>4. ConsortiumOf[t] \in Consortium =>
            joined[t] \in {"completed", "failed"} \/ t \in inherited.joins
      BY <2>1 DEF ConsortiaDone, HalfJoinsKnown, TypeOK, Status
    <2> QED BY <2>1, <2>2, <2>3, <2>4 DEF Finished, HasRole
  <1> QED BY <1>1, <1>2, <1>3

\* No step of deployApplication or undeployApplication but the loss of the
\* volumes removes data: the invariant says that their steps create.
LEMMA Survive == IInv /\ [Next]_vars => [SurvivesWithVolumes]_vars
  <1> SUFFICES ASSUME IInv, Next, keep = "volumes", cmd \in {"cleanup", "undeploy", "deploy"}
               PROVE  /\ registered \subseteq registered'
                      /\ tenants \subseteq tenants'
                      /\ entitled \subseteq entitled'
                      /\ roles \subseteq roles'
                      /\ attached \subseteq attached'
                      /\ \A t \in Tenant : user[t] # "none" => user'[t] # "none"
    BY DEF SurvivesWithVolumes
  <1> USE DEF IInv
  <1>1. CASE \E c \in Commands, k \in {"volumes", "nothing"} : Start(c, k)
    BY <1>1 DEF Start
  <1>2. CASE Undeploy
    BY <1>2 DEF Undeploy, UndeployModules, UndeployManagement, UndeploySystem
  <1>3. CASE Containers
    BY <1>3 DEF Containers, DeploySystem, DeployManagement, DeployModules
  <1>4. CASE Application
    BY <1>4 DEF Application, CreateApplication, CreateDiscovery, CreateTenant,
       CreateTenantsEnds
  <1>5. CASE Partitions
    BY <1>5 DEF Partitions, EnterPartition, ListTenants, StepDone
  <1>6. CASE Create
    BY <1>6 DEF Create, EntitleTenant, CreateRole, CreateUser, AttachCapabilitySets,
       AttachUserPassword, AttachUserRoles, TypeOK
  <1>7. CASE Remove
    <2>1. pc = "visit" =>
            step \notin {"removeUsers", "removeRoles", "removeTenantEntitlements", "removeTenants"}
      BY DEF ControlOK
    <2> QED BY <1>7, <2>1 DEF Remove, RemoveUser, RemoveRole, RemoveEntitlement, RemoveTenant
  <1>8. CASE CreateConsortium
    BY <1>8 DEF CreateConsortium, EnterConsortium, JoinTenant, TenantStatus,
       ConsortiumDone, CreateConsortiumEnds
  <1>9. CASE (\E t \in Tenant : SetUp(t)) \/ DeployUi \/ ProcessEnds
    BY <1>9 DEF SetUp, DeployUi, ProcessEnds
  <1> QED BY <1>1, <1>2, <1>3, <1>4, <1>5, <1>6, <1>7, <1>8, <1>9 DEF Next

-----------------------------------------------------------------------------
(***************************************************************************)
(* The theorems                                                            *)
(***************************************************************************)
\* What a deployment counts on at each control point holds in every reachable
\* state, for every profile.
THEOREM Invariance == Spec => []IInv
  BY InitHolds, NextStep, PTL DEF Spec

\* Every variable stays in its domain, and only tenants that exist are entitled
\* or have a role, for any number of tenants and consortia.
THEOREM TypeCorrect == Spec => []TypeOK
  <1>1. IInv => TypeOK
    BY DEF IInv
  <1> QED BY <1>1, Invariance, PTL

\* A deployApplication that reports success has set up everything the profile
\* configures, over whatever earlier runs that failed or were killed had left,
\* with the exceptions SuccessMeansReady names (deployApplication.go:82-135).
THEOREM SuccessMeansReadyHolds == Spec => []SuccessMeansReady
  BY Ready, Invariance, PTL

\* Where deployApplication is the only command that creates anything, no user is
\* left without its role: createRoles is behind before createUsers begins.
THEOREM UsersGetTheirRoleHolds == Spec => []UsersGetTheirRole
  <1>1. IInv => UsersGetTheirRole
    BY DEF IInv
  <1> QED BY <1>1, Invariance, PTL

\* A member tenant is entitled, and joins its consortium, only after every
\* central tenant of it (run.go:54-67, deployApplication.go:98-118,
\* consortium_svc_tenants.go:22-47, 49-95).
THEOREM CentralFirstHolds == Spec => []CentralFirst
  <1>1. IInv => CentralFirst
    BY DEF IInv, CentralFirst
  <1> QED BY <1>1, Invariance, PTL

\* As long as the volumes are kept, no step of an undeployment or a deployment
\* takes an application, a tenant, an entitlement, a role or a user away
\* (README.md:294).
THEOREM DataSurvivesHolds == Spec => DataSurvives
  BY Invariance, Survive, PTL DEF Spec, DataSurvives

================================================================================
