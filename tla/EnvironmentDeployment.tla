------------------------- MODULE EnvironmentDeployment -------------------------
(***************************************************************************)
(* deployApplication and undeployApplication of a standalone profile, and  *)
(* the commands that run one of their steps alone.  A deployment brings up *)
(* three groups of containers, registers the application, creates the      *)
(* tenants, then goes through them partition by partition (consortium by   *)
(* consortium, the central tenant before the members): entitlement, role,  *)
(* user, capability sets; it ends with the consortia.  Whatever exists is  *)
(* skipped, so that a deployment that failed can be repeated.              *)
(*                                                                         *)
(* A group of containers is the set of the states they are in              *)
(* (ContainerGroups); the capability sets of a role, those of              *)
(* CapabilityAttachment, are one fact.  A request that changes something   *)
(* is applied and answered, refused, or applied with its answer lost.      *)
(* Each configured tenant has one role and one user, as in the profiles of *)
(* the repository.                                                         *)
(***************************************************************************)
EXTENDS Naturals, FiniteSets, ContainerGroups

CONSTANTS
    Setting,        \* profiles, each with the commands its user runs
    Nop,            \* NoneConsortium
    NoTenant        \* no tenant

SingleSteps == {"createTenants", "createTenantEntitlements", "createRoles",
    "createUsers", "attachCapabilitySets", "createConsortiums", "removeUsers",
    "removeRoles", "removeTenantEntitlements", "removeTenants"}

\* consortia: ConfigConsortiums, empty for a profile without; of: for each of
\* ConfigTenants its consortium entry, Nop without one; central: the tenants
\* with the central-tenant entry.
ASSUME EnvironmentAssumption ==
    \A s \in Setting :
        /\ IsFiniteSet(DOMAIN s.of)
        /\ NoTenant \notin DOMAIN s.of
        /\ Nop \notin s.consortia
        /\ s.of \in [DOMAIN s.of -> s.consortia \union {Nop}]
        /\ s.central \subseteq DOMAIN s.of
        /\ s.commands \subseteq {"deploy", "cleanup", "undeploy"} \union SingleSteps

VARIABLES
    setting,     \* the profile, chosen once
    containers,  \* per group, the states its containers are in
    registered,  \* whether the application and its discovery are
    tenants,     \* tenants that exist
    entitled,    \* tenants entitled to the application
    roles,       \* tenants whose role exists
    user,        \* per tenant, how far its user is set up
    attached,    \* tenants whose role has its capability sets
    joined,      \* per tenant, the setup status in its consortium
    cmd,         \* the command that runs
    keep,        \* the volumes, if it keeps them: --keepVolumes, or it undeploys nothing
    pc,          \* its control point
    step,        \* the step of the partition it is at
    part,        \* that partition: a consortium and a tenant type
    left,        \* consortia ConsortiumPartition, or CreateConsortium, has yet to visit
    todo,        \* tenants the loop of the step has yet to visit
    at,          \* the tenant it is at
    inherited,   \* what was half set up when the deployment began (history)
    early,       \* tenants whose sets were attached before they all existed (history)
    result       \* how the command ended

data == <<registered, tenants, entitled, roles, user, attached, joined>>
server == <<containers, data>>
control == <<step, part, left, todo, at>>
history == <<inherited, early>>
vars == <<setting, containers, registered, tenants, entitled, roles, user, attached, joined,
          cmd, keep, pc, step, part, left, todo, at, inherited, early, result>>

-----------------------------------------------------------------------------
Tenant == DOMAIN setting.of
Consortium == setting.consortia
ConsortiumOf == setting.of
Central == setting.central
Commands == setting.commands

Groups == {"system", "management", "modules"}

Runs(g) == "running" \in containers[g]

Become(g, outcomes) == \E c \in outcomes : containers' = [containers EXCEPT ![g] = c]

\* GetTenantType
TypeOf(t) == IF ConsortiumOf[t] = Nop THEN "default"
             ELSE IF t \in Central THEN "central" ELSE "member"

\* The tenants GetTenants lists for a partition
Partition(p) == {t \in Tenant : <<ConsortiumOf[t], TypeOf(t)>> = p}

Members(c) == {t \in Tenant : ConsortiumOf[t] = c}

\* The steps DeployApplication runs in each partition; the other commands run
\* the one they are named for.
FirstStep == IF cmd \in {"deploy", "cleanup"} THEN "createTenantEntitlements" ELSE cmd

\* Fault: users before roles
StepAfterUsersFirst ==
    [createTenantEntitlements |-> "createUsers",
     createUsers |-> "createRoles",
     createRoles |-> "attachCapabilitySets"]

StepAfter ==
    [createTenantEntitlements |-> "createRoles",
     createRoles |-> "createUsers",
     createUsers |-> "attachCapabilitySets"]

LastStep == cmd \in {"deploy", "cleanup"} => step \notin DOMAIN StepAfter

\* Requests to the manager applications, and to a module on behalf of a tenant:
\* "The module is not entitled on tenant" otherwise.  A group of which some
\* containers run may answer.
ManagersAnswer == Runs("system") /\ Runs("management")
Answers(t) == (\A g \in Groups : Runs(g)) /\ t \in entitled

HalfUsers == {t \in Tenant : user[t] \in {"created", "password", "roleless"}}
HalfJoins == {t \in Tenant : joined[t] \in {"pending", "erroneous", "failed"}}

DeadGroups == {g \in Groups : "dead" \in containers[g]}

Nothing == [users |-> {}, joins |-> {}, application |-> {}, dead |-> {}]

Init ==
    /\ setting \in Setting
    /\ containers = [g \in Groups |-> {"absent"}]
    /\ registered = {}
    /\ tenants = {}
    /\ entitled = {}
    /\ roles = {}
    /\ user = [t \in Tenant |-> "none"]
    /\ attached = {}
    /\ joined = [t \in Tenant |-> "none"]
    /\ cmd = "none"
    /\ keep = "nothing"
    /\ pc = "idle"
    /\ step = "none"
    /\ part = <<Nop, "default">>
    /\ left = {}
    /\ todo = {}
    /\ at = NoTenant
    /\ inherited = Nothing
    /\ early = {}
    /\ result = "none"

Goto(p) == pc' = p /\ UNCHANGED result
Return(r) == pc' = "returned" /\ result' = r

-----------------------------------------------------------------------------
Start(c, k) ==
    /\ pc = "idle"
    /\ c \in Commands
    /\ c \notin {"cleanup", "undeploy"} => k = "volumes"
    /\ cmd' = c
    /\ keep' = k
    /\ result' = "none"
    /\ pc' = CASE c \in {"cleanup", "undeploy"} -> "undeployModules"
               [] c = "deploy" -> "system"
               [] c = "createTenants" -> "tenants"
               [] c = "createConsortiums" -> "consortiums"
               [] OTHER -> "partitions"
    /\ left' = Consortium
    /\ UNCHANGED <<server, setting, step, part, todo, at, history>>

-----------------------------------------------------------------------------
(***************************************************************************)
(* UndeployApplication                                                     *)
(***************************************************************************)
UndeployModules ==
    /\ pc = "undeployModules"
    /\ \/ /\ Become("modules", AfterUndeployment(containers["modules"]))
          /\ Goto("undeployManagement")
       \/ /\ Become("modules", AfterFailedUndeployment(containers["modules"]))
          /\ Return("error")
    /\ UNCHANGED <<data, control, cmd, keep, setting, history>>

UndeployManagement ==
    /\ pc = "undeployManagement"
    /\ \/ /\ Become("management", AfterUndeployment(containers["management"]))
          /\ Goto("undeploySystem")
       \/ /\ Become("management", AfterFailedUndeployment(containers["management"]))
          /\ Return("error")
    /\ UNCHANGED <<data, control, cmd, keep, setting, history>>

WipeVolumes ==
    /\ registered' = {}
    /\ tenants' = {}
    /\ entitled' = {}
    /\ roles' = {}
    /\ user' = [t \in Tenant |-> "none"]
    /\ attached' = {}
    /\ joined' = [t \in Tenant |-> "none"]

\* Fault: the volumes go whatever the flag says
UndeploySystemPurges ==
    /\ pc = "undeploySystem"
    /\ containers' = [containers EXCEPT !["system"] = {"absent"}]
    /\ WipeVolumes
    /\ IF cmd = "cleanup" THEN Goto("system") ELSE Return("ok")
    /\ UNCHANGED <<control, cmd, keep, setting, history>>

\* Fault: the volume of the roles is not among those that go
UndeploySystemLeavesRoles ==
    /\ pc = "undeploySystem"
    /\ containers' = [containers EXCEPT !["system"] = {"absent"}]
    /\ registered' = {}
    /\ tenants' = {}
    /\ entitled' = {}
    /\ user' = [t \in Tenant |-> "none"]
    /\ joined' = [t \in Tenant |-> "none"]
    /\ IF cmd = "cleanup" THEN Goto("system") ELSE Return("ok")
    /\ UNCHANGED <<roles, attached, control, cmd, keep, setting, history>>

\* docker compose down, --volumes unless keepVolumes; it may fail after the
\* containers, or the volumes, are gone.
UndeploySystem ==
    /\ pc = "undeploySystem"
    /\ \/ /\ containers' = [containers EXCEPT !["system"] = {"absent"}]
          /\ IF keep = "volumes" THEN UNCHANGED data ELSE WipeVolumes
          /\ \/ IF cmd = "cleanup" THEN Goto("system") ELSE Return("ok")
             \/ Return("error")
       \/ /\ containers' \in {containers, [containers EXCEPT !["system"] = {"absent"}]}
          /\ Return("error")
          /\ UNCHANGED data
    /\ UNCHANGED <<control, cmd, keep, setting, history>>

-----------------------------------------------------------------------------
(***************************************************************************)
(* DeployApplication: containers, application and tenants                  *)
(***************************************************************************)
\* docker compose also starts what an earlier run left stopped.
DeploySystem ==
    /\ pc = "system"
    /\ inherited' = [users |-> HalfUsers, joins |-> HalfJoins, application |-> registered,
                     dead |-> DeadGroups]
    /\ \/ /\ containers' = [containers EXCEPT !["system"] = {"running"}]
          /\ Goto("management") \/ Return("error")
       \/ Return("error") /\ UNCHANGED containers
    /\ UNCHANGED <<data, control, cmd, keep, setting, early>>

\* PingKongStatus, then DeployManagement.  The readiness checks look at the
\* modules this run has deployed, and at none when it has deployed none.
DeployManagement ==
    /\ pc = "management"
    /\ \/ /\ Runs("system")
          /\ Become("management", {AfterDeployment(containers["management"])})
          /\ Goto("modules")
       \/ /\ Become("management", AfterFailedDeployment(containers["management"]))
          /\ Return("error")
    /\ UNCHANGED <<data, control, cmd, keep, setting, history>>

DeployModules ==
    /\ pc = "modules"
    /\ \/ /\ Runs("system")
          /\ Become("modules", {AfterDeployment(containers["modules"])})
          /\ Goto("application")
       \/ /\ Become("modules", AfterFailedDeployment(containers["modules"]))
          /\ Return("error")
    /\ UNCHANGED <<data, control, cmd, keep, setting, history>>

\* An application that exists is skipped, and its discovery with it.
CreateApplication ==
    /\ pc = "application"
    /\ \/ /\ ManagersAnswer
          /\ "application" \in registered
          /\ Goto("tenants")
          /\ UNCHANGED registered
       \/ /\ ManagersAnswer
          /\ "application" \notin registered
          /\ registered' = registered \union {"application"}
          /\ Goto("discovery") \/ Return("error")
       \/ Return("error") /\ UNCHANGED registered
    /\ UNCHANGED <<containers, tenants, entitled, roles, user, attached, joined, control,
                   cmd, keep, setting, history>>

CreateDiscovery ==
    /\ pc = "discovery"
    /\ \/ /\ registered' = registered \union {"discovery"}
          /\ Goto("tenants") \/ Return("error")
       \/ Return("error") /\ UNCHANGED registered
    /\ UNCHANGED <<containers, tenants, entitled, roles, user, attached, joined, control,
                   cmd, keep, setting, history>>

\* CreateTenants skips those that exist.
CreateTenant(t) ==
    /\ pc = "tenants"
    /\ t \notin tenants
    /\ \/ /\ ManagersAnswer
          /\ tenants' = tenants \union {t}
          /\ UNCHANGED <<pc, result>> \/ Return("error")
       \/ Return("error") /\ UNCHANGED tenants
    /\ UNCHANGED <<containers, registered, entitled, roles, user, attached, joined,
                   control, cmd, keep, setting, history>>

CreateTenantsEnds ==
    /\ pc = "tenants"
    /\ \/ /\ ManagersAnswer
          /\ tenants = Tenant
          /\ IF cmd = "createTenants" THEN Return("ok") ELSE Goto("partitions")
       \/ Return("error")
    /\ UNCHANGED <<server, control, cmd, keep, setting, history>>

-----------------------------------------------------------------------------
(***************************************************************************)
(* ConsortiumPartition and TenantPartition                                 *)
(***************************************************************************)
\* Fault: the members before their central tenant
EnterPartitionMembersFirst(c) ==
    /\ pc = "partitions"
    /\ c \in left
    /\ left' = left \ {c}
    /\ part' = <<c, "member">>
    /\ step' = FirstStep
    /\ Goto("list")
    /\ UNCHANGED <<server, todo, at, cmd, keep, setting, history>>

\* The consortia come in the order of a Go map.
EnterPartition(c) ==
    /\ pc = "partitions"
    /\ \/ /\ c \in left
          /\ left' = left \ {c}
          /\ part' = <<c, "central">>
       \/ /\ Consortium = {}
          /\ c = Nop
          /\ part' = <<Nop, "default">>
          /\ UNCHANGED left
    /\ step' = FirstStep
    /\ Goto("list")
    /\ UNCHANGED <<server, todo, at, cmd, keep, setting, history>>

\* The next step of the partition, the other tenant type of the consortium, or
\* the next consortium
StepDone ==
    /\ pc = "visit"
    /\ todo = {}
    /\ \/ /\ ~LastStep
          /\ step' = StepAfter[step]
          /\ Goto("list")
          /\ UNCHANGED <<part, left>>
       \/ /\ LastStep
          /\ part[2] = "central"
          /\ part' = <<part[1], "member">>
          /\ step' = FirstStep
          /\ Goto("list")
          /\ UNCHANGED left
       \/ /\ LastStep
          /\ part[2] # "central"
          /\ left # {}
          /\ Goto("partitions")
          /\ UNCHANGED <<step, part, left>>
       \/ /\ LastStep
          /\ part[2] # "central"
          /\ left = {}
          /\ IF cmd \in {"deploy", "cleanup"} THEN Goto("consortiums") ELSE Return("ok")
          /\ left' = Consortium
          /\ UNCHANGED <<step, part>>
    /\ UNCHANGED <<server, todo, at, cmd, keep, setting, history>>

\* Fault: every step answers a failing GetTenants with nil
ListTenantsSwallowed ==
    /\ pc = "list"
    /\ Goto("visit")
    /\ todo' \in {{}, Partition(part) \intersect tenants}
    /\ UNCHANGED <<server, step, part, left, at, cmd, keep, setting, history>>

\* The tokens, then GetTenants.  CreateTenantEntitlementForApplication answers
\* a failing GetTenants with nil.
ListTenants ==
    /\ pc = "list"
    /\ \/ /\ ManagersAnswer
          /\ Goto("visit")
          /\ todo' = Partition(part) \intersect tenants
       \/ /\ step = "createTenantEntitlements"
          /\ Goto("visit")
          /\ todo' = {}
       \/ Return("error") /\ UNCHANGED todo
    /\ UNCHANGED <<server, step, part, left, at, cmd, keep, setting, history>>

-----------------------------------------------------------------------------
(***************************************************************************)
(* The steps, tenant by tenant; the first error ends the command.          *)
(***************************************************************************)
Visits(t, s) == pc = "visit" /\ step = s /\ t \in todo

Done(t) == todo' = todo \ {t}

Fails == Return("error") /\ UNCHANGED todo

\* CreateTenantEntitlementForApplication skips an entitled tenant.
EntitleTenant(t) ==
    /\ Visits(t, "createTenantEntitlements")
    /\ \/ /\ ManagersAnswer
          /\ t \in entitled
          /\ Done(t)
          /\ UNCHANGED <<entitled, pc, result>>
       \/ /\ ManagersAnswer
          /\ "application" \in registered
          /\ entitled' = entitled \union {t}
          /\ \/ Done(t) /\ UNCHANGED <<pc, result>>
             \/ Fails
       \/ Fails /\ UNCHANGED entitled
    /\ UNCHANGED <<containers, registered, tenants, roles, user, attached, joined, step,
                   part, left, at, cmd, keep, setting, history>>

\* CreateRoles skips a role that exists.
CreateRole(t) ==
    /\ Visits(t, "createRoles")
    /\ \/ /\ Answers(t)
          /\ roles' = roles \union {t}
          /\ \/ Done(t) /\ UNCHANGED <<pc, result>>
             \/ t \notin roles /\ Fails
       \/ Fails /\ UNCHANGED roles
    /\ UNCHANGED <<containers, registered, tenants, entitled, user, attached, joined, step,
                   part, left, at, cmd, keep, setting, history>>

\* CreateUsers skips a user that exists, whatever it lacks.
CreateUser(t) ==
    /\ Visits(t, "createUsers")
    /\ \/ /\ Answers(t)
          /\ user[t] # "none"
          /\ Done(t)
          /\ UNCHANGED <<user, pc, at, result>>
       \/ /\ Answers(t)
          /\ user[t] = "none"
          /\ user' = [user EXCEPT ![t] = "created"]
          /\ \/ Goto("password") /\ Done(t) /\ at' = t
             \/ Fails /\ UNCHANGED at
       \/ Fails /\ UNCHANGED <<user, at>>
    /\ UNCHANGED <<containers, registered, tenants, entitled, roles, attached, joined, step,
                   part, left, cmd, keep, setting, history>>

AttachUserPassword ==
    /\ pc = "password"
    /\ \/ /\ user' = [user EXCEPT ![at] = "password"]
          /\ Goto("userRoles") \/ Return("error")
       \/ Return("error") /\ UNCHANGED user
    /\ UNCHANGED <<containers, registered, tenants, entitled, roles, attached, joined,
                   control, cmd, keep, setting, history>>

\* attachUserRoles passes over a role it does not find.
AttachUserRoles ==
    /\ pc = "userRoles"
    /\ \/ /\ user' = [user EXCEPT ![at] = IF at \in roles THEN "ready" ELSE "roleless"]
          /\ \/ Goto("visit") /\ at' = NoTenant
             \/ Return("error") /\ UNCHANGED at
       \/ Return("error") /\ UNCHANGED <<user, at>>
    /\ UNCHANGED <<containers, registered, tenants, entitled, roles, attached, joined, step,
                   part, left, todo, cmd, keep, setting, history>>

\* AttachCapabilitySets looks for the configured roles among those that exist.
\* It passes with sets missing when the poll lets a rebalance pass for a drained
\* group, and when there are none to attach yet.
AttachCapabilitySets(t) ==
    /\ Visits(t, "attachCapabilitySets")
    /\ \/ /\ Answers(t)
          /\ \/ attached' = attached \union ({t} \intersect roles) /\ UNCHANGED early
             \/ early' = early \union {t} /\ UNCHANGED attached
          /\ Done(t)
          /\ UNCHANGED <<pc, result>>
       \/ Fails /\ UNCHANGED <<attached, early>>
    /\ UNCHANGED <<containers, registered, tenants, entitled, roles, user, joined, step,
                   part, left, at, cmd, keep, setting, inherited>>

RemoveUser(t) ==
    /\ Visits(t, "removeUsers")
    /\ \/ /\ Answers(t)
          /\ user' = [user EXCEPT ![t] = "none"]
          /\ \/ Done(t) /\ UNCHANGED <<pc, result>>
             \/ user[t] # "none" /\ Fails
       \/ Fails /\ UNCHANGED user
    /\ UNCHANGED <<containers, registered, tenants, entitled, roles, attached, joined, step,
                   part, left, at, cmd, keep, setting, history>>

\* The role goes with its capability sets, and its user is left without it.
RemoveRole(t) ==
    /\ Visits(t, "removeRoles")
    /\ \/ /\ Answers(t)
          /\ roles' = roles \ {t}
          /\ attached' = attached \ {t}
          /\ user' = [user EXCEPT ![t] = IF @ = "ready" THEN "roleless" ELSE @]
          /\ \/ Done(t) /\ UNCHANGED <<pc, result>>
             \/ t \in roles /\ Fails
       \/ Fails /\ UNCHANGED <<roles, attached, user>>
    /\ UNCHANGED <<containers, registered, tenants, entitled, joined, step, part, left, at,
                   cmd, keep, setting, history>>

RemoveEntitlement(t) ==
    /\ Visits(t, "removeTenantEntitlements")
    /\ \/ /\ ManagersAnswer
          /\ entitled' = entitled \ {t}
          /\ \/ Done(t) /\ UNCHANGED <<pc, result>>
             \/ t \in entitled /\ Fails
       \/ Fails /\ UNCHANGED entitled
    /\ UNCHANGED <<containers, registered, tenants, roles, user, attached, joined, step,
                   part, left, at, cmd, keep, setting, history>>

\* Everything the tenant had goes with it.
RemoveTenant(t) ==
    /\ Visits(t, "removeTenants")
    /\ \/ /\ ManagersAnswer
          /\ tenants' = tenants \ {t}
          /\ entitled' = entitled \ {t}
          /\ roles' = roles \ {t}
          /\ user' = [user EXCEPT ![t] = "none"]
          /\ attached' = attached \ {t}
          /\ \/ Done(t) /\ UNCHANGED <<pc, result>>
             \/ Fails
       \/ Fails /\ UNCHANGED <<tenants, entitled, roles, user, attached>>
    /\ UNCHANGED <<containers, registered, joined, step, part, left, at, cmd, keep,
                   setting, history>>

-----------------------------------------------------------------------------
(***************************************************************************)
(* CreateConsortium                                                        *)
(***************************************************************************)
Admin(c) == \E t \in Members(c) \intersect Central : Answers(t) /\ user[t] # "none"

EnterConsortium(c) ==
    /\ pc = "consortiums"
    /\ c \in left
    /\ \/ /\ \E t \in Members(c) \intersect Central : Answers(t)
          /\ left' = left \ {c}
          /\ part' = <<c, "central">>
          /\ todo' = Members(c)
          /\ Goto("join")
       \/ Return("error") /\ UNCHANGED <<left, part, todo>>
    /\ UNCHANGED <<server, step, at, cmd, keep, setting, history>>

\* GetSortedConsortiumTenants
NextToJoin(t) ==
    /\ t \in todo
    /\ t \notin Central => todo \intersect Central = {}

\* A tenant that is listed is skipped, whatever the status of its setup.
JoinTenant(t) ==
    /\ pc = "join"
    /\ NextToJoin(t)
    /\ \/ /\ joined[t] # "none"
          /\ Done(t)
          /\ UNCHANGED <<joined, pc, at, result>>
       \/ /\ joined[t] = "none"
          /\ t \in Central \/ Admin(part[1])
          /\ joined' = [joined EXCEPT ![t] = "pending"]
          /\ \/ Goto("status") /\ Done(t) /\ at' = t
             \/ Fails /\ UNCHANGED at
       \/ Fails /\ UNCHANGED <<joined, at>>
    /\ UNCHANGED <<containers, registered, tenants, entitled, roles, user, attached, step,
                   part, left, cmd, keep, setting, history>>

\* The consortium modules set the tenant up.
SetUp(t) ==
    /\ joined[t] = "pending"
    /\ \A g \in Groups : Runs(g)
    /\ joined' \in {[joined EXCEPT ![t] = status] :
                        status \in {"completed", "erroneous", "failed"}}
    /\ UNCHANGED <<containers, registered, tenants, entitled, roles, user, attached, cmd,
                   keep, setting, pc, control, history, result>>

\* checkConsortiumTenantStatus asks again while the setup is in progress.  The
\* empty case FAILED does not fall through to the error of
\* COMPLETED_WITH_ERRORS: a failed setup passes.
TenantStatus ==
    /\ pc = "status"
    /\ \/ /\ joined[at] \in {"completed", "failed"}
          /\ Goto("join")
          /\ at' = NoTenant
       \/ Return("error") /\ UNCHANGED at
    /\ UNCHANGED <<server, step, part, left, todo, cmd, keep, setting, history>>

\* EnableCentralOrdering may fail.
ConsortiumDone ==
    /\ pc = "join"
    /\ todo = {}
    /\ Goto("consortiums") \/ Return("error")
    /\ UNCHANGED <<server, control, cmd, keep, setting, history>>

CreateConsortiumEnds ==
    /\ pc = "consortiums"
    /\ left = {}
    /\ IF cmd = "createConsortiums" THEN Return("ok") ELSE Goto("ui")
    /\ UNCHANGED <<server, control, cmd, keep, setting, history>>

\* DeployUi, UpdateKeycloakPublicClients and ReindexIndices
DeployUi ==
    /\ pc = "ui"
    /\ Return("ok") \/ Return("error")
    /\ UNCHANGED <<server, control, cmd, keep, setting, history>>

\* The command has returned, or is killed.
ProcessEnds ==
    /\ pc # "idle"
    /\ pc' = "idle"
    /\ cmd' = "none"
    /\ keep' = "nothing"
    /\ step' = "none"
    /\ part' = <<Nop, "default">>
    /\ left' = {}
    /\ todo' = {}
    /\ at' = NoTenant
    /\ inherited' = Nothing
    /\ early' = {}
    /\ result' = "none"
    /\ UNCHANGED <<server, setting>>

-----------------------------------------------------------------------------
Undeploy == UndeployModules \/ UndeployManagement \/ UndeploySystem

Containers == DeploySystem \/ DeployManagement \/ DeployModules

Application ==
    \/ CreateApplication
    \/ CreateDiscovery
    \/ \E t \in Tenant : CreateTenant(t)
    \/ CreateTenantsEnds

Partitions ==
    \/ \E c \in Consortium \union {Nop} : EnterPartition(c)
    \/ ListTenants
    \/ StepDone

Create ==
    \/ \E t \in Tenant :
          EntitleTenant(t) \/ CreateRole(t) \/ CreateUser(t) \/ AttachCapabilitySets(t)
    \/ AttachUserPassword
    \/ AttachUserRoles

Remove ==
    \E t \in Tenant :
        RemoveUser(t) \/ RemoveRole(t) \/ RemoveEntitlement(t) \/ RemoveTenant(t)

CreateConsortium ==
    \/ \E c \in Consortium : EnterConsortium(c)
    \/ \E t \in Tenant : JoinTenant(t)
    \/ TenantStatus
    \/ ConsortiumDone
    \/ CreateConsortiumEnds

Next ==
    \/ \E c \in Commands, k \in {"volumes", "nothing"} : Start(c, k)
    \/ Undeploy
    \/ Containers
    \/ Application
    \/ Partitions
    \/ Create
    \/ Remove
    \/ CreateConsortium
    \/ \E t \in Tenant : SetUp(t)
    \/ DeployUi
    \/ ProcessEnds

Spec == Init /\ [][Next]_vars

-----------------------------------------------------------------------------
(***************************************************************************)
(* Properties                                                              *)
(***************************************************************************)
Progress == {"none", "created", "password", "roleless", "ready"}
Status == {"none", "pending", "completed", "erroneous", "failed"}

\* Every variable stays in its domain, and only tenants that exist are entitled
\* or have a role.
TypeOK ==
    /\ setting \in Setting
    /\ containers \in [Groups -> GroupState]
    /\ containers["system"] \in {{"running"}, {"absent"}}
    /\ registered \subseteq {"application", "discovery"}
    /\ tenants \subseteq Tenant
    /\ entitled \subseteq tenants
    /\ roles \subseteq tenants
    /\ user \in [Tenant -> Progress]
    /\ attached \subseteq roles
    /\ joined \in [Tenant -> Status]
    /\ cmd \in Commands \union {"none"}
    /\ keep \in {"volumes", "nothing"}
    /\ pc \in {"idle", "undeployModules", "undeployManagement", "undeploySystem",
               "system", "management", "modules", "application", "discovery",
               "tenants", "partitions", "list", "visit", "password", "userRoles",
               "consortiums", "join", "status", "ui", "returned"}
    /\ step \in SingleSteps \union {"none"}
    /\ part \in (Consortium \union {Nop}) \X {"central", "member", "default"}
    /\ left \subseteq Consortium
    /\ todo \subseteq Tenant
    /\ at \in Tenant \union {NoTenant}
    /\ pc \in {"password", "userRoles", "status"} => at \in Tenant
    /\ inherited \in [users : SUBSET Tenant, joins : SUBSET Tenant,
                      application : SUBSET {"application", "discovery"},
                      dead : SUBSET Groups]
    /\ early \subseteq Tenant
    /\ result \in {"none", "ok", "error"}

\* The tenants ConsortiumPartition goes through
Covered == {t \in Tenant : IF Consortium = {} THEN ConsortiumOf[t] = Nop
                           ELSE ConsortiumOf[t] \in Consortium}

\* A deployment that succeeds has set up everything the profile configures, over
\* whatever earlier runs that failed or were killed had left.  The exceptions
\* are what skipping takes for complete (the containers an earlier run left
\* without running, the users and consortium tenants it left half set up, the
\* discovery of an application that already existed) and what passes for done:
\* capability sets that did not all exist yet when they were attached, and a
\* consortium tenant whose setup failed.
SuccessMeansReady ==
    pc = "returned" /\ result = "ok" /\ cmd \in {"deploy", "cleanup"} =>
        /\ \A g \in Groups :
              /\ "absent" \notin containers[g]
              /\ "dead" \in containers[g] => g \in inherited.dead
        /\ "application" \in registered
        /\ "discovery" \in registered \/ inherited.application = {"application"}
        /\ tenants = Tenant
        /\ \A t \in Covered :
              /\ t \in entitled
              /\ t \in attached \union early
              /\ user[t] = "ready" \/ t \in inherited.users
              /\ \/ ConsortiumOf[t] = Nop
                 \/ joined[t] \in {"completed", "failed"}
                 \/ t \in inherited.joins

\* As long as deployApplication is the only command that creates anything, no
\* user is left without its role: whatever failed and was repeated, the role
\* had been there before the user.
UsersGetTheirRole ==
    Commands \intersect SingleSteps = {} => \A t \in Tenant : user[t] # "roleless"

CentralEntitledFirst ==
    Commands \intersect SingleSteps = {} =>
        \A m \in entitled \ Central :
            ConsortiumOf[m] # Nop => Members(ConsortiumOf[m]) \intersect Central \subseteq entitled

CentralJoinsFirst ==
    \A m \in Tenant \ Central :
        joined[m] # "none" =>
            \A t \in Members(ConsortiumOf[m]) \intersect Central : joined[t] # "none"

\* A member tenant joins its consortium only after every central tenant of it
\* has, and, as long as deployApplication does the entitling, is entitled only
\* after them, although a failing tenant query passes for an empty partition:
\* the role requests for the central tenant end the run first.
CentralFirst == CentralEntitledFirst /\ CentralJoinsFirst

SurvivesWithVolumes ==
    keep = "volumes" /\ cmd \in {"cleanup", "undeploy", "deploy"} =>
        /\ registered \subseteq registered'
        /\ tenants \subseteq tenants'
        /\ entitled \subseteq entitled'
        /\ roles \subseteq roles'
        /\ attached \subseteq attached'
        /\ \A t \in Tenant : user[t] # "none" => user'[t] # "none"

\* "tenants, entitlements, users, roles and other data survive in the preserved
\* volumes" (README.md:294), through the undeployment and the deployment after it.
DataSurvives == [][SurvivesWithVolumes]_vars

-----------------------------------------------------------------------------
\* The advice to repeat a deployment that failed (README.md:1076), and the login
\* with user name and password it ends in (README.md:850): a deployment that
\* succeeds leaves no user without a password.
UsersCanLogIn ==
    pc = "returned" /\ result = "ok" /\ cmd = "deploy" =>
        \A t \in Covered : user[t] # "created"

=============================================================================
