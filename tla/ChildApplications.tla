--------------------------- MODULE ChildApplications ---------------------------
(***************************************************************************)
(* Child applications (export, search, edge, erm) on a base application    *)
(* that stays deployed: deployApplication, with and without --cleanup, and *)
(* undeployApplication of a profile with application.dependencies, and the *)
(* commands that run one of their steps alone.  A command is a plan, the   *)
(* sequence of the steps it has yet to take; the first error ends it.  The *)
(* profiles share one tenant, its role with "all" capability sets, the     *)
(* consumer group that creates the sets and the file that counts them.     *)
(*                                                                         *)
(* The containers of a profile are a group of ContainerGroups; the polling *)
(* and the batches are those of CapabilityAttachment, here one step each.  *)
(* A request is applied and answered, refused, or applied with its answer  *)
(* lost.                                                                   *)
(***************************************************************************)
EXTENDS Naturals, FiniteSets, Sequences, ContainerGroups

CONSTANTS
    Child,          \* child applications, each with its profile
    Base,           \* the application they depend on
    NoChild,        \* no child application
    Additional,     \* the children whose modules need system containers
    Size,           \* number of capability sets of each application
    MaxCommands     \* bound: commands in a behaviour

ASSUME ChildAssumption ==
    /\ IsFiniteSet(Child)
    /\ Base \notin Child
    /\ NoChild \notin Child
    /\ Additional \subseteq Child
    /\ Size \in [Child \union {Base} -> Nat \ {0}]
    /\ MaxCommands \in Nat

VARIABLES
    parent,       \* version of the base application, "required" by the children or "newer"
    registered,   \* children whose application the manager has
    discovered,   \* children whose modules have discovery entries
    entitled,     \* children the tenant is entitled to
    containers,   \* per child, the states its containers are in
    system,       \* children whose additional system containers run
    existing,     \* capability sets the consumer group has created
    attached,     \* those the role has
    record,       \* the total in <tenant>_capability_sets.json, 0 without it
    cmd,          \* the command that runs
    child,        \* the profile it runs for
    commands,     \* commands so far
    plan,         \* the steps it has yet to take
    faulted,      \* whether a request of it failed (history)
    excuse,       \* answers it took for something else (history)
    result        \* how it ended

manager == <<registered, discovered, entitled>>
host == <<containers, system>>
sets == <<existing, attached>>
job == <<cmd, child, commands>>
vars == <<parent, registered, discovered, entitled, containers, system, existing,
          attached, record, cmd, child, commands, plan, faulted, excuse, result>>

SetsOf(apps) == UNION {{a} \X (1 .. Size[a]) : a \in apps}
CapSet == SetsOf(Child \union {Base})

\* What the entitlements call for, and what the consumer group has yet to create
Wanted == SetsOf(entitled \union {Base})
Pending == Wanted \ existing

\* GetCapabilitySets asks application by application, for those the manager has
Listed == existing \intersect SetsOf(registered \union {Base})
CountCapabilitySets == Cardinality(Listed)

Init ==
    /\ parent = "required"
    /\ registered = {}
    /\ discovered = {}
    /\ entitled = {}
    /\ containers = [a \in Child |-> {"absent"}]
    /\ system = {}
    /\ existing = SetsOf({Base})
    /\ attached = SetsOf({Base})
    /\ record = Size[Base]
    /\ cmd = "none"
    /\ child = NoChild
    /\ commands = 0
    /\ plan = <<>>
    /\ faulted = FALSE
    /\ excuse = {}
    /\ result = "none"

-----------------------------------------------------------------------------
(***************************************************************************)
(* The plans                                                               *)
(***************************************************************************)
DeployModules == <<"containers", "application", "discovery">>
UndeployModules == <<"removeApplication", "removeContainers">>
AttachCapabilitySets(forceRefresh) ==
    <<"tokens">> \o (IF forceRefresh THEN <<"refresh">> ELSE <<>>)
        \o <<"record", "poll", "attach", "count">>

\* Fault: a deployment keeps the file, as undeployApplication does
DeployTrustsRecord ==
    <<"parents", "system">> \o DeployModules
        \o <<"entitle", "detach">> \o AttachCapabilitySets(FALSE)

DeployChildApplication ==
    <<"parents", "system">> \o DeployModules
        \o <<"entitle", "detach">> \o AttachCapabilitySets(TRUE)

UndeployChildApplication ==
    <<"removeEntitlement">> \o UndeployModules
        \o <<"removeSystem", "detach">> \o AttachCapabilitySets(FALSE)

\* Fault: a cleanup removes the containers and leaves the application
CleanupKeepsApplication ==
    <<"removeEntitlement", "removeContainers", "removeSystem">> \o DeployChildApplication

\* One after the other: the parents are looked for only then.
DeployApplicationWithCleanup == UndeployChildApplication \o DeployChildApplication

Plan ==
    [deployApplication |-> DeployChildApplication,
     cleanup |-> DeployApplicationWithCleanup,
     undeployApplication |-> UndeployChildApplication,
     skipCapabilitySets |-> <<"removeEntitlement">> \o UndeployModules \o <<"removeSystem">>,
     deployAdditionalSystem |-> <<"system">>,
     undeployAdditionalSystem |-> <<"removeSystem">>,
     deployModules |-> DeployModules,
     undeployModules |-> UndeployModules,
     createTenantEntitlements |-> <<"entitle">>,
     removeTenantEntitlements |-> <<"removeEntitlementAlone">>,
     detachCapabilitySets |-> <<"detach">>,
     attachCapabilitySets |-> AttachCapabilitySets(FALSE)]

Command == DOMAIN Plan

Start(c, a) ==
    /\ cmd = "none"
    /\ commands < MaxCommands
    /\ commands' = commands + 1
    /\ cmd' = c
    /\ child' = a
    /\ plan' = Plan[c]
    /\ UNCHANGED <<parent, manager, host, sets, record, faulted, excuse, result>>

At(step) == plan # <<>> /\ Head(plan) = step

GoOn ==
    /\ plan' = Tail(plan)
    /\ result' = IF Len(plan) = 1 THEN "ok" ELSE "none"

Return(r) == plan' = <<>> /\ result' = r

\* A request fails: the command ends, or warns and goes on
Fails == faulted' = TRUE /\ Return("error")
Warns == faulted' = TRUE /\ GoOn
Succeeds == UNCHANGED faulted /\ GoOn
SucceedsOrFails == Succeeds \/ Fails
SucceedsOrWarns == Succeeds \/ Warns

-----------------------------------------------------------------------------
(***************************************************************************)
(* Deploying                                                               *)
(***************************************************************************)
\* The identifiers of GetParentAppIDs name a version.
ParentsThere == parent = "required"

ValidateParentApplications ==
    /\ At("parents")
    /\ \/ ParentsThere /\ Succeeds
       \/ ~ParentsThere /\ Return("error") /\ UNCHANGED faulted
       \/ Fails
    /\ UNCHANGED <<parent, manager, host, sets, record, job, excuse>>

\* AppendRequiredContainers: mod-search and mod-data-export-worker have some.
RequiresContainers == child \in Additional

\* docker compose up
DeployAdditionalSystem ==
    /\ At("system")
    /\ \/ ~RequiresContainers /\ Succeeds /\ UNCHANGED system
       \/ RequiresContainers /\ system' = system \union {child} /\ SucceedsOrFails
       \/ RequiresContainers /\ Fails /\ UNCHANGED system
    /\ UNCHANGED <<parent, manager, containers, sets, record, job, excuse>>

Become(outcomes) == \E c \in outcomes : containers' = [containers EXCEPT ![child] = c]

\* DeployModules up to the health checks, which look at nothing that is skipped:
\* a container an earlier command left without running passes.
DeployContainers ==
    /\ At("containers")
    /\ \/ /\ Become({AfterDeployment(containers[child])})
          /\ excuse' = excuse \union (IF "dead" \in containers[child] THEN {"containers"} ELSE {})
          /\ Succeeds
       \/ /\ Become(AfterFailedDeployment(containers[child]))
          /\ Fails
          /\ UNCHANGED excuse
    /\ UNCHANGED <<parent, manager, system, sets, record, job>>

\* CreateApplication skips an application that exists, and its discovery with it.
SkipApplication ==
    /\ plan' = SubSeq(plan, 3, Len(plan))
    /\ result' = IF Len(plan) = 2 THEN "ok" ELSE "none"
    /\ UNCHANGED <<registered, faulted>>

\* Fault: after the application that exists nothing is left to do
CreateApplicationReturns ==
    /\ At("application")
    /\ \/ /\ child \in registered
          /\ excuse' = excuse \union (IF child \in discovered THEN {} ELSE {"discovery"})
          /\ plan' = SubSeq(plan, 3, Len(plan))
          /\ result' = "ok"
          /\ UNCHANGED <<registered, faulted>>
       \/ /\ child \notin registered
          /\ registered' = registered \union {child}
          /\ SucceedsOrFails
          /\ UNCHANGED excuse
       \/ Fails /\ UNCHANGED <<registered, excuse>>
    /\ UNCHANGED <<parent, discovered, entitled, host, sets, record, job>>

CreateApplication ==
    /\ At("application")
    /\ \/ /\ child \in registered
          /\ excuse' = excuse \union (IF child \in discovered THEN {} ELSE {"discovery"})
          /\ SkipApplication
       \/ /\ child \notin registered
          /\ registered' = registered \union {child}
          /\ SucceedsOrFails
          /\ UNCHANGED excuse
       \/ Fails /\ UNCHANGED <<registered, excuse>>
    /\ UNCHANGED <<parent, discovered, entitled, host, sets, record, job>>

CreateDiscovery ==
    /\ At("discovery")
    /\ \/ discovered' = discovered \union {child} /\ SucceedsOrFails
       \/ Fails /\ UNCHANGED discovered
    /\ UNCHANGED <<parent, registered, entitled, host, sets, record, job, excuse>>

\* A tenant that is entitled is skipped; modules without a discovery entry, and
\* modules that do not run, may be refused.  A failing GetTenants is answered
\* with nil, and here no later step misses the entitlement: the role belongs to
\* the base application.
CreateTenantEntitlements ==
    /\ At("entitle")
    /\ \/ child \in entitled /\ Succeeds /\ UNCHANGED <<entitled, excuse>>
       \/ /\ child \in registered \ entitled
          /\ entitled' = entitled \union {child}
          /\ SucceedsOrFails
          /\ UNCHANGED excuse
       \/ /\ child \notin entitled
          /\ child \notin registered \intersect discovered \/ containers[child] # {"running"}
          /\ Return("error")
          /\ UNCHANGED <<entitled, faulted, excuse>>
       \/ Warns /\ excuse' = excuse \union {"tenants"} /\ UNCHANGED entitled
       \/ Fails /\ UNCHANGED <<entitled, excuse>>
    /\ UNCHANGED <<parent, registered, discovered, host, sets, record, job>>

-----------------------------------------------------------------------------
(***************************************************************************)
(* Undeploying                                                             *)
(***************************************************************************)
\* undeployApplication warns of what ends removeTenantEntitlements.
RemoveTenantEntitlements ==
    /\ At("removeEntitlement") \/ At("removeEntitlementAlone")
    /\ \/ /\ child \in entitled
          /\ entitled' = entitled \ {child}
          /\ Succeeds
       \/ /\ child \notin entitled
          /\ IF At("removeEntitlement") THEN GoOn ELSE Return("error")
          /\ UNCHANGED <<entitled, faulted>>
       \/ /\ entitled' \in {entitled, entitled \ {child}}
          /\ IF At("removeEntitlement") THEN Warns ELSE Fails
    /\ UNCHANGED <<parent, registered, discovered, host, sets, record, job, excuse>>

\* The manager refuses to remove an application a tenant is entitled to.  It may
\* keep the discovery entries.
RemoveApplication ==
    /\ At("removeApplication")
    /\ \/ /\ child \in registered \ entitled
          /\ registered' = registered \ {child}
          /\ discovered' \in {discovered, discovered \ {child}}
          /\ SucceedsOrWarns
       \/ /\ child \notin registered \ entitled
          /\ GoOn
          /\ UNCHANGED <<registered, discovered, faulted>>
       \/ (Warns \/ Fails) /\ UNCHANGED <<registered, discovered>>
    /\ UNCHANGED <<parent, entitled, host, sets, record, job, excuse>>

\* A container that is stopped and cannot be removed is only logged.
RemoveContainers ==
    /\ At("removeContainers")
    /\ \/ Become({{"absent"}}) /\ Succeeds
       \/ Become(AfterUndeployment(containers[child])) /\ Warns
       \/ Become(AfterFailedUndeployment(containers[child])) /\ Fails
    /\ UNCHANGED <<parent, manager, system, sets, record, job, excuse>>

\* docker compose stop, then rm
UndeployAdditionalSystem ==
    /\ At("removeSystem")
    /\ \/ ~RequiresContainers /\ Succeeds /\ UNCHANGED system
       \/ RequiresContainers /\ system' = system \ {child} /\ SucceedsOrFails
       \/ RequiresContainers /\ Fails /\ UNCHANGED system
    /\ UNCHANGED <<parent, manager, containers, sets, record, job, excuse>>

-----------------------------------------------------------------------------
(***************************************************************************)
(* Capability sets                                                         *)
(***************************************************************************)
\* The role loses the sets of every application; only the tokens and the
\* tenant query of TenantPartition end the command.
DetachCapabilitySets ==
    /\ At("detach")
    /\ \/ attached' = {} /\ SucceedsOrWarns
       \/ (Warns \/ Fails) /\ UNCHANGED attached
    /\ UNCHANGED <<parent, manager, host, existing, record, job, excuse>>

\* The master token, the tenants of the partition, the lifespan of the tenant's
\* tokens, a new token: an error here leaves the role without any set.
SetTokens ==
    /\ At("tokens")
    /\ SucceedsOrFails
    /\ UNCHANGED <<parent, manager, host, sets, record, job, excuse>>

\* forceRefresh removes the file, or warns that it could not.
RemoveRecord ==
    /\ At("refresh")
    /\ \/ record' = 0 /\ Succeeds /\ UNCHANGED excuse
       \/ record # 0 /\ Warns /\ excuse' = excuse \union {"file"} /\ UNCHANGED record
    /\ UNCHANGED <<parent, manager, host, sets, job>>

\* A total that matches skips the poll; a total that cannot be had does not.
ReadRecord ==
    /\ At("record")
    /\ \/ /\ record > 0
          /\ CountCapabilitySets = record
          /\ plan' = Tail(Tail(plan))
          /\ excuse' = excuse \union {"record"}
          /\ UNCHANGED <<faulted, result>>
       \/ record = 0 /\ Succeeds /\ UNCHANGED excuse
       \/ CountCapabilitySets # record /\ Succeeds /\ UNCHANGED excuse
       \/ Warns /\ UNCHANGED excuse
    /\ UNCHANGED <<parent, manager, host, sets, record, job>>

\* PollConsumerGroup: no lag, a group that tells nothing and passes for
\* drained, or an error
PollConsumerGroup ==
    /\ At("poll")
    /\ \/ Pending = {} /\ Succeeds /\ UNCHANGED excuse
       \/ Warns /\ excuse' = excuse \union {"poll"}
       \/ Fails /\ UNCHANGED excuse
    /\ UNCHANGED <<parent, manager, host, sets, record, job>>

\* AttachCapabilitySetsToRoles: what is listed and not attached, in batches
Attach ==
    /\ At("attach")
    /\ \/ attached' = attached \union Listed /\ Succeeds
       \/ \E batches \in SUBSET (Listed \ attached) :
             attached' = attached \union batches /\ Fails
    /\ UNCHANGED <<parent, manager, host, existing, record, job, excuse>>

WriteRecord ==
    /\ At("count")
    /\ \/ record' = CountCapabilitySets /\ Succeeds
       \/ Warns /\ UNCHANGED record
    /\ UNCHANGED <<parent, manager, host, sets, job, excuse>>

\* The command has returned, or is killed.
ProcessEnds ==
    /\ cmd # "none"
    /\ cmd' = "none"
    /\ child' = NoChild
    /\ plan' = <<>>
    /\ faulted' = FALSE
    /\ excuse' = {}
    /\ result' = "none"
    /\ UNCHANGED <<parent, manager, host, sets, record, commands>>

-----------------------------------------------------------------------------
(***************************************************************************)
(* Around the commands                                                     *)
(***************************************************************************)
\* The consumer group of mod-roles-keycloak creates the sets an entitlement
\* published, and removes those of an entitlement that is gone.
CreateSet(s) ==
    /\ s \in Pending
    /\ existing' = existing \union {s}
    /\ UNCHANGED <<parent, manager, host, attached, record, job, plan, faulted,
                   excuse, result>>

ForgetSet(s) ==
    /\ s \in existing \ Wanted
    /\ existing' = existing \ {s}
    /\ attached' = attached \ {s}
    /\ UNCHANGED <<parent, manager, host, record, job, plan, faulted, excuse, result>>

\* upgradeModule gives the base application its next version.
UpgradeBase ==
    /\ cmd = "none"
    /\ parent' = "newer"
    /\ UNCHANGED <<manager, host, sets, record, job, plan, faulted, excuse, result>>

\* The base profile is undeployed, its volumes and every container of the
\* compose project with it, and deployed again.  The containers of the children
\* stay.
RedeployBase ==
    /\ cmd = "none"
    /\ parent' = "required"
    /\ registered' = {}
    /\ discovered' = {}
    /\ entitled' = {}
    /\ system' = {}
    /\ existing' = SetsOf({Base})
    /\ attached' = SetsOf({Base})
    /\ record' = Size[Base]
    /\ UNCHANGED <<containers, job, plan, faulted, excuse, result>>

-----------------------------------------------------------------------------
Deploy ==
    \/ ValidateParentApplications
    \/ DeployAdditionalSystem
    \/ DeployContainers
    \/ CreateApplication
    \/ CreateDiscovery
    \/ CreateTenantEntitlements

Undeploy ==
    \/ RemoveTenantEntitlements
    \/ RemoveApplication
    \/ RemoveContainers
    \/ UndeployAdditionalSystem

CapabilitySets ==
    \/ DetachCapabilitySets
    \/ SetTokens
    \/ RemoveRecord
    \/ ReadRecord
    \/ PollConsumerGroup
    \/ Attach
    \/ WriteRecord

Next ==
    \/ \E c \in Command, a \in Child : Start(c, a)
    \/ Deploy
    \/ Undeploy
    \/ CapabilitySets
    \/ ProcessEnds
    \/ \E s \in CapSet : CreateSet(s) \/ ForgetSet(s)
    \/ UpgradeBase
    \/ RedeployBase

Spec == Init /\ [][Next]_vars

-----------------------------------------------------------------------------
(***************************************************************************)
(* Properties                                                              *)
(***************************************************************************)
Steps == UNION {{Plan[c][i] : i \in DOMAIN Plan[c]} : c \in Command}
Excuses == {"containers", "discovery", "tenants", "file", "record", "poll"}

\* Every variable stays in its domain; a tenant is entitled to registered
\* applications only, and a command has a result exactly when its plan is done.
TypeOK ==
    /\ parent \in {"required", "newer"}
    /\ registered \subseteq Child
    /\ discovered \subseteq Child
    /\ entitled \subseteq registered
    /\ containers \in [Child -> GroupState]
    /\ system \subseteq Additional
    /\ existing \subseteq CapSet
    /\ attached \subseteq existing
    /\ record \in 0 .. Cardinality(CapSet)
    /\ cmd \in Command \union {"none"}
    /\ child \in Child \union {NoChild}
    /\ commands \in 0 .. MaxCommands
    /\ plan \in Seq(Steps)
    /\ faulted \in BOOLEAN
    /\ excuse \subseteq Excuses
    /\ result \in {"none", "ok", "error"}
    /\ result # "none" <=> cmd # "none" /\ plan = <<>>

\* A deployment that succeeds has everything of the child in place and every
\* capability set of the entitled applications in the role, over whatever
\* earlier commands, failed, killed or run for another child, had left in the
\* manager, on the host, in the role or in the file.  The exceptions are exactly
\* these: a container an earlier command left without running, the discovery of
\* an application that already existed, the entitlement after a tenant query
\* that failed, a group that passed for drained and a file that could not be
\* removed.
Deployed ==
    result = "ok" /\ cmd \in {"deployApplication", "cleanup"} =>
        /\ child \in registered
        /\ "absent" \notin containers[child]
        /\ "dead" \in containers[child] => "containers" \in excuse
        /\ child \in discovered \/ "discovery" \in excuse
        /\ child \in entitled \/ "tenants" \in excuse
        /\ child \in Additional => child \in system
        /\ excuse \intersect {"poll", "file"} = {} => Wanted \subseteq attached

\* An undeployment that succeeds without a warning leaves nothing of the child
\* behind, neither in the manager (but for discovery entries, which it may keep)
\* nor on the host nor in the role, and gives the role back what the
\* applications that stay are entitled to, unless a matching total spared it the
\* wait.
Undeployed ==
    result = "ok" /\ cmd \in {"undeployApplication", "skipCapabilitySets"} =>
        /\ child \notin system
        /\ ~faulted => child \notin registered \union entitled /\ containers[child] = {"absent"}
        /\ ~faulted /\ cmd = "undeployApplication" =>
              /\ attached \intersect SetsOf({child}) = {}
              /\ SetsOf({Base}) \subseteq attached
              /\ "record" \notin excuse => Wanted \subseteq attached

\* A command that reports success has done what it was asked for.
SuccessMeansDone == Deployed /\ Undeployed

\* A deployApplication --cleanup none of whose requests fails ends well whenever
\* the parent is there, whatever was left of the child: in particular an
\* application without discovery entries, which a plain deployment skips and
\* whose entitlement is then refused, run after run.  It takes nothing an earlier
\* command left for its own.
CleanupRepairs ==
    cmd = "cleanup" /\ ParentsThere /\ ~faulted =>
        result # "error" /\ excuse \intersect {"containers", "discovery"} = {}
=============================================================================
