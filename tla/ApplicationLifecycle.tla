------------------------- MODULE ApplicationLifecycle -------------------------
(***************************************************************************)
(* Versions of an application as three commands see them: upgradeModule    *)
(* replaces a module of the base application, runLocalModule creates or    *)
(* extends a local child application, undeployApplication --applicationName*)
(* removes that one.  Descriptors, discovery entries and entitlements live *)
(* in the manager applications behind Kong and survive the command, which  *)
(* may be killed between any two requests.                                 *)
(*                                                                         *)
(* A request that changes something is applied and answered, refused, or   *)
(* applied with its answer lost: the client then sees an error.  The       *)
(* containers of the pair these commands deploy are those of               *)
(* ModuleDeployment.                                                       *)
(***************************************************************************)
EXTENDS Naturals, FiniteSets, FiniteSetsExt

CONSTANTS
    Tenant,         \* tenants the tenant manager lists
    Configured,     \* those the profile configures (HasTenant)
    MaxVersion,     \* bound: patch versions of one application
    ModuleVersion,  \* versions of the one module each application carries
    Flags,          \* sets of --skip flags a user may give
    Commands        \* commands the user may run

ASSUME LifecycleAssumption ==
    /\ Configured \subseteq Tenant
    /\ MaxVersion \in Nat \ {0}
    /\ ModuleVersion \subseteq Nat \ {0}
    /\ 1 \in ModuleVersion
    /\ Flags \subseteq SUBSET {"application", "discovery", "entitlement"}
    /\ Commands \subseteq {"upgradeModule", "runLocalModule", "undeployApplication"}

VARIABLES
    apps,        \* per application and version, its module version (0: no such version)
    discovered,  \* per application, module versions with a discovery entry
    entitled,    \* per tenant and application, the version it is entitled to (0: none)
    cmd,         \* the command that runs
    skip,        \* its --skip flags
    pc,          \* its control point
    module,      \* the module version it deploys, or removes
    prior,       \* latest version it found, 0 if there was none
    todo,        \* tenants its loop has yet to visit
    keep,        \* the version RemoveApplications ignores, 0 for no version
    phase,       \* what RemoveApplications is called for
    result       \* how the command ended

server == <<apps, discovered, entitled>>
vars == <<apps, discovered, entitled, cmd, skip, pc, module, prior, todo, keep,
          phase, result>>

-----------------------------------------------------------------------------
App == {"base", "local"}
Version == 1 .. MaxVersion

Versions(a) == {v \in Version : apps[a][v] # 0}

\* GetLatestApplicationByName
Latest(a) == IF Versions(a) = {} THEN 0 ELSE Max(Versions(a))

app == IF cmd = "upgradeModule" THEN "base" ELSE "local"

\* IncPatch of the latest version, or localApplicationBaseVersion
target == prior + 1

\* The manager does not delete a version a tenant is entitled to.
Refused(a, v) == \E t \in Tenant : entitled[t][a] = v

Init ==
    /\ apps = [a \in App |-> [v \in Version |-> IF a = "base" /\ v = 1 THEN 1 ELSE 0]]
    /\ discovered = [a \in App |-> IF a = "base" THEN {1} ELSE {}]
    /\ entitled \in [Tenant -> [App -> {0, 1}]]
    /\ \A t \in Tenant : entitled[t]["local"] = 0
    /\ cmd = "none"
    /\ skip = {}
    /\ pc = "idle"
    /\ module = 1
    /\ prior = 0
    /\ todo = {}
    /\ keep = 0
    /\ phase = "finish"
    /\ result = "none"

Return(r) == pc' = "returned" /\ result' = r

-----------------------------------------------------------------------------
(***************************************************************************)
(* upgradeModule and runLocalModule                                        *)
(***************************************************************************)
Start(c, flags) ==
    /\ pc = "idle"
    /\ c \in Commands
    /\ cmd' = c
    /\ skip' = IF c = "undeployApplication" THEN {} ELSE flags
    /\ pc' = IF c = "undeployApplication" THEN "find" ELSE "prepare"
    /\ prior' = 0
    /\ todo' = {}
    /\ keep' = 0
    /\ phase' = "finish"
    /\ result' = "none"
    /\ UNCHANGED <<server, module>>

\* Fault: the query does not ask for the latest version
PrepareAny ==
    /\ pc = "prepare"
    /\ Versions("base") # {}
    /\ prior' \in IF Versions(app) = {} THEN {0} ELSE Versions(app)
    /\ prior' < MaxVersion
    /\ module' \in ModuleVersion
    /\ pc' = "create"
    /\ UNCHANGED <<server, cmd, skip, todo, keep, phase, result>>

\* Everything before the first request that changes the server: the module
\* version (given, or the successor of the highest discovered one; from the
\* build file for a local module), the build, the pair of containers and the
\* latest version of the application.
Prepare ==
    /\ pc = "prepare"
    /\ \/ /\ Return("error")
          /\ UNCHANGED <<module, prior>>
       \/ /\ Versions("base") # {}
          /\ cmd = "upgradeModule" => discovered["base"] # {}
          /\ prior' = Latest(app)
          /\ prior' < MaxVersion
          /\ module' \in ModuleVersion
          /\ pc' = "create"
          /\ UNCHANGED result
    /\ UNCHANGED <<server, cmd, skip, todo, keep, phase>>

\* A failure here returns at once: nothing is rolled back.
CreateNewApplication ==
    /\ pc = "create"
    /\ \/ /\ "application" \in skip
          /\ pc' = "discovery"
          /\ UNCHANGED <<apps, result>>
       \/ /\ "application" \notin skip
          /\ apps' = [apps EXCEPT ![app][target] = module]
          /\ \/ pc' = "discovery" /\ UNCHANGED result
             \/ Return("error")
       \/ /\ "application" \notin skip
          /\ Return("error")
          /\ UNCHANGED apps
    /\ UNCHANGED <<discovered, entitled, cmd, skip, module, prior, todo, keep, phase>>

\* Fault: the rollback spares the version that was just created
RollbackKeepsTarget ==
    /\ phase' = "rollback"
    /\ pc' = IF cmd = "upgradeModule" THEN "rollback" ELSE "remove"
    /\ keep' = target

\* cleanupApplicationsOnFailure asks the server which versions to keep,
\* cleanupLocalAppOnFailure keeps the version found before.
Rollback ==
    /\ phase' = "rollback"
    /\ pc' = IF cmd = "upgradeModule" THEN "rollback" ELSE "remove"
    /\ keep' = prior

\* RemoveApplications(appName, newAppID)
RemoveSuperseded ==
    /\ phase' = "finish"
    /\ pc' = "remove"
    /\ keep' = target

\* Fault: a failing discovery request is only logged
CreateNewModuleDiscoveryIgnored ==
    /\ pc = "discovery"
    /\ pc' = "tenants"
    /\ discovered' \in {discovered,
                        [discovered EXCEPT ![app] = @ \union {module}]}
    /\ UNCHANGED <<apps, entitled, cmd, skip, module, prior, todo, keep, phase, result>>

CreateNewModuleDiscovery ==
    /\ pc = "discovery"
    /\ \/ /\ "discovery" \in skip
          /\ pc' = "tenants"
          /\ UNCHANGED <<discovered, keep, phase>>
       \/ /\ "discovery" \notin skip
          /\ discovered' = [discovered EXCEPT ![app] = @ \union {module}]
          /\ \/ pc' = "tenants" /\ UNCHANGED <<keep, phase>>
             \/ Rollback
       \/ /\ "discovery" \notin skip
          /\ Rollback
          /\ UNCHANGED discovered
    /\ UNCHANGED <<apps, entitled, cmd, skip, module, prior, todo, result>>

\* Fault: HasTenant is not asked
GetTenantsUnfiltered ==
    /\ pc = "tenants"
    /\ \/ RemoveSuperseded /\ UNCHANGED todo
       \/ Rollback /\ UNCHANGED todo
       \/ /\ pc' = "entitle"
          /\ todo' = Tenant
          /\ UNCHANGED <<keep, phase>>
    /\ UNCHANGED <<server, cmd, skip, module, prior, result>>

\* UpgradeTenantEntitlement and CreateTenantEntitlementForApplication up to
\* their loop.  Skipping the entitlement and a failing GetTenants go the same
\* way: the error is answered with nil, as if every tenant had been dealt with.
GetTenants ==
    /\ pc = "tenants"
    /\ \/ RemoveSuperseded /\ UNCHANGED todo
       \/ /\ "entitlement" \notin skip
          /\ Rollback
          /\ UNCHANGED todo
       \/ /\ "entitlement" \notin skip
          /\ pc' = "entitle"
          /\ todo' = Configured
          /\ UNCHANGED <<keep, phase>>
    /\ UNCHANGED <<server, cmd, skip, module, prior, result>>

\* PUT upgrades the tenant; POST, for the first version of a local
\* application, passes over a tenant that has it.  The first error ends the
\* loop.
EntitleTenant(t) ==
    /\ pc = "entitle"
    /\ t \in todo
    /\ \/ /\ target \in Versions(app)
          /\ entitled' = [entitled EXCEPT ![t][app] = target]
          /\ \/ todo' = todo \ {t} /\ UNCHANGED <<pc, keep, phase>>
             \/ Rollback /\ todo' = {}
       \/ /\ prior = 0
          /\ entitled[t][app] = target
          /\ todo' = todo \ {t}
          /\ UNCHANGED <<entitled, pc, keep, phase>>
       \/ /\ Rollback
          /\ todo' = {}
          /\ UNCHANGED entitled
    /\ UNCHANGED <<apps, discovered, cmd, skip, module, prior, result>>

EntitleEnds ==
    /\ pc = "entitle"
    /\ todo = {}
    /\ RemoveSuperseded
    /\ UNCHANGED <<server, cmd, skip, module, prior, todo, result>>

-----------------------------------------------------------------------------
(***************************************************************************)
(* cleanupApplicationsOnFailure: per configured tenant, remove every       *)
(* version but the one its first entitlement names.                        *)
(***************************************************************************)
RollbackTenants ==
    /\ pc = "rollback"
    /\ \/ Return("error") /\ UNCHANGED todo
       \/ /\ pc' = "rollbackTenant"
          /\ todo' = Configured
          /\ UNCHANGED result
    /\ UNCHANGED <<server, cmd, skip, module, prior, keep, phase>>

\* Entitlements[0] may belong to another application, whose id matches no
\* version of this one; with no entitlement at all the index panics.
RollbackTenant(t) ==
    /\ pc = "rollbackTenant"
    /\ t \in todo
    /\ todo' = todo \ {t}
    /\ \/ Return("error") /\ UNCHANGED keep
       \/ \E first \in {a \in App : entitled[t][a] # 0} :
              /\ keep' = IF first = app THEN entitled[t][first] ELSE 0
              /\ pc' = "remove"
              /\ UNCHANGED result
    /\ UNCHANGED <<server, cmd, skip, module, prior, phase>>

RollbackEnds ==
    /\ pc = "rollbackTenant"
    /\ todo = {}
    /\ Return("rolled back")
    /\ UNCHANGED <<server, cmd, skip, module, prior, todo, keep, phase>>

-----------------------------------------------------------------------------
(***************************************************************************)
(* RemoveApplications                                                      *)
(***************************************************************************)
\* Fault: a refused deletion is passed over
RemoveVersionIgnored(v) ==
    /\ pc = "remove"
    /\ v \in Versions(app) \ {keep}
    /\ IF Refused(app, v)
       THEN Return("ok") /\ UNCHANGED apps
       ELSE apps' = [apps EXCEPT ![app][v] = 0] /\ UNCHANGED <<pc, result>>
    /\ UNCHANGED <<discovered, entitled, cmd, skip, module, prior, todo, keep, phase>>

\* GET /applications or one DELETE fails: the loop stops there.
RemoveVersion(v) ==
    /\ pc = "remove"
    /\ v \in Versions(app) \ {keep}
    /\ \/ /\ ~Refused(app, v)
          /\ apps' = [apps EXCEPT ![app][v] = 0]
          /\ \/ UNCHANGED <<pc, result>>
             \/ Return("error")
       \/ Return("error") /\ UNCHANGED apps
    /\ UNCHANGED <<discovered, entitled, cmd, skip, module, prior, todo, keep, phase>>

RemoveEnds ==
    /\ pc = "remove"
    /\ \/ /\ Versions(app) \subseteq {keep}
          /\ CASE phase = "finish" -> Return("ok")
               [] phase = "rollback" /\ cmd = "upgradeModule" ->
                      pc' = "rollbackTenant" /\ UNCHANGED result
               [] OTHER -> Return("rolled back")
       \/ Return("error")
    /\ UNCHANGED <<server, cmd, skip, module, prior, todo, keep, phase>>

-----------------------------------------------------------------------------
(***************************************************************************)
(* UndeployLocalApplication: a failing removal of entitlements, discovery  *)
(* or containers is a warning.                                             *)
(***************************************************************************)
FindLocal ==
    /\ pc = "find"
    /\ \/ Return("error") /\ UNCHANGED <<module, prior, todo>>
       \/ /\ Versions("local") = {}
          /\ Return("ok")
          /\ UNCHANGED <<module, prior, todo>>
       \/ /\ Versions("local") # {}
          /\ prior' = Latest("local")
          /\ module' = apps["local"][Latest("local")]
          /\ todo' \in {Configured, {}}
          /\ pc' = "unentitle"
          /\ UNCHANGED result
    /\ UNCHANGED <<server, cmd, skip, keep, phase>>

UnentitleTenant(t) ==
    /\ pc = "unentitle"
    /\ t \in todo
    /\ \/ /\ entitled[t]["local"] = prior
          /\ entitled' = [entitled EXCEPT ![t]["local"] = 0]
          /\ todo' \in {todo \ {t}, {}}
       \/ /\ entitled[t]["local"] # prior
          /\ todo' = todo \ {t}
          /\ UNCHANGED entitled
       \/ todo' = {} /\ UNCHANGED entitled
    /\ UNCHANGED <<apps, discovered, cmd, skip, pc, module, prior, keep, phase, result>>

\* RemoveModuleDiscovery for the module of the latest version, and the
\* containers of that module; only the Docker client itself may end the
\* command.
RemoveModuleDiscovery ==
    /\ pc = "unentitle"
    /\ todo = {}
    /\ \/ Return("error") /\ UNCHANGED <<discovered, keep, phase>>
       \/ /\ discovered' \in {discovered,
                              [discovered EXCEPT !["local"] = @ \ {module}]}
          /\ pc' = "remove"
          /\ keep' = 0
          /\ phase' = "finish"
          /\ UNCHANGED result
    /\ UNCHANGED <<apps, entitled, cmd, skip, module, prior, todo>>

\* The command has returned, or is killed.
ProcessEnds ==
    /\ pc # "idle"
    /\ pc' = "idle"
    /\ cmd' = "none"
    /\ skip' = {}
    /\ module' = 1
    /\ prior' = 0
    /\ todo' = {}
    /\ keep' = 0
    /\ phase' = "finish"
    /\ result' = "none"
    /\ UNCHANGED server

-----------------------------------------------------------------------------
Entitle == GetTenants \/ EntitleEnds \/ \E t \in Tenant : EntitleTenant(t)
CleanUp == RollbackTenants \/ RollbackEnds \/ \E t \in Tenant : RollbackTenant(t)
Remove == RemoveEnds \/ \E v \in Version : RemoveVersion(v)
Undeploy == FindLocal \/ RemoveModuleDiscovery \/ \E t \in Tenant : UnentitleTenant(t)

Next ==
    \/ \E c \in Commands, flags \in Flags : Start(c, flags)
    \/ Prepare
    \/ CreateNewApplication
    \/ CreateNewModuleDiscovery
    \/ Entitle
    \/ CleanUp
    \/ Remove
    \/ Undeploy
    \/ ProcessEnds

Spec == Init /\ [][Next]_vars

-----------------------------------------------------------------------------
(***************************************************************************)
(* Properties                                                              *)
(***************************************************************************)
\* Every variable stays in its domain.
TypeOK ==
    /\ apps \in [App -> [Version -> ModuleVersion \union {0}]]
    /\ discovered \in [App -> SUBSET ModuleVersion]
    /\ entitled \in [Tenant -> [App -> Version \union {0}]]
    /\ cmd \in Commands \union {"none"}
    /\ skip \in Flags \union {{}}
    /\ pc \in {"idle", "prepare", "create", "discovery", "tenants", "entitle",
               "rollback", "rollbackTenant", "remove", "find", "unentitle", "returned"}
    /\ module \in ModuleVersion
    /\ prior \in Version \union {0}
    /\ pc \in {"create", "discovery", "tenants", "entitle"} => target \in Version
    /\ todo \subseteq Configured
    /\ keep \in Version \union {0}
    /\ phase \in {"finish", "rollback"}
    /\ result \in {"none", "ok", "error", "rolled back"}

Succeeded == pc = "returned" /\ result = "ok" /\ skip = {}

\* A run of upgradeModule or runLocalModule that succeeds repairs whatever
\* earlier failed or killed runs left behind: one version is left, and no
\* tenant is entitled to another one.  undeployApplication succeeds only when
\* nobody is entitled.
SuccessRepairs ==
    Succeeded =>
        LET left == IF cmd = "undeployApplication" THEN {} ELSE {target} IN
        /\ Versions(app) = left
        /\ \A t \in Tenant : entitled[t][app] \in left \union {0}

\* A tenant entitled to a version of the base application finds that version
\* registered and its module in discovery, whatever run failed in between:
\* discovery precedes entitlement, and the superseded version goes last.
EntitledIsRoutable ==
    \A t \in Tenant :
        LET v == entitled[t]["base"] IN
        v # 0 => apps["base"][v] \in discovered["base"]

NoEntitlementLowered ==
    \A t \in Tenant, a \in App :
        cmd # "undeployApplication" => entitled'[t][a] >= entitled[t][a]

\* Upgrades move tenants forward only, over any sequence of failed and
\* repeated runs: the new version exceeds every one a tenant is entitled to.
EntitlementsOnlyGrow == [][NoEntitlementLowered]_vars

\* A rolled back runLocalModule leaves exactly the version it found, and none
\* if there was none (README.md:570).
LocalRollback ==
    result = "rolled back" /\ cmd = "runLocalModule" =>
        Versions("local") = {prior} \ {0}

-----------------------------------------------------------------------------
(***************************************************************************)
(* What the documentation says of the commands, which the code does not do *)
(***************************************************************************)
\* The rollback of upgradeModule removes the newly created application
\* (docs/uml/upgradeModule-sequence.puml:144) and leaves the previous version
\* intact (README.md:570).
UpgradeRollback ==
    result = "rolled back" /\ cmd = "upgradeModule" => Versions("base") = {prior}

=============================================================================
