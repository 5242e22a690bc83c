---------------------------- MODULE ModuleVersions ----------------------------
(***************************************************************************)
(* Which version of a module runs, is registered and is routed to.  The    *)
(* registry publishes releases at any time; deployApplication reads one,   *)
(* keeps it in modules.json, deploys the management modules, reads again   *)
(* and deploys the others; interceptModule exchanges one pair of           *)
(* containers, at the version discovery names, and moves its discovery     *)
(* entry; --skipRegistry reads modules.json only.                          *)
(*                                                                         *)
(* A container is there or not: whether it runs, and the goroutines that   *)
(* deploy sidecars, are those of ModuleDeployment.  No version is pinned   *)
(* in the profile.  A request that changes something is applied and        *)
(* answered, refused, or applied with its answer lost.                     *)
(***************************************************************************)
EXTENDS Naturals

CONSTANTS
    Backend,     \* modules that are deployed with a sidecar
    Management,  \* manager applications, which have none
    Application, \* applications of the platform descriptor
    Home,        \* the application that lists a module
    Unlisted,    \* pairs of an application and a release whose descriptor the registry lacks
    MaxRelease,  \* bound: releases the registry publishes
    Target,      \* modules the user intercepts
    NoModule     \* no module

Module == Backend \union Management
Release == 1 .. MaxRelease

\* Management modules are Eureka components, listed by the platform descriptor
\* itself.
ASSUME VersionsAssumption ==
    /\ Backend \intersect Management = {}
    /\ Home \in [Backend -> Application]
    /\ Unlisted \subseteq Application \X Release
    /\ MaxRelease \in Nat \ {0}
    /\ Target \subseteq Backend
    /\ NoModule \notin Module

VARIABLES
    release,     \* the newest release of the registry
    file,        \* modules.json
    image,       \* per module, the version of its container (0: no container)
    sidecar,     \* per module, MODULE_VERSION of its sidecar (0: no sidecar)
    custom,      \* modules whose sidecar forwards to the user's own instance
    application, \* whether the application and its discovery are registered
    registered,  \* per module, the version it is registered with
    redirected,  \* modules whose discovery entry has a custom location
    cmd,         \* the command that runs
    skip,        \* whether it has --skipRegistry
    target,      \* the module it is for
    pc,          \* its control point
    back,        \* where it goes on after GetModules
    snapshot,    \* the release of the platform descriptor it fetched
    fetched,     \* per application, the release its descriptor came from
    lost,        \* applications whose request failed
    list,        \* what GetModules returned, per module (0: not listed)
    fresh,       \* whether it began with no container and no application (history)
    result       \* how the command ended

containers == <<image, sidecar, custom>>
manager == <<application, registered, redirected>>
registry == <<snapshot, fetched, lost>>
vars == <<release, file, containers, manager, cmd, skip, target, pc, back, registry,
          list, fresh, result>>

-----------------------------------------------------------------------------
Empty == [m \in Module |-> 0]

\* What the descriptor of release r and the applications it names list
Listing(r) == [m \in Module |->
    IF m \in Backend /\ <<Home[m], r>> \in Unlisted THEN 0 ELSE r]

\* What the collected answers list: nothing where a request failed
Collected == [m \in Module |->
    IF m \in Management THEN snapshot
    ELSE IF <<Home[m], fetched[Home[m]]>> \in Unlisted THEN 0 ELSE fetched[Home[m]]]

\* The managers answer behind Kong; the system containers go after them
ManagersAnswer == \A m \in Management : image[m] # 0

Discovered(m) == application = "discovered" /\ registered[m] # 0

Init ==
    /\ release = 1
    /\ file = [state |-> "missing", list |-> Empty]
    /\ image = Empty
    /\ sidecar = [m \in Backend |-> 0]
    /\ custom = {}
    /\ application = "none"
    /\ registered = [m \in Backend |-> 0]
    /\ redirected = {}
    /\ cmd = "none"
    /\ skip = "no"
    /\ target = NoModule
    /\ pc = "idle"
    /\ back = "none"
    /\ snapshot = 0
    /\ fetched = [a \in Application |-> 0]
    /\ lost = {}
    /\ list = Empty
    /\ fresh = "no"
    /\ result = "none"

Goto(p) == pc' = p /\ UNCHANGED result
Return(r) == pc' = "returned" /\ result' = r

\* GetModules(verbose, forceRefresh), which returns to p
CallGetModules(p) == Goto("getModules") /\ back' = p

Fresh == image = Empty /\ application = "none"

Start(c, f, m) ==
    /\ pc = "idle"
    /\ cmd' = c
    /\ skip' = f
    /\ target' = m
    /\ result' = "none"
    /\ pc' = CASE c = "deploy" -> "getModules"
               [] c \in {"undeploy", "wipe"} -> "undeployModules"
               [] OTHER -> "lookup"
    /\ back' = IF c = "deploy" THEN "management" ELSE "none"
    /\ fresh' = IF c = "deploy" /\ Fresh THEN "yes" ELSE "no"
    /\ UNCHANGED <<release, file, containers, manager, registry, list>>

-----------------------------------------------------------------------------
(***************************************************************************)
(* GetModules                                                              *)
(***************************************************************************)
\* Outside the program: the registry publishes a release
Publish ==
    /\ release < MaxRelease
    /\ release' = release + 1
    /\ UNCHANGED <<file, containers, manager, cmd, skip, target, pc, back, registry,
                   list, fresh, result>>

\* deployApplication forces a refresh, interceptModule does not
ReadsFile == skip = "yes" \/ (back = "pair" /\ file.state # "missing")

\* A file that ends at once decodes to no list at all, which is no error
ReadModulesLocalFile ==
    /\ pc = "getModules"
    /\ ReadsFile
    /\ \/ /\ file.state = "readable"
          /\ list' = file.list
          /\ Goto(back)
       \/ Return("error") /\ UNCHANGED list
    /\ UNCHANGED <<release, file, containers, manager, cmd, skip, target, back, registry, fresh>>

FetchDescriptor ==
    /\ pc = "getModules"
    /\ ~ ReadsFile
    /\ \/ snapshot' = release /\ Goto("fetch")
       \/ Return("error") /\ UNCHANGED snapshot
    /\ fetched' = [a \in Application |-> 0]
    /\ lost' = {}
    /\ UNCHANGED <<release, file, containers, manager, cmd, skip, target, back, list, fresh>>

\* Fault: the application is asked for by its name, not by its version
FetchApplicationByName(a) ==
    /\ pc = "fetch"
    /\ fetched[a] = 0 /\ a \notin lost
    /\ \/ fetched' = [fetched EXCEPT ![a] = release] /\ UNCHANGED lost
       \/ lost' = lost \union {a} /\ UNCHANGED fetched
    /\ UNCHANGED <<release, file, containers, manager, cmd, skip, target, pc, back,
                   snapshot, list, fresh, result>>

\* The goroutine of one application, which writes a slot of its own
FetchApplication(a) ==
    /\ pc = "fetch"
    /\ fetched[a] = 0 /\ a \notin lost
    /\ \/ fetched' = [fetched EXCEPT ![a] = snapshot] /\ UNCHANGED lost
       \/ lost' = lost \union {a} /\ UNCHANGED fetched
    /\ UNCHANGED <<release, file, containers, manager, cmd, skip, target, pc, back,
                   snapshot, list, fresh, result>>

JoinFetches ==
    /\ pc = "fetch"
    /\ \A a \in Application : fetched[a] # 0 \/ a \in lost
    /\ IF lost = {} THEN Goto("truncate") ELSE Return("error")
    /\ UNCHANGED <<release, file, containers, manager, cmd, skip, target, back, registry,
                   list, fresh>>

\* WriteJSONToFile opens with O_TRUNC: a process killed here leaves an empty file
TruncateFile ==
    /\ pc = "truncate"
    /\ \/ file' = [state |-> "readable", list |-> Empty] /\ Goto("write")
       \/ Return("error") /\ UNCHANGED file
    /\ UNCHANGED <<release, containers, manager, cmd, skip, target, back, registry, list, fresh>>

\* A list written in part is no JSON
WriteFile ==
    /\ pc = "write"
    /\ \/ /\ file' = [state |-> "readable", list |-> Collected]
          /\ list' = Collected
          /\ Goto(back)
       \/ /\ file' = [state |-> "broken", list |-> Empty]
          /\ Return("error")
          /\ UNCHANGED list
    /\ UNCHANGED <<release, containers, manager, cmd, skip, target, back, registry, fresh>>

GetModules ==
    \/ ReadModulesLocalFile
    \/ FetchDescriptor
    \/ \E a \in Application : FetchApplication(a)
    \/ JoinFetches
    \/ TruncateFile
    \/ WriteFile

-----------------------------------------------------------------------------
(***************************************************************************)
(* deployApplication, as far as versions go                                *)
(***************************************************************************)
\* Modules of a group that DeployModules does not skip
Missing(group) == {m \in group : list[m] # 0 /\ image[m] = 0}

Matched(group) == {m \in group : list[m] # 0}

\* The containers that are created at the listed version
Deploy(modules, sidecars) ==
    /\ image' = [m \in Module |-> IF m \in modules THEN list[m] ELSE image[m]]
    /\ sidecar' = [m \in Backend |-> IF m \in sidecars THEN list[m] ELSE sidecar[m]]

DeployManagement ==
    /\ pc = "management"
    /\ \E started \in SUBSET Missing(Management) :
          /\ Deploy(started, {})
          /\ \/ /\ started = Missing(Management)
                /\ Matched(Management) # {}
                /\ Goto("getModules")
                /\ back' = "modules"
             \/ Return("error") /\ UNCHANGED back
    /\ UNCHANGED <<release, file, custom, manager, cmd, skip, target, registry, list, fresh>>

\* The name of a sidecar that is still there is taken: its creation fails
DeployModules ==
    /\ pc = "modules"
    /\ \E started \in SUBSET Missing(Backend) :
          \E paired \in SUBSET {m \in started : sidecar[m] = 0} :
              /\ Deploy(started, paired)
              /\ \/ paired = Missing(Backend) /\ Matched(Backend) # {} /\ Goto("application")
                 \/ Return("error")
    /\ UNCHANGED <<release, file, custom, manager, cmd, skip, target, back, registry, list, fresh>>

\* Fault: the registry is asked again for what is to be registered
CreateApplicationNewest ==
    /\ pc = "application"
    /\ \/ /\ application # "none"
          /\ Return("ok")
          /\ UNCHANGED manager
       \/ /\ application = "none"
          /\ application' = "registered"
          /\ registered' = [m \in Backend |-> Listing(release)[m]]
          /\ Goto("discovery") \/ Return("error")
          /\ UNCHANGED redirected
       \/ Return("error") /\ UNCHANGED manager
    /\ UNCHANGED <<release, file, containers, cmd, skip, target, back, registry, list, fresh>>

CreateApplication ==
    /\ pc = "application"
    /\ \/ /\ application # "none"
          /\ Return("ok")
          /\ UNCHANGED manager
       \/ /\ application = "none"
          /\ application' = "registered"
          /\ registered' = [m \in Backend |-> list[m]]
          /\ Goto("discovery") \/ Return("error")
          /\ UNCHANGED redirected
       \/ Return("error") /\ UNCHANGED manager
    /\ UNCHANGED <<release, file, containers, cmd, skip, target, back, registry, list, fresh>>

CreateDiscovery ==
    /\ pc = "discovery"
    /\ \/ application' = "discovered" /\ (Return("ok") \/ Return("error"))
       \/ UNCHANGED application /\ Return("error")
    /\ UNCHANGED <<release, file, containers, registered, redirected, cmd, skip, target,
                   back, registry, list, fresh>>

DeployApplication == DeployManagement \/ DeployModules \/ CreateApplication \/ CreateDiscovery

-----------------------------------------------------------------------------
(***************************************************************************)
(* undeployApplication, with and without --keepVolumes.  A container whose *)
(* removal fails is left to ModuleDeployment.                              *)
(***************************************************************************)
Undeploy(modules, sidecars) ==
    /\ image' = [m \in Module |-> IF m \in modules THEN 0 ELSE image[m]]
    /\ sidecar' = [m \in Backend |-> IF m \in sidecars THEN 0 ELSE sidecar[m]]
    /\ custom' = custom \ sidecars

UndeployModules ==
    /\ pc = "undeployModules"
    /\ \/ Undeploy(Backend, Backend) /\ Goto("undeployManagement")
       \/ \E modules, sidecars \in SUBSET Backend :
             Undeploy(modules, sidecars) /\ Return("error")
    /\ UNCHANGED <<release, file, manager, cmd, skip, target, back, registry, list, fresh>>

UndeployManagement ==
    /\ pc = "undeployManagement"
    /\ \/ Undeploy(Management, {}) /\ Goto("undeploySystem")
       \/ \E modules \in SUBSET Management : Undeploy(modules, {}) /\ Return("error")
    /\ UNCHANGED <<release, file, manager, cmd, skip, target, back, registry, list, fresh>>

UndeploySystem ==
    /\ pc = "undeploySystem"
    /\ \/ /\ cmd = "wipe"
          /\ application' = "none"
          /\ registered' = [m \in Backend |-> 0]
          /\ redirected' = {}
          /\ Return("ok") \/ Return("error")
       \/ cmd = "undeploy" /\ Return("ok") /\ UNCHANGED manager
       \/ Return("error") /\ UNCHANGED manager
    /\ UNCHANGED <<release, file, containers, cmd, skip, target, back, registry, list, fresh>>

UndeployApplication == UndeployModules \/ UndeployManagement \/ UndeploySystem

-----------------------------------------------------------------------------
(***************************************************************************)
(* interceptModule, with and without --restore, and updateModuleDiscovery  *)
(***************************************************************************)
\* Fault: nobody looks whether discovery knows the module
LookupDiscoveryUnchecked ==
    /\ pc = "lookup"
    /\ \/ /\ ManagersAnswer
          /\ IF cmd \in {"redirect", "reset"} THEN Goto("route") /\ UNCHANGED back
             ELSE Goto("getModules") /\ back' = "pair"
       \/ Return("error") /\ UNCHANGED back
    /\ UNCHANGED <<release, file, containers, manager, cmd, skip, target, registry, list, fresh>>

\* The module ID, and with it the version, is the one discovery names
LookupDiscovery ==
    /\ pc = "lookup"
    /\ \/ /\ ManagersAnswer
          /\ Discovered(target)
          /\ IF cmd \in {"redirect", "reset"} THEN Goto("route") /\ UNCHANGED back
             ELSE Goto("getModules") /\ back' = "pair"
       \/ Return("error") /\ UNCHANGED back
    /\ UNCHANGED <<release, file, containers, manager, cmd, skip, target, registry, list, fresh>>

\* A removal that fails is only logged, a stop that fails is an error
UndeployPair ==
    /\ pc = "pair"
    /\ \E modules, sidecars \in SUBSET {target} : Undeploy(modules, sidecars)
    /\ Goto("network") \/ Return("error")
    /\ UNCHANGED <<release, file, manager, cmd, skip, target, back, registry, list, fresh>>

\* Ports, then GetBackendModule: a module the list lacks is dereferenced
PrepareNetwork ==
    /\ pc = "network"
    /\ \/ IF list[target] = 0 THEN Return("panic") ELSE Goto("route")
       \/ Return("error")
    /\ UNCHANGED <<release, file, containers, manager, cmd, skip, target, back, registry, list, fresh>>

Redirect == IF cmd \in {"intercept", "redirect"} THEN redirected \union {target}
            ELSE redirected \ {target}

AfterRoute ==
    CASE cmd = "intercept" -> Goto("sidecar")
      [] cmd = "restore" -> Goto("module")
      [] OTHER -> Return("ok")

UpdateModuleDiscovery ==
    /\ pc = "route"
    /\ \/ redirected' = Redirect /\ (AfterRoute \/ Return("error"))
       \/ UNCHANGED redirected /\ Return("error")
    /\ UNCHANGED <<release, file, containers, application, registered, cmd, skip, target, back,
                   registry, list, fresh>>

\* Fault: the version of the list, not the one of discovery
DeployCustomModuleListed ==
    /\ pc = "module"
    /\ \/ image[target] = 0 /\ image' = [image EXCEPT ![target] = list[target]]
       \/ UNCHANGED image
    /\ IF image' # image THEN Goto("sidecar") \/ Return("error") ELSE Return("error")
    /\ UNCHANGED <<release, file, sidecar, custom, manager, cmd, skip, target, back,
                   registry, list, fresh>>

DeployCustomModule ==
    /\ pc = "module"
    /\ \/ /\ image[target] = 0
          /\ image' = [image EXCEPT ![target] = registered[target]]
          /\ Goto("sidecar") \/ Return("error")
       \/ UNCHANGED image /\ Return("error")
    /\ UNCHANGED <<release, file, sidecar, custom, manager, cmd, skip, target, back,
                   registry, list, fresh>>

DeployCustomSidecar ==
    /\ pc = "sidecar"
    /\ \/ /\ sidecar[target] = 0
          /\ sidecar' = [sidecar EXCEPT ![target] = registered[target]]
          /\ custom' = IF cmd = "intercept" THEN custom \union {target} ELSE custom
          /\ Goto("ready") \/ Return("error")
       \/ UNCHANGED <<sidecar, custom>> /\ Return("error")
    /\ UNCHANGED <<release, file, image, manager, cmd, skip, target, back, registry, list, fresh>>

CheckModuleAndSidecarReadiness ==
    /\ pc = "ready"
    /\ Return("ok") \/ Return("error")
    /\ UNCHANGED <<release, file, containers, manager, cmd, skip, target, back, registry,
                   list, fresh>>

InterceptModule ==
    \/ LookupDiscovery
    \/ UndeployPair
    \/ PrepareNetwork
    \/ UpdateModuleDiscovery
    \/ DeployCustomModule
    \/ DeployCustomSidecar
    \/ CheckModuleAndSidecarReadiness

\* The process exits, or is killed
ProcessEnds ==
    /\ pc # "idle"
    /\ pc' = "idle"
    /\ cmd' = "none"
    /\ skip' = "no"
    /\ target' = NoModule
    /\ back' = "none"
    /\ snapshot' = 0
    /\ fetched' = [a \in Application |-> 0]
    /\ lost' = {}
    /\ list' = Empty
    /\ fresh' = "no"
    /\ result' = "none"
    /\ UNCHANGED <<release, file, containers, manager>>

Begin ==
    \/ \E f \in {"yes", "no"} : Start("deploy", f, NoModule)
    \/ \E c \in {"undeploy", "wipe"} : Start(c, "no", NoModule)
    \/ \E c \in {"intercept", "restore"}, f \in {"yes", "no"}, m \in Target : Start(c, f, m)
    \/ \E c \in {"redirect", "reset"}, m \in Target : Start(c, "no", m)

Next ==
    \/ Publish
    \/ Begin
    \/ GetModules
    \/ DeployApplication
    \/ UndeployApplication
    \/ InterceptModule
    \/ ProcessEnds

Spec == Init /\ [][Next]_vars

-----------------------------------------------------------------------------
(***************************************************************************)
(* Properties                                                              *)
(***************************************************************************)
Version == 0 .. MaxRelease

\* Every variable stays in its domain; a custom sidecar is a sidecar.
TypeOK ==
    /\ release \in Release
    /\ file \in [state : {"missing", "broken", "readable"}, list : [Module -> Version]]
    /\ image \in [Module -> Version]
    /\ sidecar \in [Backend -> Version]
    /\ custom \subseteq {m \in Target : sidecar[m] # 0}
    /\ application \in {"none", "registered", "discovered"}
    /\ registered \in [Backend -> Version]
    /\ redirected \subseteq Target
    /\ cmd \in {"none", "deploy", "undeploy", "wipe", "intercept", "restore", "redirect", "reset"}
    /\ skip \in {"yes", "no"}
    /\ target \in Target \union {NoModule}
    /\ pc \in {"idle", "getModules", "fetch", "truncate", "write", "management", "modules",
               "application", "discovery", "undeployModules", "undeployManagement",
               "undeploySystem", "lookup", "pair", "network", "route", "module",
               "sidecar", "ready", "returned"}
    /\ pc \in {"pair", "network", "route", "module", "sidecar"} => target \in Target
    /\ back \in {"none", "management", "modules", "pair"}
    /\ snapshot \in Version
    /\ fetched \in [Application -> Version]
    /\ lost \subseteq Application
    /\ list \in [Module -> Version]
    /\ fresh \in {"yes", "no"}
    /\ result \in {"none", "ok", "error", "panic"}

\* What a command reads from modules.json is either nothing at all or the
\* complete list of one release, whatever was published while the goroutines
\* fetched it, whichever of them failed, and wherever the process was killed.
FileIsOneRelease ==
    file.list # Empty => \E r \in 1 .. release : file.list = Listing(r)

Succeeded == pc = "returned" /\ result = "ok"

\* A deployment that starts from nothing and succeeds runs, registers and
\* routes to the same version of every module, that of one release, even when
\* it reads an empty file.
FreshDeploymentAgrees ==
    Succeeded /\ cmd = "deploy" /\ fresh = "yes" =>
        /\ ManagersAnswer
        /\ application = "discovered"
        /\ \E r \in Release : \A m \in Backend :
              image[m] = Listing(r)[m] /\ sidecar[m] = image[m] /\ registered[m] = image[m]

\* An interception or restoration that succeeds leaves a pair of the version
\* discovery names, though modules.json may list another one, and discovery
\* that leads to that pair.
InterceptionRouted ==
    Succeeded /\ cmd \in {"intercept", "restore"} =>
        /\ sidecar[target] = registered[target]
        /\ target \in custom <=> cmd = "intercept"
        /\ target \in redirected <=> cmd = "intercept"
        /\ cmd = "restore" => image[target] = registered[target]

=============================================================================
