-------------------------- MODULE ApplicationContents --------------------------
(***************************************************************************)
(* What developing a module changes: the version in its build file, the    *)
(* artifact and the image built from it, the container that runs, and the  *)
(* modules, descriptors and discovery entries of the application that      *)
(* carries it.  upgradeModule replaces a module of the base application,   *)
(* runLocalModule one of the local application, undeployApplication        *)
(* --applicationName removes that one, updateModuleDiscovery moves a       *)
(* discovery entry.                                                        *)
(*                                                                         *)
(* There is one tenant: the loops over tenants are ApplicationLifecycle's. *)
(* The pair of a module and its sidecar is one container here.  A fault is *)
(* a build, a container or a request that fails, or an answer that is      *)
(* lost, or a command that is killed, between any two steps.               *)
(***************************************************************************)
EXTENDS Naturals, FiniteSets, FiniteSetsExt, Functions

CONSTANTS
    Base,        \* modules of the base application
    Frontend,    \* those of them that are user interface modules
    Private,     \* modules that neither the profile nor the registry has
    Tool,        \* per module, the build tool of its source folder
    Published,   \* module versions in the registry, as <<module, version>>
    Invocation,  \* command lines a user may give
    MaxVersion,  \* bound: versions of a module
    MaxPatch,    \* bound: versions of an application
    MaxFaults    \* bound: faults in a behaviour

Module == Base \union Private
Version == 1 .. MaxVersion
Patch == 1 .. MaxPatch
Flag == {"artifact", "image", "deployment", "application", "discovery",
         "entitlement", "cleanup"}
Command == {"upgradeModule", "runLocalModule", "undeployApplication",
            "updateModuleDiscovery", "restoreModuleDiscovery"}

\* ver is 0 when --moduleVersion is not given.  The namespace is "local" for
\* foliolocal, "folio" for folioci and folioorg.
CommandLine == [cmd : Command, m : Module, ns : {"local", "folio"},
                ver : 0 .. MaxVersion, flags : SUBSET Flag]

ASSUME ContentsAssumption ==
    /\ Frontend \subseteq Base
    /\ Base \ Frontend # {}
    /\ Base \intersect Private = {}
    /\ MaxVersion \in Nat \ {0}
    /\ MaxPatch \in Nat \ {0}
    /\ MaxFaults \in Nat
    /\ Tool \in [Module -> {"maven", "gradle"}]
    /\ Published \subseteq Module \X Version
    /\ Base \X {1} \subseteq Published
    /\ Invocation \subseteq CommandLine
    /\ \A i \in Invocation : i.m \notin Frontend

VARIABLES
    file,       \* per module, the version in its build file
    target,     \* version of the descriptor in its build directory, 0 if there is none
    images,     \* versions with an image on this host
    running,    \* version the module's container runs, 0 if there is none
    apps,       \* per application and version, its modules and their descriptors
    discovery,  \* per module and version with an entry, where the entry leads
    entitled,   \* per application, the version the tenant has, 0 if none
    job,        \* the command line that is carried out
    version,    \* the module version it deploys
    prior,      \* latest version of the application it found, 0 if there was none
    todo,       \* modules undeployApplication has yet to visit
    pc,
    result,     \* how the command ended
    faulted,    \* it met a fault
    faults      \* faults so far

source == <<file, target, images>>
server == <<apps, discovery, entitled>>
locals == <<job, version, prior, todo>>
control == <<pc, result, faulted, faults>>
vars == <<source, running, server, locals, control>>

-----------------------------------------------------------------------------
App == {"base", "local"}

\* The version in the repository, which versions:revert brings back
Committed == 1

NoJob == [cmd |-> "none"]

app == IF job.cmd = "upgradeModule" THEN "base" ELSE "local"

m == job.m

shouldBuild == job.ns = "local"

\* GetLatestApplicationByName
Latest(a) == IF DOMAIN apps[a] = {} THEN 0 ELSE Max(DOMAIN apps[a])

\* Fault: the patch is not incremented
samePatch == prior

\* IncPatch of the latest version, or localApplicationBaseVersion
newPatch == prior + 1

Modules(c) == DOMAIN c.mods

\* f with the entry e at k, in the place of one it may have there
Put(f, k, e) == [x \in DOMAIN f \union {k} |-> IF x = k THEN e ELSE f[x]]

\* Every module by its own version: what an application has to name
Named(mods) == {<<n, mods[n]>> : n \in DOMAIN mods}

\* IncrementSnapshotVersion and IncPatch
NextVersion(v) == v + 1

\* The base application, in its latest version, provides the module.
InBase == m \in Modules(apps["base"][Latest("base")])

\* GetModuleDiscovery keeps the entry of the highest version.
HighestDiscovered == Max(DOMAIN discovery[m])

Init ==
    /\ file = [n \in Module |-> Committed]
    /\ target = [n \in Module |-> 0]
    /\ images = [n \in Module |-> {}]
    /\ running = [n \in Module |-> IF n \in Base \ Frontend THEN 1 ELSE 0]
    /\ apps = [a \in App |->
                 IF a = "base"
                 THEN [p \in {1} |-> [mods |-> [n \in Base |-> 1], descs |-> Base \X {1}]]
                 ELSE << >>]
    /\ discovery = [n \in Module |->
                      IF n \in Base \ Frontend THEN [v \in {1} |-> "sidecar"] ELSE << >>]
    /\ entitled = [a \in App |-> IF a = "base" THEN 1 ELSE 0]
    /\ job = NoJob
    /\ version = 0
    /\ prior = 0
    /\ todo = {}
    /\ pc = "idle"
    /\ result = "none"
    /\ faulted = FALSE
    /\ faults = 0

Fault == faults < MaxFaults /\ faulted' = TRUE /\ faults' = faults + 1
NoFault == UNCHANGED <<faulted, faults>>

GoTo(p) == pc' = p /\ result' = result
Return(r) == pc' = "returned" /\ result' = r

\* A fault before the step has changed anything, where it ends the command
Fails == Fault /\ Return("error")

-----------------------------------------------------------------------------
(***************************************************************************)
(* The module version                                                      *)
(***************************************************************************)
WithinBounds(i) ==
    /\ i.cmd = "upgradeModule" =>
         /\ i.ver = 0 => \A v \in DOMAIN discovery[i.m] : v < MaxVersion
         /\ Latest("base") < MaxPatch
    /\ i.cmd = "runLocalModule" =>
         /\ i.ver = 0 => file[i.m] < MaxVersion
         /\ Latest("local") < MaxPatch

Begin(i) ==
    /\ pc = "idle"
    /\ WithinBounds(i)
    /\ job' = i
    /\ GoTo("begin")
    /\ NoFault
    /\ UNCHANGED <<source, running, server, version, prior, todo>>

\* upgradeModule: the given version, or the one after the highest that has a
\* discovery entry
SetNewModuleVersion ==
    /\ pc = "begin"
    /\ job.cmd = "upgradeModule"
    /\ \/ /\ DOMAIN discovery[m] # {}
          /\ version' = IF job.ver # 0 THEN job.ver
                        ELSE NextVersion(HighestDiscovered)
          /\ GoTo("artifact")
          /\ NoFault
       \/ /\ DOMAIN discovery[m] = {}
          /\ Return("error")
          /\ NoFault
          /\ UNCHANGED version
       \/ Fails /\ UNCHANGED version
    /\ UNCHANGED <<source, running, server, job, prior, todo>>

\* What Maven or Gradle print of the version in the build file
BuildFileVersion == file[m]

\* Fault: the modules of the base application are not looked at
ResolveModuleIdentityAnyway ==
    /\ pc = "begin"
    /\ job.cmd = "runLocalModule"
    /\ \/ /\ version' = IF job.ver # 0 THEN job.ver ELSE NextVersion(BuildFileVersion)
          /\ GoTo("artifact")
          /\ NoFault
       \/ Fails /\ UNCHANGED version
    /\ UNCHANGED <<source, running, server, job, prior, todo>>

\* runLocalModule: the given version, or the one after that of the build file.
\* A module of the base application is turned away.
ResolveModuleIdentity ==
    /\ pc = "begin"
    /\ job.cmd = "runLocalModule"
    /\ \/ /\ ~InBase
          /\ version' = IF job.ver # 0 THEN job.ver ELSE NextVersion(BuildFileVersion)
          /\ GoTo("artifact")
          /\ NoFault
       \/ /\ InBase
          /\ Return("error")
          /\ NoFault
          /\ UNCHANGED version
       \/ Fails /\ UNCHANGED version
    /\ UNCHANGED <<source, running, server, job, prior, todo>>

-----------------------------------------------------------------------------
(***************************************************************************)
(* The build.  Maven writes the version into the build file and keeps it   *)
(* there; Gradle and Grails are told it on the command line.               *)
(***************************************************************************)
BuildModuleArtifact ==
    /\ pc = "artifact"
    /\ \/ /\ ~shouldBuild \/ "artifact" \in job.flags
          /\ GoTo("image")
          /\ NoFault
          /\ UNCHANGED <<file, target>>
       \/ /\ shouldBuild
          /\ "artifact" \notin job.flags
          /\ file' = [file EXCEPT ![m] = IF Tool[m] = "maven" THEN version ELSE @]
          /\ target' = [target EXCEPT ![m] = version]
          /\ GoTo("image")
          /\ NoFault
       \* clean done, and perhaps versions:set, but no package
       \/ /\ shouldBuild
          /\ "artifact" \notin job.flags
          /\ file' \in {file, [file EXCEPT ![m] = IF Tool[m] = "maven" THEN version ELSE @]}
          /\ target' = [target EXCEPT ![m] = 0]
          /\ Fails
    /\ UNCHANGED <<images, running, server, locals>>

BuildModuleImage ==
    /\ pc = "image"
    /\ \/ /\ ~shouldBuild \/ "image" \in job.flags
          /\ GoTo("descriptor")
          /\ NoFault
          /\ UNCHANGED images
       \/ /\ shouldBuild
          /\ "image" \notin job.flags
          /\ images' = [images EXCEPT ![m] = @ \union {version}]
          /\ GoTo("descriptor")
          /\ NoFault
       \/ /\ shouldBuild
          /\ "image" \notin job.flags
          /\ Fails
          /\ UNCHANGED images
    /\ UNCHANGED <<file, target, running, server, locals>>

ReadModuleDescriptor ==
    /\ pc = "descriptor"
    /\ IF shouldBuild /\ target[m] = 0 THEN Return("error") ELSE GoTo("deploy")
    /\ NoFault
    /\ UNCHANGED <<source, running, server, locals>>

Available == IF shouldBuild THEN version \in images[m]
             ELSE <<m, version>> \in Published

\* GetBackendModule finds a module of the profile, and the one runLocalModule
\* adds; upgradeModule dereferences the nil it gets for any other.
HasBackendModule == job.cmd = "runLocalModule" \/ m \in Base

Deployable == HasBackendModule /\ Available

\* Fault: the old pair is not removed, so that its names are in use
DeployModuleAndSidecarPairBeside ==
    /\ pc = "deploy"
    /\ \/ /\ "deployment" \in job.flags
          /\ GoTo("application")
          /\ NoFault
          /\ UNCHANGED running
       \/ /\ "deployment" \notin job.flags
          /\ IF Deployable /\ running[m] = 0
             THEN running' = [running EXCEPT ![m] = version] /\ GoTo("application")
             ELSE UNCHANGED running /\ Return("error")
          /\ NoFault
    /\ UNCHANGED <<source, server, locals>>

\* The old pair is removed before the backend module and the image of the new
\* one are looked for: the command ends with an error, or panics.
DeployModuleAndSidecarPair ==
    /\ pc = "deploy"
    /\ \/ /\ "deployment" \in job.flags
          /\ GoTo("application")
          /\ NoFault
          /\ UNCHANGED running
       \/ /\ "deployment" \notin job.flags
          /\ Deployable
          /\ running' = [running EXCEPT ![m] = version]
          /\ GoTo("application")
          /\ NoFault
       \/ /\ "deployment" \notin job.flags
          /\ ~Deployable
          /\ running' = [running EXCEPT ![m] = 0]
          /\ Return("error")
          /\ NoFault
       \* before the old pair is removed, after it, or when the new one is
       \* deployed but not ready
       \/ /\ "deployment" \notin job.flags
          /\ running' \in {running, [running EXCEPT ![m] = 0],
                           [running EXCEPT ![m] = IF Deployable THEN version ELSE 0]}
          /\ Fails
    /\ UNCHANGED <<source, server, locals>>

-----------------------------------------------------------------------------
(***************************************************************************)
(* The application.  The manager answers "full" with the descriptors that  *)
(* were sent and those it fetched by URL: descs holds both.                *)
(***************************************************************************)
Descriptor == {<<m, target[m]>>}

\* UpdateBackendModules, UpdateFrontendModules and
\* UpdateBackendModuleDescriptors.  Without a build every entry gets the
\* registry's URL and no descriptor is sent.  Nothing stops a module that the
\* application does not have: its descriptor is added.
Upgraded(c) ==
    LET mods == [n \in Modules(c) |-> IF n = m THEN version ELSE c.mods[n]]
        old  == {<<n, c.mods[n]>> : n \in Modules(c) \intersect {m}}
        rest == {d \in c.descs : d[1] \notin Frontend} \ old
        kept == {d \in c.descs : d[1] \in Frontend}
    IN  [mods |-> mods,
         descs |-> IF ~shouldBuild THEN Named(mods)
                   ELSE IF rest = {} THEN kept
                   ELSE rest \union Descriptor \union kept]

\* Fault: the module replaces the others
MergedAlone(c) == [mods |-> [n \in {m} |-> version], descs |-> Descriptor]

\* mergeLocalBackendModules
Merged(c) ==
    [mods |-> Put(c.mods, m, version),
     descs |-> IF shouldBuild THEN {d \in c.descs : d[1] # m} \union Descriptor
               ELSE {}]

\* buildOrMergeLocalApp, when there is no application of that name
FirstLocal == [mods |-> [n \in {m} |-> version],
               descs |-> IF shouldBuild THEN Descriptor ELSE {}]

Contents(a) ==
    IF a = "base" THEN Upgraded(apps[a][Latest(a)])
    ELSE IF Latest(a) = 0 THEN FirstLocal
    ELSE Merged(apps[a][Latest(a)])

\* Only upgradeModule sends URLs: the manager accepts those that lead to a
\* descriptor.
Accepted(a) ==
    \/ shouldBuild
    \/ a = "local"
    \/ Named(Contents(a).mods) \subseteq Published

\* A failure here is not rolled back, whether the request was applied or not.
CreateNewApplication ==
    /\ pc = "application"
    /\ \/ /\ prior' = Latest(app)
          /\ \/ /\ "application" \in job.flags
                /\ GoTo("discovery")
                /\ NoFault
                /\ UNCHANGED apps
             \/ /\ "application" \notin job.flags
                /\ Accepted(app)
                /\ apps' = [apps EXCEPT ![app] = Put(@, newPatch', Contents(app))]
                /\ \/ GoTo("discovery") /\ NoFault
                   \/ Fails
             \/ /\ "application" \notin job.flags
                /\ ~Accepted(app)
                /\ Return("error")
                /\ NoFault
                /\ UNCHANGED apps
       \/ Fails /\ UNCHANGED <<apps, prior>>
    /\ UNCHANGED <<source, running, discovery, entitled, job, version, todo>>

-----------------------------------------------------------------------------
(***************************************************************************)
(* Discovery and entitlement                                               *)
(***************************************************************************)
Rollback == Fault /\ GoTo("rollback")

\* UpdateBackendModules lists the module only if the application has it.
Discovered ==
    IF app = "local" \/ m \in Modules(apps[app][prior])
    THEN [discovery EXCEPT ![m] = Put(@, version, "sidecar")]
    ELSE discovery

CreateNewModuleDiscovery ==
    /\ pc = "discovery"
    /\ \/ /\ "discovery" \in job.flags
          /\ GoTo("entitlement")
          /\ NoFault
          /\ UNCHANGED discovery
       \/ /\ "discovery" \notin job.flags
          /\ discovery' = Discovered
          /\ \/ GoTo("entitlement") /\ NoFault
             \/ Rollback
       \/ "discovery" \notin job.flags /\ Rollback /\ UNCHANGED discovery
    /\ UNCHANGED <<source, running, apps, entitled, locals>>

\* PUT upgrades a tenant and may refuse one without entitlement; POST
\* entitles for the first version of the local application.  A failing
\* GetTenants is answered with nil: the step passes and nobody is entitled.
EntitleTenants ==
    /\ pc = "entitlement"
    /\ \/ /\ "entitlement" \in job.flags
          /\ GoTo("superseded")
          /\ NoFault
          /\ UNCHANGED entitled
       \/ /\ "entitlement" \notin job.flags
          /\ newPatch \in DOMAIN apps[app]
          /\ entitled' = [entitled EXCEPT ![app] = newPatch]
          /\ \/ GoTo("superseded") /\ NoFault
             \/ Rollback
       \/ /\ "entitlement" \notin job.flags
          /\ newPatch \notin DOMAIN apps[app] \/ (prior # 0 /\ entitled[app] = 0)
          /\ GoTo("rollback")
          /\ NoFault
          /\ UNCHANGED entitled
       \/ /\ "entitlement" \notin job.flags
          /\ Rollback \/ (Fault /\ GoTo("superseded"))
          /\ UNCHANGED entitled
    /\ UNCHANGED <<source, running, apps, discovery, locals>>

-----------------------------------------------------------------------------
(***************************************************************************)
(* RemoveApplications, in whatever order the versions are listed, up to    *)
(* the first it cannot remove.  The manager keeps an entitled version.     *)
(***************************************************************************)
Others(a, keep) == DOMAIN apps[a] \ {keep}

RemoveVersions(a, gone) ==
    /\ entitled[a] \notin gone
    /\ apps' = [apps EXCEPT ![a] = Restrict(@, DOMAIN @ \ gone)]

\* Either all are removed, or the loop ends at a version that is entitled, or
\* at one whose request fails.
RemoveApplications(a, keep, Done) ==
    \E gone \in SUBSET Others(a, keep) :
        /\ RemoveVersions(a, gone)
        /\ \/ gone = Others(a, keep) /\ Done /\ NoFault
           \/ entitled[a] \in Others(a, keep) /\ Return("error") /\ NoFault
           \/ Fails

RemoveSuperseded ==
    /\ pc = "superseded"
    /\ RemoveApplications(app, newPatch,
                          IF "cleanup" \in job.flags THEN GoTo("cleanup")
                          ELSE Return("ok"))
    /\ UNCHANGED <<source, running, discovery, entitled, locals>>

\* cleanupLocalAppOnFailure keeps the version the command found.
\* cleanupApplicationsOnFailure keeps the version the first entitlement of the
\* tenant names, which may be one of another application.
KeptOnFailure ==
    IF job.cmd = "runLocalModule" THEN {prior}
    ELSE {IF a = "base" THEN entitled[a] ELSE 0 : a \in {b \in App : entitled[b] # 0}}

CleanupOnFailure ==
    /\ pc = "rollback"
    /\ \E keep \in KeptOnFailure : RemoveApplications(app, keep, Return("error"))
    /\ UNCHANGED <<source, running, discovery, entitled, locals>>

\* Fault: the artifact is cleaned, the version in the build file stays
CleanModuleArtifactOnly ==
    /\ pc = "cleanup"
    /\ target' = [target EXCEPT ![m] = 0]
    /\ Return("ok")
    /\ NoFault
    /\ UNCHANGED <<file, images, running, server, locals>>

\* Maven: versions:revert, then clean and package of the reverted version
CleanModuleArtifact ==
    /\ pc = "cleanup"
    /\ \/ /\ Tool[m] = "maven"
          /\ file' = [file EXCEPT ![m] = Committed]
          /\ \/ /\ target' = [target EXCEPT ![m] = Committed]
                /\ Return("ok")
                /\ NoFault
             \/ target' = [target EXCEPT ![m] = 0] /\ Fails
       \/ /\ Tool[m] = "gradle"
          /\ target' = [target EXCEPT ![m] = 0]
          /\ Return("ok")
          /\ NoFault
          /\ UNCHANGED file
       \/ Fails /\ UNCHANGED <<file, target>>
    /\ UNCHANGED <<images, running, server, locals>>

-----------------------------------------------------------------------------
(***************************************************************************)
(* undeployApplication --applicationName.  The requests about the          *)
(* entitlement and about each module only warn when they fail.             *)
(***************************************************************************)
EntitlementRemoved ==
    [entitled EXCEPT !["local"] = IF @ = Latest("local") THEN 0 ELSE @]

\* With the entitlement gone, there may be no Docker client to go on with.
UndeployLocalApplication ==
    /\ pc = "begin"
    /\ job.cmd = "undeployApplication"
    /\ \/ /\ Latest("local") = 0
          /\ Return("ok")
          /\ NoFault
          /\ UNCHANGED <<entitled, prior, todo>>
       \/ /\ Latest("local") # 0
          /\ prior' = Latest("local")
          /\ todo' = Modules(apps["local"][Latest("local")])
          /\ GoTo("undeploy")
          /\ \/ entitled' = EntitlementRemoved /\ NoFault
             \/ entitled' \in {entitled, EntitlementRemoved} /\ Fault
       \/ /\ entitled' \in {entitled, EntitlementRemoved}
          /\ Fails
          /\ UNCHANGED <<prior, todo>>
    /\ UNCHANGED <<source, running, apps, discovery, job, version>>

\* The entry of the version the application names, and the pair of containers
\* whatever version they run
UndeployLocalModule(n) ==
    /\ pc = "undeploy"
    /\ n \in todo
    /\ todo' = todo \ {n}
    /\ GoTo("undeploy")
    /\ LET unlisted == [discovery EXCEPT ![n] =
                          Restrict(@, DOMAIN @ \ {apps["local"][prior].mods[n]})]
           stopped  == [running EXCEPT ![n] = 0]
       IN  \/ discovery' = unlisted /\ running' = stopped /\ NoFault
           \/ /\ discovery' \in {discovery, unlisted}
              /\ running' \in {running, stopped}
              /\ Fault
    /\ UNCHANGED <<source, apps, entitled, job, version, prior>>

RemoveLocalApplications ==
    /\ pc = "undeploy"
    /\ todo = {}
    /\ RemoveApplications("local", 0, Return("ok"))
    /\ UNCHANGED <<source, running, discovery, entitled, locals>>

(***************************************************************************)
(* updateModuleDiscovery moves the entry of the highest version, or brings *)
(* it back (--restore).                                                    *)
(***************************************************************************)
UpdateModuleDiscovery ==
    /\ pc = "begin"
    /\ job.cmd \in {"updateModuleDiscovery", "restoreModuleDiscovery"}
    /\ \/ /\ DOMAIN discovery[m] # {}
          /\ discovery' = [discovery EXCEPT ![m][HighestDiscovered] =
                             IF job.cmd = "restoreModuleDiscovery" THEN "sidecar"
                             ELSE "elsewhere"]
          /\ \/ Return("ok") /\ NoFault
             \/ Fails
       \/ /\ DOMAIN discovery[m] = {}
          /\ Return("error")
          /\ NoFault
          /\ UNCHANGED discovery
       \/ Fails /\ UNCHANGED discovery
    /\ UNCHANGED <<source, running, apps, entitled, locals>>

\* The command has returned, or is killed.
ProcessEnds ==
    /\ pc # "idle"
    /\ \/ pc = "returned" /\ UNCHANGED faults
       \/ pc # "returned" /\ faults < MaxFaults /\ faults' = faults + 1
    /\ pc' = "idle"
    /\ result' = "none"
    /\ job' = NoJob
    /\ version' = 0
    /\ prior' = 0
    /\ todo' = {}
    /\ faulted' = FALSE
    /\ UNCHANGED <<source, running, server>>

-----------------------------------------------------------------------------
Identify == SetNewModuleVersion \/ ResolveModuleIdentity
Build == BuildModuleArtifact \/ BuildModuleImage \/ ReadModuleDescriptor
Register == CreateNewApplication \/ CreateNewModuleDiscovery \/ EntitleTenants
Finish == RemoveSuperseded \/ CleanupOnFailure \/ CleanModuleArtifact
Undeploy ==
    \/ UndeployLocalApplication
    \/ \E n \in Private : UndeployLocalModule(n)
    \/ RemoveLocalApplications

Next ==
    \/ \E i \in Invocation : Begin(i)
    \/ Identify
    \/ Build
    \/ DeployModuleAndSidecarPair
    \/ Register
    \/ Finish
    \/ Undeploy
    \/ UpdateModuleDiscovery
    \/ ProcessEnds

Spec == Init /\ [][Next]_vars

-----------------------------------------------------------------------------
(***************************************************************************)
(* Properties                                                              *)
(***************************************************************************)
\* Types: an application names versions of modules the CLI knows, an entry
\* leads to a module's own sidecar or elsewhere, and the tenant is entitled to
\* a version of an application that exists (upgradeModule.go:158,
\* runLocalModule.go:150: the entitlement moves before a version is removed).
TypeOK ==
    /\ file \in [Module -> Version]
    /\ target \in [Module -> 0 .. MaxVersion]
    /\ images \in [Module -> SUBSET Version]
    /\ running \in [Module -> 0 .. MaxVersion]
    /\ DOMAIN apps = App /\ DOMAIN entitled = App
    /\ \A a \in App :
         /\ DOMAIN apps[a] \subseteq Patch
         /\ \A p \in DOMAIN apps[a] :
              /\ Modules(apps[a][p]) \subseteq Module
              /\ \A n \in Modules(apps[a][p]) : apps[a][p].mods[n] \in Version
              /\ apps[a][p].descs \subseteq Module \X (0 .. MaxVersion)
         /\ entitled[a] \in DOMAIN apps[a] \union {0}
    /\ DOMAIN discovery = Module
    /\ \A n \in Module :
         /\ DOMAIN discovery[n] \subseteq Version
         /\ \A v \in DOMAIN discovery[n] : discovery[n][v] \in {"sidecar", "elsewhere"}
    /\ job \in Invocation \union {NoJob}
    /\ version \in 0 .. MaxVersion
    /\ prior \in 0 .. MaxPatch
    /\ todo \subseteq Module
    /\ faulted \in BOOLEAN
    /\ faults \in 0 .. MaxFaults

Deploys == job.cmd \in {"upgradeModule", "runLocalModule"}
Whole == Deploys /\ job.flags \subseteq {"cleanup"}
Ended(r) == pc = "returned" /\ result = r

\* Every command that changes application a leaves its modules described: no
\* line skips building the artifact the descriptor is read from, runLocalModule
\* builds (without a build it sends no descriptor), and the base application has
\* another backend module: upgradeModule drops the new descriptor when it is
\* the only one (upgrade_module_svc_application.go:133).
Describing(a) ==
    /\ \A i \in Invocation :
          /\ "artifact" \notin i.flags
          /\ i.cmd = "runLocalModule" => i.ns = "local"
    /\ a = "base" => \A n \in Base : Base \ Frontend # {n}

\* When upgradeModule, of a module the base application has, or runLocalModule
\* has done every step, the places that name the module's version agree,
\* whatever earlier runs, failed or killed, left half done: the container, the
\* entry of the only version of the application, the entitlement, the discovery
\* entry and the descriptor; and no other module of that application lacks its
\* descriptor, as long as none of the commands leaves one out.  The one
\* exception: the tenant has no version of the application, if the query for
\* the tenants failed (management_svc_tenant_entitlement.go:49, :109); one it
\* has already is never left in the place of the new one, since it cannot be
\* removed.  With --cleanup the build file has the repository's version again
\* (runLocalModule.go:57-170, upgradeModule.go:50-176).
SuccessAgrees ==
    Ended("ok") /\ Whole /\ (app = "base" => m \in Base) =>
        /\ running[m] = version
        /\ DOMAIN apps[app] = {newPatch}
        /\ apps[app][newPatch].mods[m] = version
        /\ Describing(app) =>
              Named(apps[app][newPatch].mods) \subseteq apps[app][newPatch].descs
        /\ entitled[app] = newPatch \/ (faulted /\ entitled[app] = 0)
        /\ version \in DOMAIN discovery[m]
        /\ discovery[m][version] = "sidecar"
        /\ "cleanup" \in job.flags => file[m] = Committed /\ target[m] \in {0, Committed}

\* "Simply re-run the command once the underlying issue is fixed"
\* (README.md:570): a whole run that meets no fault succeeds, whatever earlier
\* runs left, with one exception: a local application that is there although the
\* tenant is not entitled to it.  A run that was killed before the entitlement,
\* whose cleanup failed, or whose query for the tenants did, leaves that, and the
\* next one then upgrades a tenant that has nothing to upgrade.  The other runs
\* that are turned away ask for what cannot be had: runLocalModule of a module
\* of the base application, upgradeModule of one that is not or has no discovery
\* entry, a namespace whose registry lacks the version or a module that was
\* built here.
RerunSucceeds ==
    Ended("error") /\ Whole =>
        \/ faulted
        \/ prior # 0 /\ entitled[app] = 0
        \/ job.cmd = "runLocalModule" /\ m \in Base
        \/ job.cmd = "upgradeModule" /\ (m \notin Base \/ DOMAIN discovery[m] = {})
        \/ ~Accepted(app) \/ (~shouldBuild /\ ~Available)

BaseState == <<apps["base"], entitled["base"], [n \in Base |-> running[n]],
               [n \in Base |-> discovery[n]], [n \in Base |-> file[n]]>>

LocalKeepsBase ==
    job.cmd \in {"runLocalModule", "undeployApplication"} => BaseState' = BaseState

\* "The base application is left untouched" (README.md:572), and a module it
\* already provides is turned away before anything is built or stopped
\* (README.md:566): no step of a command about the local application changes
\* a version, an entitlement, a container, an entry or a build file of the base.
BaseUntouched == [][LocalKeepsBase]_vars

ModulesOfEntitled(a) == IF entitled[a] = 0 THEN {} ELSE Modules(apps[a][entitled[a]])

NoneLeftOut ==
    entitled'["local"] # 0 => ModulesOfEntitled("local") \subseteq ModulesOfEntitled("local")'

\* "Both coexist under a single new app-local version" (README.md:562): while
\* the tenant has a local application, no step takes a module from it, although
\* the version it gets is built from the latest one and not from the one it
\* has (runLocalModule.go:283, 329).
LocalModulesCoexist == [][NoneLeftOut]_vars

=============================================================================
