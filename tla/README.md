# A formal model of eureka-cli

`eureka-setup` holds one program, `src/eureka-cli`: a command line tool, written
in Go, that deploys a FOLIO Eureka environment on one machine. It creates Docker
containers (directly and through `docker compose`), registers an application and
the discovery of its modules, creates tenants, entitlements, roles, users,
capability sets and consortia, and later upgrades, intercepts or removes what it
deployed. This directory holds TLA+ models of it, the TLC configurations that
check them, and proofs about them for TLAPS.

## 1. How the program works

Every command is a process of its own that runs to its end and exits
(`cmd/*.go`, `runfn.go`). Almost all state that matters is outside the process
and survives it:

- **Docker**: containers and volumes. A container is created, started, stopped
  and removed by separate calls.
- **The manager applications** behind Kong (`mgr-applications`, `mgr-tenants`,
  `mgr-tenant-entitlements`): application descriptors with a version, discovery
  entries per module version, tenants, entitlements.
- **Modules and Keycloak**: roles, users, capability sets, consortia.
- **Kafka**: messages of the entitlement that consumer groups turn into
  capability sets at their own pace.
- **Files** below the home directory: cached registry versions, the last number
  of capability sets, port files.

The program gets its result by repetition. Each operation looks first whether
its object exists and skips it when it does, so that a run that failed half-way
can be started again. So the hard questions are seldom about one handler. They
are about sequences of runs: what a failed, killed or half-answered run leaves,
what the next one skips because of it, and what a run that reports success may
be relied on for. Inside one process there is real concurrency in three places:
sidecars are deployed by one goroutine each, readiness is checked by one
goroutine per module, and the consumer group works while it is polled.

Everywhere a request that changes something has three outcomes: it is applied
and answered, it is refused, or it is applied and its answer is lost (timeout,
broken connection), which the client sees as an error. The process may be killed
between any two requests. In every model below a process may be killed at any of
its control points, and a request that changes something has the outcomes that
leave different states behind. Where no property tells several requests of a step
apart, they are one action, whose failing outcomes are what is left after some of
them.

## 2. Inventory

| Component | Source (`src/eureka-cli/`) | State | Operations | Hard behaviour | Correct when |
|---|---|---|---|---|---|
| Module deployment | `modulesvc/` | containers; error channel, wait group, set of new modules | `DeployModules`, `DeployModule`, `deploySidecarAsync`, `UndeployModuleByNamePattern` | goroutines, bounded channel, early return, killed process, late Docker call | success of the whole is success of each part; it ends; it leaves foreign pairs alone |
| Readiness checks | `cmd/run.go`, `modulesvc/`, `kongsvc/` | retry counters, error channel, pages of routes | one goroutine per module, the paged and retried route list, its count | bounded channel, first error wins, routes registered between two pages, checks skipped when nothing is new | success means every module was healthy once; a complete list; every wait ends |
| Application lifecycle | `cmd/upgradeModule.go`, `cmd/runLocalModule.go`, `cmd/undeployApplication.go`, `managementsvc/`, `upgrademodulesvc/` | descriptors per version, discovery, entitlements; build file, artifact, image, container | choose the version, build, create version, entitle, roll back, remove old versions | stale latest version, failing rollback, skipped steps, half done builds | entitled version exists and is routable; a successful run repairs what failed runs left, and can always be repeated; local modules coexist |
| Capability sets | `keycloaksvc/keycloak_svc_capability_set.go`, `kafkasvc/` | published and consumed messages, sets per role, persisted count | poll, attach in batches, detach | asynchronous consumer, two retry counters, half attached batches | what was published when the group was drained is attached; it ends |
| Environment deployment | `cmd/deploy*.go`, `cmd/undeploy*.go`, `cmd/run.go` | all of the above per tenant | the sequence of steps, partition by partition | repetition over partial failures, preserved volumes, map order | success means every tenant is ready |
| Child applications | the same commands for a profile with `application.dependencies`, `cmd/deployAdditionalSystem.go`, `action/` | as above, the system containers of the child, the role and the count the profiles share | deploy on a parent, undeploy, clean up, each step alone | children share one role and one file, the parent is upgraded meanwhile | success means the child is there, or gone, and the role agrees |
| Tenants, entitlements, roles, users | `managementsvc/`, `keycloaksvc/` | one record each | create and remove, skipping what exists | user, password and roles in three requests | user gets its role; central before members |
| Consortia | `consortiumsvc/`, `usersvc/` | consortium, its tenants and their setup status | create, join central then members, poll the status | status polled without bound, members join through the central tenant | central joins first |
| Interception and discovery | `cmd/interceptModule.go`, `interceptmodulesvc/`, `cmd/updateModuleDiscovery.go` | discovery location, containers | custom pair, default pair | discovery moves before the containers do | after success, discovery points at what runs |
| Ports and module properties | `action/`, `moduleprops/` | reserved ports | reserve per module and sidecar | probe and use at different times, finite range | no port is handed out twice |
| Registry cache | `registrysvc/`, `helpers/io_helper.go` | cached version list | download, write, read | truncated file, stale version | versions read were written by a complete run |
| Build and version rules | `upgrademodulesvc/`, `helpers/` | build file, artifact, image | next version, build, merge into a descriptor | a version that was built but not deployed, descriptors of other modules | the next version is free; what is merged is complete |
| HTTP client, Kong, Keycloak, tokens | `httpclient/`, `kongsvc/`, `keycloaksvc/` | none of their own | requests and their retries | outcome uncertain | modelled in the operations that use them |
| UI, search, external tools, configuration, utilities | see `PROJECT.json` | none of their own | requests and child processes | outcome uncertain | not modelled one by one |

`PROJECT.json` lists each component with its sources and its status, and under
`hazards` every place in the code where a test would hardly reach what can go
wrong.

**Interactions.** `deployApplication` (EnvironmentDeployment) runs
`deployManagement` and `deployModules` as steps: containers (ModuleDeployment),
then readiness (Readiness), then per partition of tenants the entitlement (which
publishes to Kafka), roles, users, and `attachCapabilitySets`
(CapabilityAttachment), and at its end the consortia. A child profile runs the
same steps on top of a deployed parent (ChildApplications). `upgradeModule` and
`runLocalModule` work on what a deployment left registered: ApplicationLifecycle
follows versions and tenants, ApplicationContents the module from its build file
to its discovery entry. `interceptModule` moves a discovery entry and exchanges
the pair behind it (ModuleVersions). All of them take host ports from the
same range (HostPorts).

## 3. Plan

The order was: what every other command relies on first.

| # | Module | What it covers |
|---|---|---|
| 1 | `ModuleDeployment`, `DeploymentPromise` | containers, goroutines, the bounded error channel; its contract |
| 2 | `ApplicationLifecycle` | versions, discovery and entitlements over upgradeModule, runLocalModule, undeployApplication of a local application |
| 3 | `CapabilityAttachment` | polling the consumer group, attaching in batches |
| 4 | `EnvironmentDeployment`, `ContainerGroups` | the whole deployment, partition by partition, and its repetition |
| 5 | `ModuleVersions` | the cached registry list, the versions a deployment runs, registers and routes to, interception |
| 6 | `HostPorts` | the range of host ports, configured ports, other processes and returning containers |
| 7 | `Readiness` | one goroutine per module, the first error, the paged route list |
| 8 | `ApplicationContents` | the module of an application from its build file to its discovery entry, build and version rules |
| 9 | `ChildApplications` | deployments on a parent, with a shared role and a shared count |
| 10 | `ModuleDeploymentProofs`, `PollingProofs`, `ModuleVersionsProofs`, `ApplicationLifecycleProofs` | type correctness and the safety properties of five of the modules; `PollingProofs` is about two, Readiness and CapabilityAttachment |
| 11 | `EnvironmentDeploymentProofs`, `ChildApplicationsProofs`, `ApplicationContentsProofs` | the same for the three that compose them, where success is promised over any past |
| 12 | `HostPortsProofs` | the same for the ports, where sets are counted |

All of it is done, and every safety property of the nine models is proved. What could
come next: interception with several discovery entries of a module; users that share
roles.

Modules meant for proofs have no RECURSIVE operator, take all sizes as
constants with named assumptions, and split their invariant into named
conjuncts.

## 4. The modules

Each operation of the code is one action (one per remote request, where the
operation makes several), guarded by `pc`, the control point of the one process
that runs. A request that changes something is a disjunction of its three
outcomes. `ProcessEnds` ends a command that has returned, and also one that has
not: that is the kill. It leaves what is outside the process and clears what is
inside.

A definition marked `Fault` is a changed form of an operation, as a plausible
mistake in the code would make it. No specification uses it. It documents which
mistake the property it is listed with in `PROJECT.json` would find.

### ModuleDeployment

`docker` is what the daemon holds: a module and a sidecar container per module,
absent, stopped or running. `StartDeploy`, `FindModule`, `CreateModule` and
`StartModule` are the loop of `DeployModules`; `SidecarCreate`, `SidecarStart`,
`SidecarReport` and `SidecarDone` the goroutine of `deploySidecarAsync`;
`CloseErrCh` the goroutine that waits for the wait group; `ReceiveErr` and
`RangeEnds` the final range over the channel. `errCh` is the number of errors
the channel buffers, and a report that finds it full drops its error as the
`select` with `default` does. A failing Docker call may have taken effect. After
an early return the goroutines go on until the process ends. Undeployment visits
the containers whose name matches, in any order, stops and removes each; a
failing stop ends it, a failing removal is only logged.

`DeploymentPromise` is the contract other commands build on: it knows no
goroutine and no channel. A deployment creates and starts containers one by one,
may only succeed when the containers it owes run, and touches nothing that was
there. `Promise` in ModuleDeployment is the refinement mapping.

### ApplicationLifecycle

Two applications, `base` and `local`. `apps` gives each version the version of
the one module it carries, `discovered` the module versions with a discovery
entry, `entitled` the version of each tenant. `Prepare` reads the latest version
and fixes the next; then `CreateNewApplication`, `CreateNewModuleDiscovery`, the
entitlement of the tenants one by one, and `RemoveVersion` for the others, or,
after a failure, the rollback of the command at hand: `Rollback` for
runLocalModule, `RollbackTenants` and `RollbackTenant` for upgradeModule, whose
rollback keeps per tenant whatever version the first entitlement names.

### ApplicationContents

The same commands for one tenant, with what an application contains. A module
has a version in its build file (`file`), one in its build directory (`target`),
`images`, and one that is `running`; an application version has modules and
descriptors; a discovery entry belongs to a module version and leads to its
sidecar or elsewhere. `SetNewModuleVersion` and `ResolveModuleIdentity` choose
the version, `BuildModuleArtifact` and `BuildModuleImage` may fail half-way,
`Contents` is the new version of the application (`Upgraded` for upgradeModule,
`Merged` or `FirstLocal` for runLocalModule), and `CleanModuleArtifact` undoes
the build file. Maven and Gradle differ in what they can undo. A version is a
number, and the next one is its successor. `EntitleTenants` also has the query for
the tenants that fails and is answered with nil: the command goes on with nobody
entitled. `Deployable` is what `prepareModuleAndSidecarPairNetwork` dereferences:
`upgradeModule` of a module that is no backend module of the profile panics after
its old pair was removed. `ProcessEnds` ends a command anywhere; a kill counts as a
fault.

### CapabilityAttachment

`published` are the capability sets of entitled applications, `existing` those
the consumer group has created, `attached` those of each role. `ReadRecord`
compares with the number persisted by the last run and may skip the polling.
`ReportsLag`, `ReportsNoLag`, `ReportsNothing`, `PollFails` and `PollTimeout` are
the outcomes of one round of `PollConsumerGroup`, with its two retry counters.
`PickRole` computes what a role lacks, `AttachBatch` sends one batch and may fail
or lose the answer. `Consume`, `Rebalance` and `Publish` belong to the
environment and may happen at any time they can in reality. The control point is
called `step` here, and the specification `AttachSpec`: `PollingProofs` extends this
module and Readiness, whose `pc` and `Spec` are others.

### ContainerGroups

What a container deployment and an undeployment make of a group of containers, for
the two models that compose them. A group is the set of the states its modules are
in: `running` with the sidecar, `absent`, or `dead`, when there is a container and
the pair does not run. `AfterDeployment` is where ModuleDeployment's `FindModule`
matters: what is absent runs afterwards, what is dead stays dead, and the
deployment succeeds all the same (`module_svc_manage.go:124-131`), as the health
checks look at new containers only (`deployModules.go:102`). A failed deployment
may leave dead containers, and so may an undeployment that could not remove what
it had stopped. The ways to be dead (never started, stopped, cut off, without the
sidecar) are not told apart: the code treats them alike.

### EnvironmentDeployment

A profile is a record (its consortia, the consortium of each tenant, the central
tenants, the commands its user runs), chosen at the start. The state holds one
fact per tenant: exists, entitled, has its role, its user (absent, created, with
password, without role, ready), has the capability sets, status in the
consortium. `Start` is the command; `UndeployModules` to `WipeVolumes` the
teardown; `DeploySystem`, `DeployManagement`, `DeployModules` the containers, by
group (ContainerGroups); then the application and its discovery, `CreateTenant`, the
partitions (`EnterPartition`, `ListTenants`, and one action per step), and the
consortia. Whatever exists is skipped by the same test the code makes.
`AttachCapabilitySets` may succeed before all sets exist: the polling passes a
rebalance for a drained group (`kafka_svc.go:73`), and a role without sets is only
warned of. `early` remembers the tenants it did that to.

### ChildApplications

A command is a `plan`, the sequence of the steps it has yet to take, built from
the sequences of its handlers (`DeployChildApplication`,
`UndeployChildApplication`, `Plan`); the first error drops the rest. Each step is
one action: `ValidateParentApplications`, the containers, the application and its
discovery, the entitlement, `DetachCapabilitySets`, and the four steps of
attaching. Several children share one tenant and its role (`attached`), the
consumer group (`CreateSet`, `ForgetSet`), and the file with the total (`record`),
which a deployment removes (`RemoveRecord`) and an undeployment trusts.
The containers of a child are a group (ContainerGroups).
`UpgradeBase` and `RedeployBase` change the parent under them. `faulted` and
`excuse` remember which answers a command took for something else.

### Readiness

`checker` is the control point of the goroutine of each new module, `errCh` what
it has reported. `Ping` and `Report` are `checkModuleReadiness`, `Collect` the
main goroutine once all are done. `BeginListing`, `ReadPage` and `PageFails` read
the routes page by page, each page with the retries of the HTTP client, and
`JudgeRoutes` compares counts, as `CheckRouteReadiness` does. Containers become
healthy and fall ill, and managers register routes, at any moment. `unverified`
holds the containers that no deployment has seen ready, which is what a repeated
deployment does not look at.

### ModuleVersions

`release` is the newest release of the registry, which `Publish` may advance at
any moment. A release is a number: the version of every module listed by its
platform descriptor, directly (management modules) or through an application
descriptor (all others). `GetModules` with `FetchDescriptor`,
`FetchApplication`, `JoinFetches`, `TruncateFile` and `WriteFile` is
`registrysvc`: one request for the platform descriptor, one goroutine per
application, then the file, which is first truncated. `file` is `modules.json`:
missing, broken, or readable with a list. `DeployManagement` to
`CreateDiscovery` are the part of `deployApplication` that depends on versions;
`LookupDiscovery` to `CheckModuleAndSidecarReadiness` are `interceptModule` with
and without `--restore`; `UpdateModuleDiscovery` is also a command of its own. A
container is the version of its image, or 0.

### HostPorts

`binding` holds the host ports each container was created with, `running` says
which containers hold theirs, `foreign` what other processes hold. A command
reads the modules of its group in any order (`ReadModule`: a Go map) and adds the
lowest ports that are neither bound nor in `reserved` (`ReservedPorts`) to its
`plan`. Containers are created from the plan afterwards (`DeployModule`), when a
port may have gone: `stolen` remembers that. `cmd` is a deployment, an exchange
of one pair (`upgradeModule`, `interceptModule --restore`) or `runLocalModule`,
which first adds the published ports of all containers. A stopped container
publishes none, and takes its ports back when it returns. A configured port
(`Fixed`) is in the plan without having been probed or reserved, as in `getPort`,
and another process may hold it.

## 5. Runs

| Run | Instance | Question |
|---|---|---|
| `module_deployment` | a management module, two with a sidecar, one not deployable; error channel of capacity 1 | Is success of the whole success of each part, does a deployment end, does it keep the contract of `DeploymentPromise`? |
| `application_lifecycle` | 2 tenants, one of them configured; 3 versions; all commands and the flag sets that leave a version usable | Do repeated runs repair what failed ones left, and is an entitled version always there? |
| `capability_attachment` | 3 capability sets, 2 roles, batches of 2; 3 polls, 2 rebalances | Is everything attached that was published when the group was drained, and does the command end? |
| `environment_deployment` | a consortium with a central tenant and a member, two consortia, no consortium with every single step as a command of its own | What may one rely on after a deployment that succeeded, over any past? |
| `child_applications` | two children of one base application, one with system containers; three commands | Does success mean that a child is there, or gone, and that the shared role agrees? |
| `readiness` | a manager, two modules, four routes on pages of two, two of them with one expression | Was everything ready that is reported ready, is the route list complete, does every wait end? |
| `application_contents` | a base application of two backend modules and one of the user interface, two local modules (Maven, Gradle); ten command lines; two faults | Do the places that name a version agree after success, can a run always be repeated, is the base left alone? |
| `module_versions` | one management module, two modules of two applications; 3 releases, one with an unpublished application descriptor | Is what is cached, run, registered and routed to of one version? |
| `host_ports` | 4 modules (one per way of needing ports, one with a configured port), 14 ports for a demand of 8 (deployment), 10 (exchange) and 14 (local module) | Who can make a start fail, and when does the range run out? |
| `upgrade_rollback` | `upgradeModule` alone | a statement of the documentation about its rollback, which the code does not keep |
| `lag_survives_rebalance` | one role, two sets | a statement of the tests about the lag of the consumer group |
| `users_can_log_in` | one tenant, no consortium | a statement of the README about repeating a deployment |

### What the properties say

*ModuleDeployment.* `NoFailureLost`: the bounded channel may drop an error, but
never all of them. `SuccessMeansRunning`: success waited for every goroutine.
`NoSendAfterClose`: nobody is left to send on the closed channel.
`SkippedPairUntouched`: a command touches the containers of a module only if it
created the module's. `KeepsPromise`: the refinement. `DeployEnds`: nothing waits
for ever.

*ApplicationLifecycle.* `SuccessRepairs`: a run that succeeds leaves one version
and nobody entitled to another, whatever earlier runs left. `EntitledIsRoutable`:
in every state, in the middle of every run, an entitled version is registered
and its module is in discovery. `EntitlementsOnlyGrow`: no sequence of failed and
repeated upgrades takes a tenant back. `LocalRollback`: a rolled back
`runLocalModule` leaves the version it found.

*ApplicationContents.* `SuccessAgrees`: after a whole run the container, the only
version of the application, the entitlement, the discovery entry and the
descriptor name one version, whatever earlier runs left half done. If the query
for the tenants failed, the tenant may have no version at all; that it keeps a
superseded one is excluded. `RerunSucceeds`: a run that meets no fault succeeds;
its disjuncts are the runs the code turns away. One of them is what an earlier run
may have left: a local application nobody is entitled to, whose tenant is then
upgraded and has nothing to upgrade. The others ask for what cannot be had. `BaseUntouched`: no step about the local application touches
the base. `LocalModulesCoexist`: no step takes a local module from the tenant.

*CapabilityAttachment.* `DrainedMeansAttached`, over half attached batches and
earlier runs; `AttachEnds`.

*EnvironmentDeployment.* `SuccessMeansReady` says what success promises. Its
exceptions are of two kinds. What had been left and is skipped: containers that do
not run, users that were half set up, consortium tenants whose setup had begun,
the discovery of an application that had been registered. And what passes for
done: a setup that failed, and capability sets that did not all exist yet when they
were attached. `UsersGetTheirRole` and `CentralFirst` (the central tenant is
entitled, and joins, before a member) are orders that hold over repetition.
`DataSurvives`: with preserved volumes no step loses data.

*ChildApplications.* `SuccessMeansDone`: a deployment that succeeds has the child
in place and every set in the role, an undeployment has neither; the exceptions
are in `excuse`: containers that are there and do not run, and wrong answers, each
of which the code takes for something else. An undeployment may keep discovery
entries. `CleanupRepairs`: `--cleanup` ends well over any leftover, in particular an
application whose discovery was never created, over which a plain deployment
fails run after run.

*Readiness.* `SuccessMeansWasReady`: success vouches for every module but those an
earlier run left unchecked. `ListingComplete`: the pages miss no route that was
there at the first one. `RoutesReady`: the count is right unless two routes share
an expression. `ReadinessEnds`: no goroutine waits for room on the channel, every
retry is bounded.

*ModuleVersions.* `FileIsOneRelease`: the file never mixes releases.
`FreshDeploymentAgrees`: a deployment from nothing runs, registers and routes to
backend modules of one release, though it reads the registry twice.
`InterceptionRouted`: discovery and containers agree after an interception and
after its end.

*HostPorts.* `BindFailsOnlyByOthers`: a command never makes its own containers
collide; each port that keeps one from starting was taken since it was reserved, or
is a configured one that another process has. `FailsOnlyWhenFull`: "no free TCP port" comes only if the range lacks
the ports of the command's demand, which for an exchange includes those of
*all* modules the profile lists, because they are read first.

### Findings

Three runs end in a counterexample. Each refutes a statement of the repository's
own documentation or tests; `PROJECT.json` quotes it. Document paths in the
properties' comments are relative to `src/eureka-cli`.

- `UpgradeRollback`: the rollback keeps the version the first entitlement names.
  Once a tenant was upgraded that is the new one.
- `LagSurvivesRebalance`: `lag` is declared anew in each round, so that the lag
  to be kept is always 0.
- `UsersCanLogIn`: a user that was created before its password failed is
  skipped by every later run.

Other behaviour the models show, that no statement contradicts, or that a
property names as its exception:

- A tenant query that fails passes for a tenant without anything to do
  (`GetTenants` of ApplicationLifecycle, `EntitleTenants` of ApplicationContents,
  `"tenants"` in `excuse`).
- A deployment passes over containers that exist and do not run, sidecars included,
  and succeeds (`inherited.dead` in `SuccessMeansReady`, `"containers"` in `excuse`).
- `upgradeModule` of a module the profile does not list removes its pair and then
  panics (`Deployable` of ApplicationContents).
- Checks are skipped when nothing was newly deployed, although an earlier run may
  have ended before it had checked (`inherited` in `SuccessMeansWasReady`).
- The route check counts routes, not expressions (`Twins` in `RoutesReady`).
- An application that exists without discovery is skipped by every plain
  deployment (`"discovery"` in `excuse`, `CleanupRepairs`).
- A total that happens to match the file spares a run the polling (`"record"`).
- The descriptor of the only backend module of an application is dropped when
  that module is upgraded by a build (`Upgraded` of ApplicationContents,
  `Describing` in `SuccessAgrees`).

### Bounds, and why they are enough

- *Two of each actor.* What can go wrong between goroutines, tenants, roles,
  partitions or applications needs two of them, one that fails and one that
  does not. Modules differ only in how the code treats them (management, with
  sidecar, not deployable), and each kind is there; two have a sidecar, so two
  goroutines can fail at once on a channel that holds one error.
- *Versions and releases.* Three versions are two upgrades, the second of which
  meets what the first left. Three releases let one be published during each
  reading of a deployment.
- *Contents.* Three versions of a module and of an application, and two faults
  (`MaxVersion`, `MaxPatch`, `MaxFaults`): a run and its cleanup can both fail, or a
  run and the one that repeats it. A fault may be a kill, so that each point where a
  run can stop is reached.
- *Environment.* The profile of two consortia is only deployed, over and over: it is
  there for the order of the consortia, which are exchanged by symmetry
  (`Symmetry`: each with its tenant; no other profile knows them). The consortium of
  two tenants is also undeployed, and the profile without one meets every command.
- *Children.* Three commands (`MaxCommands`): one leaves something, another child
  or the parent changes what is shared, the third relies on it. Each application
  has one capability set, and `Size` is what the total adds up.
- *Readiness.* Two pings, two polls, one retry, and two routes on a page stand
  for `ModuleReadinessMaxRetries`, `KongRouteReadinessMaxRetries`,
  `RetryHTTPClientRetryMax` and Kong's page size: the last one and one before it.
- *Polling.* `PollMax` and `RebalanceMax` stand for `ConsumerGroupPollMaxRetries` and
  `ConsumerGroupRebalanceRetries`, both 70. With 3 and 2 either can run out first.
- *Runs of a command* are unbounded but for `child_applications` and `host_ports`.
  The latter has two commands (`MaxCommands`), because the second one meets all
  a first one can leave
  (containers that run, were stopped or failed to start), and two events outside
  (`MaxEvents`), because one process that takes a port and one container that
  stops and returns are the two ways to lose a port. The other process may want one
  port of the range and the configured one (`Outside`).
- *Ports.* A range of 14 is enough for each command on an empty host and too
  small for each of them after another: both outcomes are reached for all three.

Deadlock is checked everywhere but in `host_ports`, where the bounds stop the
model.

## 6. Fairness

Liveness is claimed of three commands only.

- ModuleDeployment: weak fairness of the steps of `DeployModules`, of the
  goroutine that closes the channel, of the range over it, of undeployment, and
  of every sidecar goroutine. The Go scheduler runs every goroutine that is
  ready. The Docker calls that create, start, stop, remove and list have a deadline
  (`constant.ContextTimeoutDocker*`) and then fail, which the model has as an
  outcome. The inspection of an image has none (`module_svc_manage.go:57` passes
  `context.Background()`): that it answers is assumed of the local daemon. `StartDeploy`, the user's
  decision, has no fairness.
- CapabilityAttachment: weak fairness of the command's own steps. The HTTP
  client has timeouts, and `kafka-consumer-groups.sh` runs under `timeout 30s`.
  Nothing is assumed of the consumer group: it may lag or rebalance for ever,
  and the command ends.

- Readiness: weak fairness of the main goroutine (`Main`) and of the goroutine of
  each module (`Check`). Each of their steps is a request with a timeout or a
  step of Go itself. Nothing is assumed of modules, Kong or the user: they may
  never become healthy, and the command still ends.

The other specifications claim safety only. `checkConsortiumTenantStatus` asks
without bound: that it ends depends on the consortium modules, so no liveness
is claimed of EnvironmentDeployment.

## 7. Proofs

All nine models are proved about, for every value of their constants that the named
assumptions allow. Each proof module states an inductive invariant `IInv` as a
conjunction of named parts, proves that the initial states satisfy it and that
each action keeps it, one step or lemma per action, and derives the theorems.
`Invariance`, in each of them, is `Spec => []IInv`. (For CapabilityAttachment, in
`PollingProofs`, the two are `AttachInv` and `AttachInvHolds`.)

| Module | Theorem | States |
|---|---|---|
| `ModuleDeploymentProofs` | `TypeCorrect`, `NoFailureLostHolds`, `SuccessMeansRunningHolds`, `NoSendAfterCloseHolds` | the four invariants of the run |
| | `SkippedPairUntouchedHolds` | the action property |
| | `KeepsPromiseHolds` | `Spec => Promise!Spec`, the refinement |
| `PollingProofs` | `TypeCorrect`, `SuccessMeansWasReadyHolds`, `ListingCompleteHolds`, `RoutesReadyHolds` | the four invariants of the run of Readiness |
| | `AttachTypeCorrect`, `DrainedMeansAttachedHolds` | the two invariants of the run of CapabilityAttachment |
| `ModuleVersionsProofs` | `TypeCorrect`, `FileIsOneReleaseHolds`, `FreshDeploymentAgreesHolds`, `InterceptionRoutedHolds` | the four invariants of the run |
| `ApplicationLifecycleProofs` | `TypeCorrect`, `SuccessRepairsHolds`, `EntitledIsRoutableHolds`, `LocalRollbackHolds` | the four invariants of the run |
| | `EntitlementsOnlyGrowHolds` | the action property |
| `EnvironmentDeploymentProofs` | `TypeCorrect`, `SuccessMeansReadyHolds`, `UsersGetTheirRoleHolds`, `CentralFirstHolds` | the four invariants of the run |
| | `DataSurvivesHolds` | the action property |
| `ChildApplicationsProofs` | `TypeCorrect`, `SuccessMeansDoneHolds`, `CleanupRepairsHolds` | the three invariants of the run |
| `ApplicationContentsProofs` | `TypeCorrect`, `SuccessAgreesHolds`, `RerunSucceedsHolds` | the three invariants of the run |
| | `BaseUntouchedHolds`, `LocalModulesCoexistHolds` | the two action properties |
| `HostPortsProofs` | `TypeCorrect` | the invariant of the run |
| | `BindFailsOnlyByOthersHolds`, `FailsOnlyWhenFullHolds` | the two action properties |

**ModuleDeployment.** *Assumptions:* `ModuleAssumption` (the registry is a sequence
of modules, modules with a sidecar are modules) and `ErrChAssumption` (the channel
holds at least one error). The second is needed: with capacity 0 a failure is
lost when it is reported before the main goroutine ranges over the channel. The
code makes the channel with capacity 10, whatever the number of sidecars.
*Argument:* none of the invariants is inductive. `IInv` adds: the control point
fits the command (`ControlOK`); the module the loop is at has not been deployed
(`CurrentOK`), so that a goroutine is never started twice; a goroutine belongs to
a newly deployed module and one that failed has reported, or will (`TaskOK`); a
newly deployed module runs, and its sidecar too once its goroutine ended well
(`RunningOK`); a failure is in one of three places, a goroutine that has yet to
report, the buffer, or the result (`FailureHeld`); a closed channel means that
all goroutines are done (`ClosedOK`); what was created is what the command may
touch (`CreatedOK`). `FailureHeld` is the heart of it: dropping an error is sound
only because the buffer then holds another. The refinement maps each action to
one of DeploymentPromise, or to a stutter, under `IInv`.

**Readiness.** *Assumption:* `ReadinessAssumption` (finite sets of modules,
routes and expressions, positive retries and page size). *Argument:* `IInv`
follows a container from its creation to the success of the command: what is
unverified is new or was inherited (`VouchOK`), the goroutine of a new module
that is done has seen it healthy or left its name on the channel (`CheckerOK`),
which cannot have been full, as it has a slot for each new module. The pages
read so far hold all routes up to the offset (`ListingOK`), since a page has no
gaps (`PageIsPrefix`); counts and expressions agree by the cardinality of an
injective image.

**CapabilityAttachment.** *Assumption:* `CapabilityAssumption` (finite sets of capability
sets and roles, positive bounds). *Argument:* what was drained exists from the poll
to the end; a role that was visited has it (`VisitedOK`), and the role at hand has
it or has yet to be sent it (`CurrentOK`), batch by batch.

**ModuleVersions.** *Assumption:* `VersionsAssumption`. *Argument:* all goroutines fetch
the release whose descriptor was read (`FetchOK`), although newer ones appear, so
that every list in memory or in the file is one release (`ListOK`). For a
deployment from nothing, `FreshOK` says at each of its control points what exists
and that all of it comes from the list; `SidecarOK` says that no sidecar
outlives the managers, so that a fresh deployment finds none of another version.
`ExchangeOK` does the same for the pair of an interception.

**ApplicationLifecycle.** *Assumptions:* `LifecycleAssumption`, and `FlagsRegister`: a
user who skips the discovery entry also skips the version or the entitlements.
The second is a hypothesis of each theorem, because without it the user asks for
an entitled version nothing routes to; the flags of the run satisfy it.
*Argument:* a tenant is entitled only to a version that exists (`EntitledExists`),
since versions are entitled after they were created and the manager refuses to
delete an entitled one.
The version found is there (`PriorFound`), none lies beyond it when the next one is
created (`NothingBeyond`, from `LatestIsLast`, which rests on well-founded
induction over the naturals) nor beyond the new one afterwards (`TargetLast`):
hence entitlements only grow. The new version carries the module that was deployed
(`TargetModule`), and its discovery precedes the first entitlement
(`TargetDiscovered`). `KeepOK` says which version a removal spares, and that it is
there, in each situation that leads to a removal; from it follow
`SuccessRepairs` and `LocalRollback`. Nothing of the sort holds of the rollback of
`upgradeModule`, which is the finding `UpgradeRollback`.

**EnvironmentDeployment.** *Assumption:* `EnvironmentAssumption`. The profiles are
any set: theorems hold for any number of tenants, of consortia and of central
tenants in one, and for a user who runs any of the single steps. *Argument:* a
run that succeeds has found or made everything, so `IInv` says for each control
point what is behind it: the containers (`ContainersUp`), the application
(`ApplicationThere`), the tenants (`TenantsThere`), what each tenant of the
partitions behind has (`PartitionsDone`), what those of the present partition
have, step by step and within a step visit by visit (`StepsDone`), and who has
joined (`ConsortiaDone`). `ContainersUp` is about groups: behind a deployment none
lacks a container, and one with dead ones had them before, since a deployment that
succeeds makes nothing dead. What is half set up was so when the command began, or
is what it is at (`HalfUsersKnown`, `HalfJoinsKnown`): these are the exceptions of
`SuccessMeansReady`. `CentralFirst` needed its own strengthening: a partition of
members is reached only after the one of central tenants *succeeded*, so that an
entitled member implies that all central tenants of its consortium are entitled,
also between the two, and no command but a removal takes that back.

**ChildApplications.** *Assumption:* `ChildAssumption` (finite set of children, of any
number, each with any positive number of capability sets). *Argument:* a plan is
always the end of the one its command began with (`PlanOK`), so the number of steps
left tells which steps are behind; `DeployPlace` and `UndeployPlace` turn it into
names. `DeploymentOK`, `UndeploymentOK` and `RoleRestored` say what each step that
is behind has left *for good*, whatever the consumer group does meanwhile and with
the wrong answers (`excuse`) as exceptions. `CleanupOK` connects the halves of a
cleanup: its deployment finds nothing to skip, no container that does not run and
no application, because its undeployment removed it. That sets of two applications are disjoint, and that the total of a file
determines what it counts, are lemmas about finite sets (`SetsApart`,
`CapSetsCounted`).

**ApplicationContents.** *Assumption:* `ContentsAssumption` (the base application has a
backend module in the registry, its modules are not private ones, the command
lines are well formed; any bounds). *Argument:* one half of `IInv` lasts from
command to command. Every version of the base has the modules of the base, and a
later version of the local application all those of an earlier one, private ones
only (`ModulesOK`); each module of a version is described (`DescribedOK`); Gradle
never wrote a build file (`FilesOK`). The other half is what a command counts on
at its control points: that its artifact and image are of its version (`BuildOK`),
that the version of the application it creates lies beyond all others (`PatchOK`,
from `LatestIsLast`), that this version carries the module (`EntryOK`) and that
container, entitlement and discovery follow (`PlacesOK`), and why it is rolled
back if nothing failed (`RollbackOK`). Of a run whose query for the tenants failed,
`PlacesOK` says nothing about the entitlement before the superseded versions are
removed; the manager then refuses to remove one somebody is entitled to, so that
success leaves the new version or none. `LocalModulesCoexist` follows because no
step changes a version in place (`VersionsStay`) and the tenant only moves on to
a later version (`LocalEntitlementRises`).

**HostPorts.** *Assumption:* `PortsAssumption` (a finite set of modules; configured ports
are distinct and lie outside the range; any range, also an empty one; other processes
may want any port of either kind). *Argument:* `IInv`
has two halves. The plans: they are made of ports the command reserved and of
configured ones (`PortsOK`), no two containers are planned with one port
(`PlansApart`), and a port of a plan that somebody else holds was stolen, or is a
configured one and held by another process (`PlansFree`). That gives `BindFailsOnlyByOthers`; the
case that needs care is a stopped container that comes back with a port reserved
meanwhile. The budget: what a command has reserved so far is no more than the modules it
has read ask for (`BudgetOK`), where `runLocalModule` does not count the ports it has taken
from containers. When a module finds fewer candidates than it needs, the free part
of the range is smaller than the demand (`FewCandidates`), which gives
`FailsOnlyWhenFull`. That a set of modules asks for the sum of what its members ask for
(`NeedsCount`) follows from counting slots, without induction over the set; that the lowest
free ports are as many as were wanted (`LowestCount`), from well-founded induction over the
naturals.

TLC checks the same formulas on the instances of the runs.

*What the proofs corrected.*

- `SuccessAgrees` claimed that all modules of the application are described after
  every whole run. The step of `upgradeModule` does not keep that: with one
  backend module the new descriptor is dropped
  (`upgrade_module_svc_application.go:133`), and a command line that skips the
  artifact, or runs a local module from the registry, registers a version without
  its descriptor, which later versions inherit. The instance has no such line and
  two backend modules. The property now names these conditions (`Describing`);
  TLC shows the loss on an instance with one backend module.
- `CentralEntitledFirst`, part of `CentralFirst`, said less than the code keeps and
  was not inductive; it now speaks of all central tenants of the consortium.
- Operators of `TLC` (`:>`, `@@`) and an overlapping `CASE` had no meaning to the
  provers; `Put` and `FirstStep`, `StepAfter`, `LastStep` say the same, with the
  same states.
- `TypeOK` of ApplicationContents did not give `entitled` its domain.
- The demand of HostPorts was a fold over the modules, whose value for every set only
  an induction over data gives. `Needs` counts the slots of the modules instead, which
  is the same number. `PortsAssumption` did not say that the modules are finitely many.

*Only model-checked.* Liveness (`DeployEnds`, `AttachEnds`, `ReadinessEnds`), which
needs fairness and ENABLED, out of this prover's reach. No module has a RECURSIVE
operator.

## 8. What the models assume of the outside

- The manager application refuses to delete an application version somebody is
  entitled to, may refuse to upgrade a tenant that is not entitled, accepts a
  discovery entry that exists, and answers a query for full applications with all
  descriptors, sent or fetched. Discovery entries may outlive their version.
- A sidecar refuses requests for a tenant that is not entitled (README.md:1074).
- `GetTenants` lists tenants in any order, and Go maps are visited in any order.
- Kong lists its routes in a fixed order, new ones anywhere in it, and a page ends
  with the offset of the next.
- The consumer group creates and forgets capability sets at its own pace, some time
  after a tenant is entitled or no longer.
- The registry never changes a descriptor once published, but may lack an
  application descriptor its platform descriptor names (`Unlisted`).
- `versions:revert` brings back the version in the repository. Docker does not
  start an image it lacks.
- Each tenant has one role and one user, as in the profiles; ApplicationContents
  and ChildApplications have one tenant, whose base application is always there.
- Other processes may take a port at any time, of the range or a configured one; the
  ports configured in profiles lie below the range and are distinct
  (`PortsAssumption`).
- In EnvironmentDeployment and ChildApplications a container that runs goes on
  running until a command removes it. A group of which some containers run may
  answer a request, or not. Readiness and HostPorts have containers that fall ill
  or stop by themselves.

## 9. What is not modelled

- UI build, reindexing, tenant parameters: a step that may fail. Docker, Git,
  AWS, Vault, child processes: wrappers. Configuration and utility commands:
  parsing and printing. Settings of Keycloak realms and clients: stateless
  requests. Encoding and headers of the HTTP client.
- `purgeSchemas`, pinned module versions, interception of a module with several
  discovery entries, and profiles in which two users share a role.
- A local application with the name of the base application
  (`--applicationName`): ApplicationContents takes the two for different ones.
- How a snapshot number or a namespace is written, the version of the base
  application a local one names as its dependency (no command reads it), the
  environment of containers, their resources and volumes, the pull of images.
- That `checkConsortiumTenantStatus` ends: it asks without bound, and whether the
  setup ends is up to the consortium modules.
- That discovery entries of superseded local versions go: `undeployApplication`
  asks only the latest one for its modules.
