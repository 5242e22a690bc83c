------------------------------- MODULE HostPorts -------------------------------
(***************************************************************************)
(* Host ports of the containers.  A command reads the configured modules   *)
(* and reserves, for each of them, the lowest ports of a range that can be *)
(* bound at that moment and that it has not handed out yet; the containers *)
(* are created later, and Docker binds the ports when it starts them.  In  *)
(* between other processes come and go, and containers stop and restart.   *)
(*                                                                         *)
(* What one reservation probes it probes at one instant.  The order in     *)
(* which a Go map yields the modules is any order.                         *)
(***************************************************************************)
EXTENDS Integers, FiniteSets

CONSTANTS
    Backend,     \* modules of backendModules
    Management,  \* those the management deployment reads
    Paired,      \* those with DeploySidecar
    Undeployed,  \* those with DeployModule off
    Pinned,      \* for those with a configured port, that port
    Local,       \* the module runLocalModule adds
    First, Last, \* ConfigApplicationPortStart, ConfigApplicationPortEnd
    Outside,     \* ports of the range, and configured ones, that other processes may want
    MaxEvents,   \* bound: how often a port is taken or a container stops
    MaxCommands  \* bound: how many commands run

PortRange == First .. Last

\* The configured ports, which nobody probes or reserves
Fixed == {Pinned[m] : m \in DOMAIN Pinned}

Port == PortRange \union Fixed

\* The configured ports of the profiles lie below their range
ASSUME PortsAssumption ==
    /\ IsFiniteSet(Backend)
    /\ Management \subseteq Backend
    /\ Paired \subseteq Backend \ Management
    /\ Undeployed \subseteq Backend
    /\ DOMAIN Pinned \subseteq Backend
    /\ Fixed \intersect PortRange = {}
    /\ \A m, n \in DOMAIN Pinned : Pinned[m] = Pinned[n] => m = n
    /\ Local \notin Backend
    /\ First \in Nat /\ Last \in Nat
    /\ Outside \subseteq Port
    /\ MaxEvents \in Nat /\ MaxCommands \in Nat

VARIABLES
    binding,   \* per container, the host ports it was created with ({}: no container)
    running,   \* containers that run, and hold their ports
    foreign,   \* ports other processes hold
    cmd,       \* the command that runs
    pc,        \* its control point
    group,     \* the group of modules it is at
    todo,      \* modules ReadBackendModules has yet to visit
    reserved,  \* ReservedPorts
    plan,      \* per container, the ports it is to be created with
    starts,    \* containers that are to be deployed next
    target,    \* the module whose pair is exchanged
    stolen,    \* reserved ports somebody else took since (history)
    result,    \* how the command ended
    events,    \* events outside so far (bound)
    commands   \* commands so far (bound)

docker == <<binding, running>>
bounds == <<events, commands>>
vars == <<binding, running, foreign, cmd, pc, group, todo, reserved, plan, starts,
          target, stolen, result, events, commands>>

-----------------------------------------------------------------------------
Module == Backend \union {Local}
Container == Module \X {"module", "sidecar"}
NoPorts == [c \in Container |-> {}]

ModuleOf(m) == <<m, "module">>
SidecarOf(m) == <<m, "sidecar">>
PairOf(m) == {ModuleOf(m), SidecarOf(m)}

Held == UNION {binding[c] : c \in running}

\* Fault: a reservation is not remembered
CandidatesProbedOnly == PortRange \ (Held \union foreign)

\* What isPortFree finds free and ReservedPorts does not contain
Candidates == PortRange \ (Held \union foreign \union reserved)

\* The n lowest ports of S
Lowest(S, n) == {p \in S : Cardinality({q \in S : q < p}) < n}

\* Fault: getPort reserves whatever the entry says, and so does the debug port
ModuleNeedsAlways(m) == 2

\* Ports reserved for the module container: its server port unless configured
\* or unused, and its debug port, which NewBackendModule takes in any case
ModuleNeeds(m) ==
    (IF m \in Undeployed \/ m \in DOMAIN Pinned THEN 0 ELSE 1)
        + (IF m \in Paired \intersect Undeployed THEN 0 ELSE 1)

SidecarNeeds(m) == IF m \in Paired \ Undeployed THEN 2 ELSE 0

Configured(m) == IF m \in DOMAIN Pinned \ Undeployed THEN {Pinned[m]} ELSE {}

Deployable(g) ==
    {m \in Backend \ Undeployed : (g = "management") <=> (m \in Management)}

Init ==
    /\ binding = NoPorts
    /\ running = {}
    /\ foreign = {}
    /\ cmd = "none"
    /\ pc = "idle"
    /\ group = "none"
    /\ todo = {}
    /\ reserved = {}
    /\ plan = NoPorts
    /\ starts = {}
    /\ target = Local
    /\ stolen = {}
    /\ result = "none"
    /\ events = 0
    /\ commands = 0

Return(r) == pc' = "returned" /\ result' = r

\* ReadBackendModules(isManagement)
CallRead(g) ==
    /\ group' = g
    /\ todo' = {m \in Backend : (g = "management") <=> (m \in Management)}
    /\ pc' = "read"

-----------------------------------------------------------------------------
(***************************************************************************)
(* Outside the program                                                     *)
(***************************************************************************)
OtherTakes(p) ==
    /\ events < MaxEvents
    /\ events' = events + 1
    /\ p \notin Held \union foreign
    /\ foreign' = foreign \union {p}
    /\ stolen' = stolen \union ({p} \intersect reserved)
    /\ UNCHANGED <<docker, cmd, pc, group, todo, reserved, plan, starts, target, result, commands>>

OtherReleases(p) ==
    /\ p \in foreign
    /\ foreign' = foreign \ {p}
    /\ UNCHANGED <<docker, cmd, pc, group, todo, reserved, plan, starts, target, stolen, result,
                   bounds>>

ContainerStops(c) ==
    /\ events < MaxEvents
    /\ events' = events + 1
    /\ c \in running
    /\ running' = running \ {c}
    /\ UNCHANGED <<binding, foreign, cmd, pc, group, todo, reserved, plan, starts, target,
                   stolen, result, commands>>

ContainerRestarts(c) ==
    /\ binding[c] # {}
    /\ c \notin running
    /\ binding[c] \intersect (Held \union foreign) = {}
    /\ running' = running \union {c}
    /\ stolen' = stolen \union (binding[c] \intersect reserved)
    /\ UNCHANGED <<binding, foreign, cmd, pc, group, todo, reserved, plan, starts, target, result,
                   bounds>>

-----------------------------------------------------------------------------
(***************************************************************************)
(* Reservation                                                             *)
(***************************************************************************)
\* deployApplication, interceptModule --restore or upgradeModule, runLocalModule
Start(c, m) ==
    /\ pc = "idle"
    /\ commands < MaxCommands
    /\ commands' = commands + 1
    /\ cmd' = c
    /\ target' = m
    /\ result' = "none"
    /\ \/ c = "deploy" /\ CallRead("management")
       \/ c = "exchange" /\ CallRead("modules")
       \/ c = "local" /\ pc' = "used" /\ UNCHANGED <<group, todo>>
    /\ UNCHANGED <<docker, foreign, reserved, plan, starts, stolen, events>>

\* reserveUsedHostPorts of runLocalModule: a stopped container publishes none
ReserveUsedHostPorts ==
    /\ pc = "used"
    /\ reserved' = reserved \union Held
    /\ CallRead("modules")
    /\ UNCHANGED <<docker, foreign, cmd, plan, starts, target, stolen, result,
                   bounds>>

\* GetPreReservedPortSet, for the two containers of m
Reserve(m, forModule, forSidecar, fixed) ==
    LET all == Lowest(Candidates, forModule + forSidecar)
        own == Lowest(all, forModule)
    IN  /\ Cardinality(Candidates) >= forModule + forSidecar
        /\ reserved' = reserved \union all
        /\ plan' = [plan EXCEPT ![ModuleOf(m)] = own \union fixed,
                                ![SidecarOf(m)] = all \ own]

NoFreeTCPPort(n) == Cardinality(Candidates) < n /\ Return("no free port")

ReadModule(m) ==
    /\ pc = "read"
    /\ m \in todo
    /\ todo' = todo \ {m}
    /\ \/ /\ Reserve(m, ModuleNeeds(m), SidecarNeeds(m), Configured(m))
          /\ UNCHANGED <<pc, result>>
       \/ /\ NoFreeTCPPort(ModuleNeeds(m) + SidecarNeeds(m))
          /\ UNCHANGED <<reserved, plan>>
    /\ UNCHANGED <<docker, foreign, cmd, group, starts, target, stolen, bounds>>

ReadEnds ==
    /\ pc = "read"
    /\ todo = {}
    /\ \/ /\ cmd = "deploy"
          /\ pc' = "start"
          /\ starts' = {ModuleOf(m) : m \in Deployable(group)}
       \/ /\ cmd # "deploy"
          /\ pc' = IF cmd = "local" THEN "local" ELSE "undeploy"
          /\ UNCHANGED starts
    /\ UNCHANGED <<docker, foreign, cmd, group, todo, reserved, plan, target, stolen, result,
                   bounds>>

\* newLocalBackendModule
NewLocalBackendModule ==
    /\ pc = "local"
    /\ \/ Reserve(Local, 2, 2, {}) /\ pc' = "undeploy" /\ UNCHANGED result
       \/ NoFreeTCPPort(4) /\ UNCHANGED <<reserved, plan>>
    /\ UNCHANGED <<docker, foreign, cmd, group, todo, starts, target, stolen, bounds>>

-----------------------------------------------------------------------------
(***************************************************************************)
(* Containers                                                              *)
(***************************************************************************)
\* Fault: the containers are removed from the books, and run on
UndeployModuleAndSidecarPairForced ==
    /\ pc = "undeploy"
    /\ binding' = [c \in Container |-> IF c \in PairOf(target) THEN {} ELSE binding[c]]
    /\ pc' = "network"
    /\ UNCHANGED <<running, foreign, cmd, group, todo, reserved, plan, starts, target, stolen,
                   result, bounds>>

UndeployModuleAndSidecarPair ==
    /\ pc = "undeploy"
    /\ binding' = [c \in Container |-> IF c \in PairOf(target) THEN {} ELSE binding[c]]
    /\ running' = running \ PairOf(target)
    /\ pc' = "network"
    /\ UNCHANGED <<foreign, cmd, group, todo, reserved, plan, starts, target, stolen, result,
                   bounds>>

\* prepareModuleAndSidecarPairNetwork: four ports, whatever was planned before
PrepareNetwork ==
    /\ pc = "network"
    /\ \/ /\ Reserve(target, 2, 2, {})
          /\ pc' = "start"
          /\ starts' = {ModuleOf(target)}
          /\ UNCHANGED result
       \/ NoFreeTCPPort(4) /\ UNCHANGED <<reserved, plan, starts>>
    /\ UNCHANGED <<docker, foreign, cmd, group, todo, target, stolen, bounds>>

\* DeployModules skips a module that has a container, and its sidecar with it
SkipModule(m) ==
    /\ pc = "start"
    /\ ModuleOf(m) \in starts
    /\ binding[ModuleOf(m)] # {}
    /\ starts' = starts \ {ModuleOf(m)}
    /\ UNCHANGED <<docker, foreign, cmd, pc, group, todo, reserved, plan, target, stolen, result,
                   bounds>>

\* "Bind for 0.0.0.0:XXXXX failed: port is already allocated" leaves a
\* container that does not run; so does any other failure.  What else was
\* launched may still go on or not: ModuleDeployment has the details.
DeployModule(c) ==
    /\ pc = "start"
    /\ c \in starts
    /\ binding[c] = {}
    /\ binding' = [binding EXCEPT ![c] = plan[c]]
    /\ \/ /\ plan[c] \intersect (Held \union foreign) = {}
          /\ running' = running \union {c}
          /\ starts' = (starts \ {c}) \union {s \in {SidecarOf(c[1])} \ {c} : plan[s] # {}}
          /\ UNCHANGED result
       \/ /\ plan[c] \intersect (Held \union foreign) # {}
          /\ result' = "allocated"
          /\ starts' = starts \ {c}
          /\ UNCHANGED running
    /\ UNCHANGED <<foreign, cmd, pc, group, todo, reserved, plan, target, stolen, bounds>>

DeployEnds ==
    /\ pc = "start"
    /\ \/ /\ result = "allocated"
          /\ Return("allocated")
          /\ UNCHANGED <<group, todo>>
       \/ /\ starts = {} /\ result = "none"
          /\ cmd = "deploy" /\ group = "management"
          /\ CallRead("modules")
          /\ UNCHANGED result
       \/ /\ starts = {} /\ result = "none"
          /\ ~ (cmd = "deploy" /\ group = "management")
          /\ Return("ok")
          /\ UNCHANGED <<group, todo>>
    /\ UNCHANGED <<docker, foreign, cmd, reserved, plan, starts, target, stolen, bounds>>

\* The process exits, or is killed: its reservations go with it
ProcessEnds ==
    /\ pc # "idle"
    /\ pc' = "idle"
    /\ cmd' = "none"
    /\ group' = "none"
    /\ todo' = {}
    /\ reserved' = {}
    /\ plan' = NoPorts
    /\ starts' = {}
    /\ target' = Local
    /\ stolen' = {}
    /\ result' = "none"
    /\ UNCHANGED <<docker, foreign, bounds>>

Environment ==
    \/ \E p \in Outside : OtherTakes(p) \/ OtherReleases(p)
    \/ \E c \in Container : ContainerStops(c) \/ ContainerRestarts(c)

Begin ==
    \/ Start("deploy", Local)
    \/ \E m \in Paired \ Undeployed : Start("exchange", m)
    \/ Start("local", Local)

Command ==
    \/ ReserveUsedHostPorts
    \/ \E m \in Backend : ReadModule(m) \/ SkipModule(m)
    \/ ReadEnds
    \/ NewLocalBackendModule
    \/ UndeployModuleAndSidecarPair
    \/ PrepareNetwork
    \/ \E c \in Container : DeployModule(c)
    \/ DeployEnds

Next == Environment \/ Begin \/ Command \/ ProcessEnds

Spec == Init /\ [][Next]_vars

-----------------------------------------------------------------------------
(***************************************************************************)
(* Properties                                                              *)
(***************************************************************************)
\* Every variable has a value of its kind; a container runs only if it exists,
\* and what was taken was reserved (Action.ReservedPorts, Docker's bindings).
TypeOK ==
    /\ binding \in [Container -> SUBSET Port]
    /\ \A c \in running : c \in Container /\ binding[c] # {}
    /\ foreign \subseteq Outside
    /\ cmd \in {"none", "deploy", "exchange", "local"}
    /\ pc \in {"idle", "used", "read", "local", "undeploy", "network", "start", "returned"}
    /\ group \in {"none", "management", "modules"}
    /\ todo \subseteq Backend
    /\ reserved \subseteq Port
    /\ plan \in [Container -> SUBSET Port]
    /\ starts \subseteq Container
    /\ target \in Module
    /\ stolen \subseteq reserved
    /\ result \in {"none", "ok", "no free port", "allocated"}
    /\ events \in 0 .. MaxEvents
    /\ commands \in 0 .. MaxCommands

\* The container is created, and Docker cannot start it.
BindFails(c) == binding[c] = {} /\ binding'[c] # {} /\ c \notin running'

\* The ports it asks for and somebody has
InUse(c) == plan[c] \intersect (Held \union foreign)

CollidesWithOthers ==
    \A c \in Container : BindFails(c) => InUse(c) \subseteq stolen \union (Fixed \intersect foreign)

\* "port is already allocated" is never the program's own doing: every port that
\* keeps a container from starting either was taken after its command had
\* reserved it, by another process or by a container that came back, or is a
\* configured one, which is neither probed nor reserved, and another process has
\* it.  Two reservations of a command, ports of running containers and
\* configured ports never collide (GetPreReservedPort, ReadBackendModules,
\* prepareModuleAndSidecarPairNetwork, module_props.go:205).
BindFailsOnlyByOthers == [][CollidesWithOthers]_vars

\* What a container needs a port for.  A module that is not deployed, and has no
\* sidecar, takes one for debugging all the same.
Use == {"server", "debug"}

\* The ports of m's containers that have to come from the range
Own(m) ==
    IF m \in Undeployed
    THEN {<<ModuleOf(n), "debug">> : n \in {m} \ Paired}
    ELSE ({ModuleOf(m)} \X Use \ {<<ModuleOf(n), "server">> : n \in {m} \intersect DOMAIN Pinned})
            \union {SidecarOf(n) : n \in {m} \intersect Paired} \X Use

Needs(S) == Cardinality(UNION {Own(m) : m \in S})

\* The ports a command may ask for, whatever it goes on to use
Demand ==
    CASE cmd = "deploy" -> Needs(Backend)
      [] cmd = "exchange" -> Needs(Backend \ Management) + 4
      [] OTHER -> Needs(Backend \ Management) + 8

NoPortFound == result = "none" /\ result' = "no free port"

\* Ports of the containers there are, running or not
Bound == UNION {binding[c] : c \in Container}

Full ==
    IF cmd = "local"
    THEN Cardinality(PortRange \ (foreign \union Bound)) < Demand + 4
    ELSE Cardinality(PortRange \ (foreign \union Held)) < Demand

\* "no free TCP port" means what it says: the range lacks, at that moment, the
\* ports of the command's own demand.  Besides those, runLocalModule counts as
\* taken what was published when it began: the ports of the containers there
\* are, and the four its old pair had (GetPreReservedPort, NewBackendModule,
\* NewBackendModuleWithSidecar, reserveUsedHostPorts).
FailsOnlyWhenFull == [][NoPortFound => Full]_vars

=============================================================================
