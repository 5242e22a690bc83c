--------------------------- MODULE ModuleDeployment ---------------------------
(***************************************************************************)
(* The container lifecycle of modulesvc: DeployModules, its sidecar        *)
(* goroutines and their bounded error channel, DeployModule, and           *)
(* UndeployModuleByNamePattern.  A command is one operating system process:*)
(* what Docker holds survives it, everything else is lost when it exits,   *)
(* and it may be killed between any two steps.                             *)
(*                                                                         *)
(* Docker calls are remote.  A call may fail before or after the daemon    *)
(* applied it (the client gives up after ContextTimeoutDockerDeploy while  *)
(* the daemon goes on), so every failure leaves both outcomes open.        *)
(***************************************************************************)
EXTENDS Naturals, Sequences

CONSTANTS
    Module,      \* module names the registry lists
    Management,  \* those whose name contains "mgr-"
    Deployable,  \* configured in backendModules with DeployModule set
    Sidecar,     \* configured with DeploySidecar
    Registry,    \* FolioModules followed by EurekaModules, a sequence
    ErrChCap     \* capacity of sidecarErrCh (10 in the code)

ASSUME ModuleAssumption ==
    /\ Management \subseteq Module
    /\ Deployable \subseteq Module
    /\ Sidecar \subseteq Module
    /\ Registry \in Seq(Module)

ASSUME ErrChAssumption == ErrChCap \in Nat \ {0}

VARIABLES
    docker,         \* what the Docker daemon holds, per container
    cmd,            \* the command the process runs
    pc,             \* control point of the main goroutine
    next,           \* position of the loop in Registry
    totalMatched,   \* modules the loop matched so far
    newlyDeployed,  \* modules started by this command
    task,           \* per module, its deploySidecarAsync goroutine
    failed,         \* sidecars whose deployment failed (history)
    created,        \* containers this command created (history)
    errCh,          \* number of errors buffered in sidecarErrCh
    channel,        \* whether sidecarErrCh is still open
    victims,        \* containers UndeployModuleByNamePattern has yet to visit
    result          \* what the service call returned

vars == <<docker, cmd, pc, next, totalMatched, newlyDeployed, task, failed,
          created, errCh, channel, victims, result>>

local == <<totalMatched, newlyDeployed, failed, errCh, channel, victims>>

-----------------------------------------------------------------------------
Kind == {"module", "sidecar"}
Container == Module \X Kind
Status == {"absent", "stopped", "running"}

ModuleOf(m) == <<m, "module">>
SidecarOf(m) == <<m, "sidecar">>

\* shouldSkipModule and shouldDeployModule
Matches(m) ==
    /\ m \in Deployable
    /\ (cmd = "deployManagement") <=> (m \in Management)

\* deployManagement passes an empty sidecar image
WantsSidecar(m) == cmd = "deployModules" /\ m \in Sidecar

\* Fault: sidecarWG.Add(1) runs inside the goroutine
IdleLateAdd(m) == task[m] \in {"none", "create", "done"}

\* sidecarWG counts the goroutines that have not run their deferred Done
Idle(m) == task[m] \in {"none", "done"}

\* Fault: sidecarWG.Add(1) runs for every module, with or without a sidecar
SidecarWGZeroEveryModule == \A m \in newlyDeployed : task[m] = "done"

SidecarWGZero == \A m \in Module : Idle(m)

-----------------------------------------------------------------------------
Init ==
    /\ docker = [c \in Container |-> "absent"]
    /\ cmd = "none"
    /\ pc = "idle"
    /\ next = 1
    /\ totalMatched = 0
    /\ newlyDeployed = {}
    /\ task = [m \in Module |-> "none"]
    /\ failed = {}
    /\ created = {}
    /\ errCh = 0
    /\ channel = "open"
    /\ victims = {}
    /\ result = "none"

\* A new process: every local variable of the previous one is gone.
StartDeploy(c) ==
    /\ pc = "idle"
    /\ cmd' = c
    /\ pc' = "scan"
    /\ next' = 1
    /\ totalMatched' = 0
    /\ newlyDeployed' = {}
    /\ task' = [m \in Module |-> "none"]
    /\ failed' = {}
    /\ created' = {}
    /\ errCh' = 0
    /\ channel' = "open"
    /\ result' = "none"
    /\ UNCHANGED <<docker, victims>>

\* return nil, 0, err
ReturnError ==
    /\ pc' = "returned"
    /\ result' = "error"

-----------------------------------------------------------------------------
(***************************************************************************)
(* The loop of DeployModules                                               *)
(***************************************************************************)
Unmatched ==
    /\ pc = "scan"
    /\ next <= Len(Registry)
    /\ ~Matches(Registry[next])
    /\ next' = next + 1
    /\ UNCHANGED <<docker, cmd, pc, task, created, result, local>>

\* Fault: a module already deployed is skipped, its sidecar is deployed
FindModuleRedeploySidecar ==
    /\ pc = "scan"
    /\ next <= Len(Registry)
    /\ Matches(Registry[next])
    /\ totalMatched' = totalMatched + 1
    /\ IF docker[ModuleOf(Registry[next])] = "absent"
       THEN pc' = "create" /\ UNCHANGED <<next, task>>
       ELSE /\ task' = [task EXCEPT ![Registry[next]] = "create"]
            /\ next' = next + 1
            /\ UNCHANGED pc
    /\ UNCHANGED <<docker, cmd, result, newlyDeployed, failed, created,
                   errCh, channel, victims>>

\* GetModule lists by exact name with All set: a container that was created
\* and never started counts as deployed, and its sidecar is skipped with it.
FindModule ==
    /\ pc = "scan"
    /\ next <= Len(Registry)
    /\ Matches(Registry[next])
    /\ totalMatched' = totalMatched + 1
    /\ \/ /\ ReturnError
          /\ UNCHANGED next
       \/ /\ docker[ModuleOf(Registry[next])] # "absent"
          /\ next' = next + 1
          /\ UNCHANGED <<pc, result>>
       \/ /\ docker[ModuleOf(Registry[next])] = "absent"
          /\ pc' = "create"
          /\ UNCHANGED <<next, result>>
    /\ UNCHANGED <<docker, cmd, task, newlyDeployed, failed, created,
                   errCh, channel, victims>>

\* PullModule and ContainerCreate of DeployModule for the module container
CreateModule ==
    LET c == ModuleOf(Registry[next]) IN
    /\ pc = "create"
    /\ \/ /\ docker[c] = "absent"
          /\ docker' = [docker EXCEPT ![c] = "stopped"]
          /\ created' = created \union {c}
          /\ \/ pc' = "start" /\ UNCHANGED result
             \/ ReturnError
       \/ ReturnError /\ UNCHANGED <<docker, created>>
    /\ UNCHANGED <<cmd, next, task, local>>

\* ContainerStart, then the sidecar goroutine is spawned (sidecarWG.Add)
StartModule ==
    LET m == Registry[next] IN
    /\ pc = "start"
    /\ \/ /\ docker' = [docker EXCEPT ![ModuleOf(m)] = "running"]
          /\ newlyDeployed' = newlyDeployed \union {m}
          /\ task' = IF WantsSidecar(m) THEN [task EXCEPT ![m] = "create"]
                                        ELSE task
          /\ next' = next + 1
          /\ pc' = "scan"
          /\ UNCHANGED result
       \/ /\ docker' \in {docker, [docker EXCEPT ![ModuleOf(m)] = "running"]}
          /\ ReturnError
          /\ UNCHANGED <<newlyDeployed, task, next>>
    /\ UNCHANGED <<cmd, totalMatched, failed, created, errCh, channel, victims>>

\* The closer goroutine is started and the main goroutine ranges over the
\* channel.
EndLoop ==
    /\ pc = "scan"
    /\ next > Len(Registry)
    /\ pc' = "drain"
    /\ UNCHANGED <<docker, cmd, next, task, created, result, local>>

\* Fault: the channel is closed without waiting
CloseErrChUnwaited ==
    /\ pc = "drain"
    /\ channel = "open"
    /\ channel' = "closed"
    /\ UNCHANGED <<docker, cmd, pc, next, totalMatched, newlyDeployed, task,
                   failed, created, errCh, victims, result>>

\* sidecarWG.Wait(); close(sidecarErrCh)
CloseErrCh ==
    /\ pc = "drain"
    /\ channel = "open"
    /\ SidecarWGZero
    /\ channel' = "closed"
    /\ UNCHANGED <<docker, cmd, pc, next, totalMatched, newlyDeployed, task,
                   failed, created, errCh, victims, result>>

\* for err := range sidecarErrCh { return nil, 0, err }
ReceiveErr ==
    /\ pc = "drain"
    /\ errCh > 0
    /\ errCh' = errCh - 1
    /\ ReturnError
    /\ UNCHANGED <<docker, cmd, next, totalMatched, newlyDeployed, task,
                   failed, created, channel, victims>>

RangeEnds ==
    /\ pc = "drain"
    /\ errCh = 0
    /\ channel = "closed"
    /\ pc' = "returned"
    /\ result' = "ok"
    /\ UNCHANGED <<docker, cmd, next, task, created, local>>

-----------------------------------------------------------------------------
(***************************************************************************)
(* deploySidecarAsync, one goroutine per module.  It runs for as long as   *)
(* the process does, also after DeployModules returned an error.           *)
(***************************************************************************)
\* ContainerCreate; the name may be taken by a sidecar left behind earlier
SidecarCreate(m) ==
    LET c == SidecarOf(m) IN
    /\ task[m] = "create"
    /\ \/ /\ docker[c] = "absent"
          /\ docker' = [docker EXCEPT ![c] = "stopped"]
          /\ created' = created \union {c}
          /\ \/ task' = [task EXCEPT ![m] = "start"] /\ UNCHANGED failed
             \/ /\ task' = [task EXCEPT ![m] = "report"]
                /\ failed' = failed \union {m}
       \/ /\ task' = [task EXCEPT ![m] = "report"]
          /\ failed' = failed \union {m}
          /\ UNCHANGED <<docker, created>>
    /\ UNCHANGED <<cmd, pc, next, totalMatched, newlyDeployed, errCh, channel,
                   victims, result>>

SidecarStart(m) ==
    LET c == SidecarOf(m) IN
    /\ task[m] = "start"
    /\ \/ /\ docker' = [docker EXCEPT ![c] = "running"]
          /\ task' = [task EXCEPT ![m] = "finish"]
          /\ UNCHANGED failed
       \/ /\ docker' \in {docker, [docker EXCEPT ![c] = "running"]}
          /\ task' = [task EXCEPT ![m] = "report"]
          /\ failed' = failed \union {m}
    /\ UNCHANGED <<cmd, pc, next, totalMatched, newlyDeployed, created, errCh,
                   channel, victims, result>>

\* Fault: the channel has no buffer, so the send succeeds only while the main
\* goroutine is receiving
SidecarReportUnbuffered(m) ==
    /\ task[m] = "report"
    /\ errCh' = IF pc = "drain" /\ errCh < ErrChCap THEN errCh + 1 ELSE errCh
    /\ task' = [task EXCEPT ![m] = "finish"]
    /\ UNCHANGED <<docker, cmd, pc, next, totalMatched, newlyDeployed, failed,
                   created, channel, victims, result>>

\* Fault: the send ignores the capacity
SidecarReportUnbounded(m) ==
    /\ task[m] = "report"
    /\ errCh' = errCh + 1
    /\ task' = [task EXCEPT ![m] = "finish"]
    /\ UNCHANGED <<docker, cmd, pc, next, totalMatched, newlyDeployed, failed,
                   created, channel, victims, result>>

\* select { case errCh <- err: default: }
SidecarReport(m) ==
    /\ task[m] = "report"
    /\ errCh' = IF errCh < ErrChCap THEN errCh + 1 ELSE errCh
    /\ task' = [task EXCEPT ![m] = "finish"]
    /\ UNCHANGED <<docker, cmd, pc, next, totalMatched, newlyDeployed, failed,
                   created, channel, victims, result>>

\* defer wg.Done()
SidecarDone(m) ==
    /\ task[m] = "finish"
    /\ task' = [task EXCEPT ![m] = "done"]
    /\ UNCHANGED <<docker, cmd, pc, next, created, result, local>>

SidecarTask(m) ==
    SidecarCreate(m) \/ SidecarStart(m) \/ SidecarReport(m) \/ SidecarDone(m)

-----------------------------------------------------------------------------
(***************************************************************************)
(* UndeployModuleByNamePattern: undeployModules, undeployManagement and    *)
(* undeployModule differ in the name pattern.                              *)
(***************************************************************************)
Patterns ==
    {(Module \ Management) \X Kind, Management \X Kind}
        \union {{m} \X Kind : m \in Module \ Management}

StartUndeploy(pattern) ==
    /\ pc = "idle"
    /\ cmd' = "undeploy"
    /\ \/ /\ pc' = "undeploy"
          /\ victims' = {c \in pattern : docker[c] # "absent"}
          /\ result' = "none"
       \/ ReturnError /\ UNCHANGED victims
    /\ UNCHANGED <<docker, next, totalMatched, newlyDeployed, task, failed,
                   created, errCh, channel>>

\* Fault: a failing ContainerStop is only logged, as ContainerRemove is
UndeployContainerStopIgnored(c) ==
    /\ pc = "undeploy"
    /\ c \in victims
    /\ docker' \in {docker, [docker EXCEPT ![c] = "absent"]}
    /\ victims' = victims \ {c}
    /\ UNCHANGED <<cmd, pc, next, totalMatched, newlyDeployed, task, failed,
                   created, errCh, channel, result>>

\* undeployModule: NetworkDisconnect (a warning at most), ContainerStop, and
\* ContainerRemove whose error is only logged.
UndeployContainer(c) ==
    /\ pc = "undeploy"
    /\ c \in victims
    /\ \/ /\ ReturnError
          /\ docker' \in {docker, [docker EXCEPT ![c] = "stopped"]}
          /\ UNCHANGED victims
       \/ /\ docker' \in {[docker EXCEPT ![c] = "absent"],
                          [docker EXCEPT ![c] = "stopped"]}
          /\ victims' = victims \ {c}
          /\ UNCHANGED <<pc, result>>
    /\ UNCHANGED <<cmd, next, totalMatched, newlyDeployed, task, failed,
                   created, errCh, channel>>

UndeployEnds ==
    /\ pc = "undeploy"
    /\ victims = {}
    /\ pc' = "returned"
    /\ result' = "ok"
    /\ UNCHANGED <<docker, cmd, next, task, created, local>>

\* The process exits once the service call returned, or is killed before: its
\* goroutines die where they are.
ProcessEnds ==
    /\ pc # "idle"
    /\ pc' = "idle"
    /\ cmd' = "none"
    /\ task' = [m \in Module |-> "none"]
    /\ newlyDeployed' = {}
    /\ totalMatched' = 0
    /\ failed' = {}
    /\ created' = {}
    /\ errCh' = 0
    /\ channel' = "open"
    /\ victims' = {}
    /\ next' = 1
    /\ result' = IF pc = "returned" THEN result ELSE "none"
    /\ UNCHANGED docker

-----------------------------------------------------------------------------
Loop == Unmatched \/ FindModule \/ CreateModule \/ StartModule \/ EndLoop
Drain == ReceiveErr \/ RangeEnds
Undeploy == UndeployEnds \/ \E c \in Container : UndeployContainer(c)

Next ==
    \/ \E c \in {"deployManagement", "deployModules"} : StartDeploy(c)
    \/ \E p \in Patterns : StartUndeploy(p)
    \/ Loop
    \/ CloseErrCh
    \/ Drain
    \/ \E m \in Module : SidecarTask(m)
    \/ Undeploy
    \/ ProcessEnds

Spec == Init /\ [][Next]_vars

\* Go schedules every runnable goroutine and every Docker call ends by its
\* context deadline.  Nothing makes a user start another command.
Fairness ==
    /\ WF_vars(Loop)
    /\ WF_vars(CloseErrCh)
    /\ WF_vars(Drain)
    /\ WF_vars(Undeploy)
    /\ \A m \in Module : WF_vars(SidecarTask(m))

FairSpec == Spec /\ Fairness

-----------------------------------------------------------------------------
(***************************************************************************)
(* Properties                                                              *)
(***************************************************************************)
Deploying == {"deployManagement", "deployModules"}
TaskStatus == {"none", "create", "start", "report", "finish", "done"}

\* Every variable stays in its domain; the buffered errors never exceed the
\* capacity the channel was made with.
TypeOK ==
    /\ docker \in [Container -> Status]
    /\ cmd \in Deploying \union {"none", "undeploy"}
    /\ pc \in {"idle", "scan", "create", "start", "drain", "undeploy", "returned"}
    /\ next \in 1 .. (Len(Registry) + 1)
    /\ pc \in {"create", "start"} => next <= Len(Registry)
    /\ totalMatched \in Nat
    /\ newlyDeployed \subseteq Module
    /\ task \in [Module -> TaskStatus]
    /\ failed \subseteq Module
    /\ created \subseteq Container
    /\ errCh \in 0 .. ErrChCap
    /\ channel \in {"open", "closed"}
    /\ victims \subseteq Container
    /\ result \in {"none", "ok", "error"}

Succeeded == pc = "returned" /\ cmd \in Deploying /\ result = "ok"

\* DeployModules never returns success while one of the sidecar goroutines it
\* started failed: a full channel may drop an error, never the last one.
NoFailureLost == Succeeded => failed = {}

\* When DeployModules returns success, the module containers it reports as
\* newly deployed run, and so do their sidecars: it waited for every goroutine.
SuccessMeansRunning ==
    Succeeded =>
        \A m \in newlyDeployed :
            /\ docker[ModuleOf(m)] = "running"
            /\ WantsSidecar(m) => docker[SidecarOf(m)] = "running"

\* No goroutine is left that could send on sidecarErrCh once it is closed
\* (a send on a closed channel panics and kills the command).
NoSendAfterClose ==
    channel = "closed" => \A m \in Module : task[m] \in {"none", "done"}

\* A step of a deployment touches a module's containers only when this command
\* created the module container.
OnlyOwnPairs ==
    \A m \in Module :
        cmd \in Deploying /\ ModuleOf(m) \notin created' =>
            /\ docker'[ModuleOf(m)] = docker[ModuleOf(m)]
            /\ docker'[SidecarOf(m)] = docker[SidecarOf(m)]

\* A module found in Docker, started or not, is skipped together with its
\* sidecar, and a sidecar is never deployed without its module.
SkippedPairUntouched == [][OnlyOwnPairs]_vars

\* Every deployment ends: the range over the error channel is never left
\* waiting on a channel nobody closes or sends to.
DeployEnds == pc \in {"scan", "create", "start", "drain"} ~> pc \in {"returned", "idle"}

-----------------------------------------------------------------------------
(***************************************************************************)
(* The contract of DeploymentPromise.  A deployment owes the pair of every *)
(* module it reports as newly deployed, an undeployment every container it *)
(* has yet to visit.                                                       *)
(***************************************************************************)
PromisePhase ==
    CASE pc = "idle" -> "idle"
      [] pc = "undeploy" -> "undeploying"
      [] pc = "returned" -> result
      [] OTHER -> "deploying"

OwedPairs ==
    {ModuleOf(m) : m \in newlyDeployed}
        \union {SidecarOf(m) : m \in {n \in newlyDeployed : WantsSidecar(n)}}

PromiseOwed == IF cmd = "undeploy" THEN victims ELSE OwedPairs

Promise == INSTANCE DeploymentPromise
           WITH phase <- PromisePhase, fresh <- created, owed <- PromiseOwed

\* DeployModules with its goroutines, and UndeployModuleByNamePattern, keep
\* the contract: success of the whole is success of every part, whatever
\* fails, is answered late or is killed.
KeepsPromise == Promise!Spec

=============================================================================
