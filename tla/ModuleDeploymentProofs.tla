------------------------ MODULE ModuleDeploymentProofs ------------------------
(***************************************************************************)
(* Safety of ModuleDeployment for every registry, every configuration and  *)
(* every channel capacity of at least one.                                 *)
(***************************************************************************)
EXTENDS ModuleDeployment, TLAPS

-----------------------------------------------------------------------------
(***************************************************************************)
(* The inductive invariant                                                 *)
(***************************************************************************)
InLoop == pc \in {"scan", "create", "start", "drain"}

\* The control point and the command agree, and only a deployment has
\* anything newly deployed.
ControlOK ==
    /\ InLoop => cmd \in Deploying
    /\ cmd = "undeploy" => newlyDeployed = {}
    /\ pc = "idle" => newlyDeployed = {}
    /\ pc = "undeploy" => cmd = "undeploy"
    /\ pc # "idle" => cmd # "none"

\* The module being deployed is one the loop has not deployed before.
CurrentOK ==
    pc \in {"create", "start"} => Registry[next] \notin newlyDeployed

\* A goroutine belongs to a newly deployed module; one that failed is about to
\* report, or has.
TaskOK ==
    /\ \A m \in Module : task[m] # "none" => m \in newlyDeployed
    /\ \A m \in failed : task[m] \in {"report", "finish", "done"}
    /\ \A m \in Module : task[m] = "report" => m \in failed

\* A newly deployed module runs; its sidecar has a goroutine, and runs once
\* that goroutine ended without a failure.
RunningOK ==
    \A m \in newlyDeployed :
        /\ docker[ModuleOf(m)] = "running"
        /\ WantsSidecar(m) => task[m] # "none"
        /\ task[m] \in {"finish", "done"} /\ m \notin failed
              => docker[SidecarOf(m)] = "running"

\* While the main goroutine has not returned, a failure is either still to be
\* reported or the channel holds an error: the send drops one only when the
\* channel is full, and it has room for one.
FailureHeld ==
    InLoop => \A m \in failed : task[m] = "report" \/ errCh > 0

\* The channel is closed after the last goroutine ended, before a success.
ClosedOK ==
    /\ channel = "closed" => pc \in {"drain", "returned"} /\ SidecarWGZero
    /\ Succeeded => channel = "closed" /\ failed = {}

\* Everything this command started it created before; a process that has not
\* begun has created nothing.
CreatedOK ==
    /\ \A m \in newlyDeployed : ModuleOf(m) \in created
    /\ pc = "start" => ModuleOf(Registry[next]) \in created
    /\ \A m \in Module : task[m] = "start" => SidecarOf(m) \in created
    /\ pc = "idle" => created = {} /\ victims = {} /\ cmd = "none"
    /\ pc = "returned" => result \in {"ok", "error"}

IInv ==
    /\ TypeOK
    /\ ControlOK
    /\ CurrentOK
    /\ TaskOK
    /\ RunningOK
    /\ FailureHeld
    /\ ClosedOK
    /\ CreatedOK

-----------------------------------------------------------------------------
\* Every variable stays in its domain in every step.
LEMMA TypeInit == Init => TypeOK
  <1>1. Len(Registry) \in Nat
    BY ModuleAssumption
  <1> QED
    BY <1>1, ErrChAssumption DEF Init, TypeOK, Status, TaskStatus, Deploying

\* Every step keeps the variables in their domains.
LEMMA TypeStep == TypeOK /\ [Next]_vars => TypeOK'
  <1> SUFFICES ASSUME TypeOK, [Next]_vars PROVE TypeOK'
    OBVIOUS
  <1> USE ModuleAssumption, ErrChAssumption
      DEF TypeOK, Status, TaskStatus, Deploying, local, ReturnError
  <1>1. ASSUME NEW c \in Deploying, StartDeploy(c) PROVE TypeOK'
    BY <1>1 DEF StartDeploy
  <1>2. ASSUME NEW p \in Patterns, StartUndeploy(p) PROVE TypeOK'
    <2>1. p \subseteq Container
      BY DEF Patterns, Container, Kind
    <2> QED BY <1>2, <2>1 DEF StartUndeploy
  <1>3. CASE Loop
    <2>1. CASE Unmatched
      BY <2>1 DEF Unmatched
    <2>2. CASE FindModule
      BY <2>2 DEF FindModule
    <2>3. CASE CreateModule
      <3>1. Registry[next] \in Module
        BY <2>3 DEF CreateModule
      <3>2. ModuleOf(Registry[next]) \in Container
        BY <3>1 DEF ModuleOf, Container, Kind
      <3> QED BY <2>3, <3>2 DEF CreateModule
    <2>4. CASE StartModule
      <3>1. Registry[next] \in Module
        BY <2>4 DEF StartModule
      <3>2. ModuleOf(Registry[next]) \in Container
        BY <3>1 DEF ModuleOf, Container, Kind
      <3> QED BY <2>4, <3>1, <3>2 DEF StartModule
    <2>5. CASE EndLoop
      BY <2>5 DEF EndLoop
    <2> QED BY <1>3, <2>1, <2>2, <2>3, <2>4, <2>5 DEF Loop
  <1>4. CASE CloseErrCh
    BY <1>4 DEF CloseErrCh
  <1>5. CASE Drain
    BY <1>5 DEF Drain, ReceiveErr, RangeEnds
  <1>6. ASSUME NEW m \in Module, SidecarTask(m) PROVE TypeOK'
    <2>1. SidecarOf(m) \in Container
      BY DEF SidecarOf, Container, Kind
    <2> QED BY <1>6, <2>1 DEF SidecarTask, SidecarCreate, SidecarStart,
                              SidecarReport, SidecarDone
  <1>7. CASE Undeploy
    BY <1>7 DEF Undeploy, UndeployEnds, UndeployContainer
  <1>8. CASE ProcessEnds
    BY <1>8 DEF ProcessEnds
  <1>9. CASE UNCHANGED vars
    BY <1>9 DEF vars
  <1> QED
    BY <1>1, <1>2, <1>3, <1>4, <1>5, <1>6, <1>7, <1>8, <1>9 DEF Next

\* Type correctness of the module deployment.
THEOREM TypeCorrect == Spec => []TypeOK
  BY TypeInit, TypeStep, PTL DEF Spec

-----------------------------------------------------------------------------
\* The two containers of a module are different, and so are those of two
\* modules.
LEMMA ContainersDistinct ==
    \A m, n \in Module :
        /\ ModuleOf(m) \in Container
        /\ SidecarOf(m) \in Container
        /\ ModuleOf(m) # SidecarOf(n)
        /\ ModuleOf(m) = ModuleOf(n) => m = n
        /\ SidecarOf(m) = SidecarOf(n) => m = n
  BY DEF ModuleOf, SidecarOf, Container, Kind

\* The invariant holds initially.
LEMMA InvInit == Init => IInv
  <1> SUFFICES ASSUME Init PROVE IInv
    OBVIOUS
  <1>1. TypeOK
    BY TypeInit
  <1>2. ControlOK /\ CurrentOK /\ TaskOK /\ RunningOK /\ FailureHeld /\ ClosedOK
      /\ CreatedOK
    BY DEF Init, ControlOK, CurrentOK, TaskOK, RunningOK, FailureHeld,
           ClosedOK, CreatedOK, InLoop, Succeeded
  <1> QED BY <1>1, <1>2 DEF IInv

\* Every step keeps the invariant.
LEMMA InvStep == IInv /\ [Next]_vars => IInv'
  <1> SUFFICES ASSUME IInv, [Next]_vars PROVE IInv'
    OBVIOUS
  <1>0. TypeOK'
    BY TypeStep DEF IInv
  <1> DEFINE Goal == /\ ControlOK' /\ CurrentOK' /\ TaskOK'
                     /\ RunningOK' /\ FailureHeld' /\ ClosedOK' /\ CreatedOK'
  <1> SUFFICES Goal
    BY <1>0 DEF IInv
  <1> USE ContainersDistinct, ModuleAssumption, ErrChAssumption
      DEF IInv, TypeOK, Status, TaskStatus, Deploying, local, ReturnError,
          ControlOK, CurrentOK, TaskOK, RunningOK, FailureHeld, ClosedOK, CreatedOK,
          InLoop, Succeeded, WantsSidecar, SidecarWGZero, Idle
  <1>1. ASSUME NEW c \in Deploying, StartDeploy(c) PROVE Goal
    BY <1>1 DEF StartDeploy
  <1>2. ASSUME NEW p \in Patterns, StartUndeploy(p) PROVE Goal
    BY <1>2 DEF StartUndeploy
  <1>3. CASE Loop
    <2>1. CASE Unmatched
      BY <2>1 DEF Unmatched
    <2>2. CASE FindModule
      BY <2>2 DEF FindModule
    <2>3. CASE CreateModule
      BY <2>3 DEF CreateModule
    <2>4. CASE StartModule
      BY <2>4 DEF StartModule
    <2>5. CASE EndLoop
      BY <2>5 DEF EndLoop
    <2> QED BY <1>3, <2>1, <2>2, <2>3, <2>4, <2>5 DEF Loop
  <1>4. CASE CloseErrCh
    BY <1>4 DEF CloseErrCh
  <1>5. CASE Drain
    BY <1>5 DEF Drain, ReceiveErr, RangeEnds
  <1>6. ASSUME NEW m \in Module, SidecarTask(m) PROVE Goal
    <2>1. CASE SidecarCreate(m)
      BY <2>1 DEF SidecarCreate
    <2>2. CASE SidecarStart(m)
      BY <2>2 DEF SidecarStart
    <2>3. CASE SidecarReport(m)
      <3>1. errCh' > 0
        BY <2>3 DEF SidecarReport
      <3>2. channel = "open"
        BY <2>3 DEF SidecarReport
      <3>3. FailureHeld'
        BY <2>3, <3>1 DEF SidecarReport
      <3>4. ControlOK' /\ CurrentOK' /\ ClosedOK' /\ CreatedOK'
        BY <2>3, <3>2 DEF SidecarReport
      <3>5. TaskOK'
        BY <2>3 DEF SidecarReport
      <3>6. RunningOK'
        BY <2>3 DEF SidecarReport
      <3> QED BY <3>3, <3>4, <3>5, <3>6
    <2>4. CASE SidecarDone(m)
      BY <2>4 DEF SidecarDone
    <2> QED BY <1>6, <2>1, <2>2, <2>3, <2>4 DEF SidecarTask
  <1>7. CASE Undeploy
    BY <1>7 DEF Undeploy, UndeployEnds, UndeployContainer
  <1>8. CASE ProcessEnds
    BY <1>8 DEF ProcessEnds
  <1>9. CASE UNCHANGED vars
    BY <1>9 DEF vars
  <1> QED
    BY <1>1, <1>2, <1>3, <1>4, <1>5, <1>6, <1>7, <1>8, <1>9 DEF Next

\* The invariant holds in every reachable state.
THEOREM Invariance == Spec => []IInv
  BY InvInit, InvStep, PTL DEF Spec

\* DeployModules never reports success while a sidecar it launched failed,
\* for any number of modules and any capacity of the error channel.
THEOREM NoFailureLostHolds == Spec => []NoFailureLost
  <1>1. IInv => NoFailureLost
    BY DEF IInv, ClosedOK, NoFailureLost
  <1> QED BY <1>1, Invariance, PTL

\* On success every newly deployed module runs, and its sidecar with it.
THEOREM SuccessMeansRunningHolds == Spec => []SuccessMeansRunning
  <1>1. IInv => SuccessMeansRunning
    <2> SUFFICES ASSUME IInv, Succeeded, NEW m \in newlyDeployed
                 PROVE /\ docker[ModuleOf(m)] = "running"
                       /\ WantsSidecar(m) => docker[SidecarOf(m)] = "running"
      BY DEF SuccessMeansRunning
    <2>1. m \in Module /\ SidecarWGZero /\ failed = {}
      BY DEF IInv, TypeOK, ClosedOK
    <2> QED BY <2>1 DEF IInv, RunningOK, SidecarWGZero, Idle
  <1> QED BY <1>1, Invariance, PTL

\* No goroutine can send on the channel once it is closed.
THEOREM NoSendAfterCloseHolds == Spec => []NoSendAfterClose
  <1>1. IInv => NoSendAfterClose
    BY DEF IInv, ClosedOK, NoSendAfterClose, SidecarWGZero, Idle
  <1> QED BY <1>1, Invariance, PTL

-----------------------------------------------------------------------------
\* A deployment touches only containers of modules it created itself.
THEOREM SkippedPairUntouchedHolds == Spec => SkippedPairUntouched
  <1>1. IInv /\ [Next]_vars => [OnlyOwnPairs]_vars
    <2> SUFFICES ASSUME IInv, Next PROVE OnlyOwnPairs
      BY DEF vars
    <2> USE ContainersDistinct, ModuleAssumption
        DEF OnlyOwnPairs, IInv, TypeOK, ControlOK, TaskOK, CreatedOK, Deploying,
            local, ReturnError, InLoop
    <2>1. ASSUME NEW c \in Deploying, StartDeploy(c) PROVE OnlyOwnPairs
      BY <2>1 DEF StartDeploy
    <2>2. ASSUME NEW p \in Patterns, StartUndeploy(p) PROVE OnlyOwnPairs
      BY <2>2 DEF StartUndeploy
    <2>3. CASE Unmatched \/ FindModule \/ EndLoop
      BY <2>3 DEF Unmatched, FindModule, EndLoop
    <2>4. CASE CreateModule
      BY <2>4 DEF CreateModule
    <2>5. CASE StartModule
      BY <2>5 DEF StartModule
    <2>6. CASE CloseErrCh \/ Drain
      BY <2>6 DEF CloseErrCh, Drain, ReceiveErr, RangeEnds
    <2>7. ASSUME NEW m \in Module, SidecarTask(m) PROVE OnlyOwnPairs
      BY <2>7 DEF SidecarTask, SidecarCreate, SidecarStart, SidecarReport,
                  SidecarDone
    <2>8. CASE Undeploy
      BY <2>8 DEF Undeploy, UndeployEnds, UndeployContainer
    <2>9. CASE ProcessEnds
      BY <2>9 DEF ProcessEnds
    <2> QED
      BY <2>1, <2>2, <2>3, <2>4, <2>5, <2>6, <2>7, <2>8, <2>9 DEF Next, Loop
  <1> QED BY <1>1, Invariance, PTL DEF Spec, SkippedPairUntouched

-----------------------------------------------------------------------------
(***************************************************************************)
(* The contract: initial states map to initial states, steps to steps or   *)
(* stutters.                                                               *)
(***************************************************************************)
LEMMA PromiseInit == Init => Promise!Init
  BY DEF Init, Promise!Init, PromisePhase, PromiseOwed, OwedPairs

\* Every step is one of DeploymentPromise, or a stutter of it.
LEMMA PromiseStep == IInv /\ [Next]_vars => [Promise!Next]_Promise!vars
  <1> SUFFICES ASSUME IInv, [Next]_vars
               PROVE Promise!Next \/ UNCHANGED Promise!vars
    OBVIOUS
  <1> USE ContainersDistinct, ModuleAssumption
      DEF IInv, TypeOK, ControlOK, TaskOK, CreatedOK, Deploying, local,
          ReturnError, InLoop, PromisePhase, PromiseOwed, Promise!vars
  <1>a. CASE UNCHANGED vars
    BY <1>a DEF vars, OwedPairs, WantsSidecar
  <1>1. ASSUME NEW c \in Deploying, StartDeploy(c) PROVE Promise!BeginDeploy
    BY <1>1 DEF StartDeploy, Promise!BeginDeploy, OwedPairs
  <1>2. ASSUME NEW p \in Patterns, StartUndeploy(p) PROVE Promise!BeginUndeploy
    <2>1. p \subseteq Container
      BY DEF Patterns, Container, Kind
    <2> QED BY <1>2, <2>1 DEF StartUndeploy, Promise!BeginUndeploy, OwedPairs
  <1>3. CASE Unmatched \/ EndLoop \/ CloseErrCh
    BY <1>3 DEF Unmatched, EndLoop, CloseErrCh, OwedPairs, WantsSidecar
  <1>4. CASE FindModule
    BY <1>4 DEF FindModule, Promise!Fail, Promise!Proceed, Promise!Next,
                OwedPairs, WantsSidecar
  <1>5. CASE CreateModule
    <2> DEFINE c == ModuleOf(Registry[next])
    <2>1. c \in Container
      BY <1>5 DEF CreateModule
    <2>2. OwedPairs' = OwedPairs
      BY <1>5 DEF CreateModule, OwedPairs, WantsSidecar
    <2>3. Promise!Create(c) \/ Promise!Fail
      BY <1>5, <2>2 DEF CreateModule, Promise!Create, Promise!Fail, Promise!Proceed
    <2> QED BY <2>1, <2>3 DEF Promise!Next
  <1>6. CASE StartModule
    <2> DEFINE c == ModuleOf(Registry[next])
    <2>1. c \in Container
      BY <1>6 DEF StartModule
    <2>2. OwedPairs \subseteq OwedPairs'
      BY <1>6 DEF StartModule, OwedPairs, WantsSidecar
    <2>3. Promise!Start(c) \/ Promise!Fail
      BY <1>6, <2>2 DEF StartModule, Promise!Start, Promise!Fail, Promise!Proceed
    <2> QED BY <2>1, <2>3 DEF Promise!Next
  <1>7. CASE ReceiveErr
    <2>1. OwedPairs' = OwedPairs
      BY <1>7 DEF ReceiveErr, OwedPairs, WantsSidecar
    <2> QED
      BY <1>7, <2>1 DEF ReceiveErr, Promise!Fail, Promise!Proceed, Promise!Next
  <1>8. CASE RangeEnds
    <2>1. OwedPairs' = OwedPairs
      BY <1>8 DEF RangeEnds, OwedPairs, WantsSidecar
    <2>2. failed = {} /\ SidecarWGZero
      BY <1>8 DEF RangeEnds, FailureHeld, ClosedOK, SidecarWGZero, Idle
    <2>3. \A c \in OwedPairs : docker[c] = "running"
      BY <2>2 DEF OwedPairs, RunningOK, SidecarWGZero, Idle
    <2> QED
      BY <1>8, <2>1, <2>3 DEF RangeEnds, Promise!DeploySucceeds, Promise!Next
  <1>9. ASSUME NEW m \in Module, SidecarTask(m)
        PROVE Promise!Next \/ UNCHANGED Promise!vars
    <2>1. PromisePhase \in {"deploying", "error"} /\ cmd # "undeploy"
      BY <1>9 DEF SidecarTask, SidecarCreate, SidecarStart, SidecarReport,
                  SidecarDone, ClosedOK, Succeeded, SidecarWGZero, Idle
    <2>2. OwedPairs' = OwedPairs /\ UNCHANGED <<pc, cmd, result, victims>>
      BY <1>9 DEF SidecarTask, SidecarCreate, SidecarStart, SidecarReport,
                  SidecarDone, OwedPairs, WantsSidecar
    <2>3. Promise!Proceed /\ UNCHANGED PromisePhase
      BY <2>1, <2>2 DEF Promise!Proceed
    <2>4. CASE SidecarCreate(m)
      <3>1. Promise!Create(SidecarOf(m)) \/ Promise!Fail
        BY <2>3, <2>4 DEF SidecarCreate, Promise!Create, Promise!Fail
      <3> QED BY <3>1 DEF Promise!Next
    <2>5. CASE SidecarStart(m)
      <3>1. Promise!Start(SidecarOf(m)) \/ Promise!Fail
        BY <2>3, <2>5 DEF SidecarStart, Promise!Start, Promise!Fail
      <3> QED BY <3>1 DEF Promise!Next
    <2>6. CASE SidecarReport(m) \/ SidecarDone(m)
      BY <2>2, <2>6 DEF SidecarReport, SidecarDone
    <2> QED BY <1>9, <2>4, <2>5, <2>6 DEF SidecarTask
  <1>10. CASE UndeployEnds
    BY <1>10 DEF UndeployEnds, Promise!UndeploySucceeds, Promise!Next
  <1>11. ASSUME NEW c \in Container, UndeployContainer(c) PROVE Promise!Remove(c)
    BY <1>11 DEF UndeployContainer, Promise!Remove
  <1>12. CASE ProcessEnds
    BY <1>12 DEF ProcessEnds, Promise!End, Promise!Next, OwedPairs, WantsSidecar
  <1> QED
    BY <1>a, <1>1, <1>2, <1>3, <1>4, <1>5, <1>6, <1>7, <1>8, <1>9, <1>10,
       <1>11, <1>12 DEF Next, Loop, Drain, Undeploy, Promise!Next

\* modulesvc keeps the contract DeploymentPromise states, for every registry.
THEOREM KeepsPromiseHolds == Spec => KeepsPromise
  BY PromiseInit, PromiseStep, Invariance, PTL DEF Spec, KeepsPromise, Promise!Spec

=============================================================================
