---------------------------- MODULE PollingProofs -----------------------------
(***************************************************************************)
(* Proofs about the two commands that poll until something outside them is *)
(* done.                                                                   *)
(*                                                                         *)
(* Readiness, for every number of modules and routes, every page size and  *)
(* every bound of the retries.  The inductive invariant IInv follows a     *)
(* container from its creation to the success of the command: an           *)
(* unverified one is new or was inherited, the goroutine of a new one that *)
(* is done has seen it ready or has left its name on the channel, and the  *)
(* channel cannot have been full.                                          *)
(*                                                                         *)
(* CapabilityAttachment, for every finite set of capability sets and of    *)
(* roles, every size of a batch and every bound of the polling.  The       *)
(* inductive invariant AttachInv follows what was drained from the poll to *)
(* the success of the command: it exists, and a role that has been visited *)
(* has it, the role at hand has it or has yet to be sent it.               *)
(***************************************************************************)
EXTENDS Readiness, CapabilityAttachment, TLAPS, FiniteSetTheorems, FunctionTheorems

-----------------------------------------------------------------------------
(***************************************************************************)
(* Readiness                                                               *)
(***************************************************************************)
\* Retries are left while something is still asked for.
BudgetOK ==
    /\ \A m \in Module : checker[m] = "ping" => tries[m] < ModulePings
    /\ pc \in {"routes", "page", "judge"} => poll < RoutePolls

\* Goroutines run while the command waits for them, and one that is done with a
\* module that never was ready has reported it.
CheckerOK ==
    /\ \A m \in Module : checker[m] # "off" => pc = "check" /\ m \in newly
    /\ pc = "check" => \A m \in newly : checker[m] # "off"
    /\ \A m \in errCh : checker[m] = "done"
    /\ \A m \in Module : checker[m] = "done" => m \in wasReady \/ m \in errCh

ContainerOK ==
    /\ \A m \in Module : container[m] = "ready" => m \in wasReady
    /\ \A m \in Module : container[m] = "absent" => m \notin wasReady \cup unverified
    /\ \A m \in Module : container[m] # "absent" => m \in wasReady \cup unverified

StageOK ==
    /\ pc # "idle" => stage \in Stages(cmd) /\ result = "none"
    /\ pc = "ping" => cmd = "deployApplication" /\ stage = "deployManagement"
    /\ pc # "idle" /\ cmd = "deployApplication" /\ stage = "deployModules" =>
         \A m \in Management : container[m] # "absent"
    /\ pc \in {"check", "routes", "page", "judge", "finish"} =>
         \A m \in ModulesOf(stage) : container[m] # "absent"

\* Nothing but what the command inherited or is about to check is unverified.
VouchOK ==
    /\ pc = "check" => unverified \subseteq inherited \cup newly
    /\ pc \in {"ping", "deploy", "routes", "page", "judge", "finish"} => unverified \subseteq inherited

\* The pages read so far hold what there was up to the offset.
ListingOK ==
    /\ seen \subseteq kong
    /\ before \subseteq kong
    /\ pc = "page" => \A r \in before : r <= offset => r \in seen
    /\ pc = "judge" => before \subseteq seen

IInv ==
    /\ TypeOK
    /\ BudgetOK
    /\ CheckerOK
    /\ ContainerOK
    /\ StageOK
    /\ VouchOK
    /\ ListingOK
    /\ SuccessMeansWasReady
    /\ RoutesReady

-----------------------------------------------------------------------------
\* The page behind an offset has no gaps: what is below its last route is on it.
LEMMA PageIsPrefix ==
  ASSUME NEW r \in Rest, NEW last \in Page, r <= last, kong \subseteq Route
  PROVE  r \in Page
  <1>1. Rest \subseteq Nat /\ IsFiniteSet(Rest)
    BY ReadinessAssumption, FS_Subset DEF Rest
  <1>2. CASE r = last
    BY <1>2
  <1>3. CASE r # last
    <2> DEFINE Below(x) == {q \in Rest : q < x}
    <2>1. last \in Rest /\ Cardinality(Below(last)) < PageSize
      BY DEF Page
    <2>2. Below(r) \subseteq Below(last)
      <3>1. r \in Nat /\ last \in Nat
        BY <1>1, <2>1
      <3>2. ASSUME NEW q \in Rest, q < r PROVE q < last
        BY <1>1, <3>1, <3>2
      <3> QED BY <3>2
    <2>3. IsFiniteSet(Below(last)) /\ IsFiniteSet(Below(r))
      BY <1>1, FS_Subset
    <2>4. Cardinality(Below(r)) <= Cardinality(Below(last))
      BY <2>2, <2>3, FS_Subset
    <2>5. Cardinality(Below(r)) \in Nat /\ Cardinality(Below(last)) \in Nat
      BY <2>3, FS_CardinalityType
    <2>6. Cardinality(Below(r)) < PageSize
      <3> HIDE DEF Below
      <3> QED BY <2>1, <2>4, <2>5, ReadinessAssumption
    <2> QED BY <2>6 DEF Page
  <1> QED BY <1>2, <1>3

\* A goroutine that has an error finds room on the channel.
LEMMA RoomOnChannel ==
  ASSUME TypeOK, CheckerOK, NEW m \in Module, checker[m] = "report"
  PROVE  Cardinality(errCh) < Cardinality(newly)
  <1>1. m \in newly \ errCh
    BY DEF CheckerOK
  <1>2. IsFiniteSet(newly)
    BY ReadinessAssumption, FS_Subset DEF TypeOK, Module
  <1>3. errCh \in SUBSET newly /\ errCh # newly
    BY <1>1 DEF TypeOK
  <1>4. IsFiniteSet(errCh) /\ Cardinality(errCh) <= Cardinality(newly) /\ Cardinality(errCh) # Cardinality(newly)
    BY <1>2, <1>3, FS_Subset
  <1>5. Cardinality(errCh) \in Nat /\ Cardinality(newly) \in Nat
    BY <1>2, <1>4, FS_CardinalityType
  <1> QED BY <1>4, <1>5

\* As many matching routes as expressions, no two for the same one: each
\* expression has its route.
LEMMA CountIsEnough ==
  ASSUME seen \subseteq kong, kong \subseteq Route, ~Twins,
         Cardinality(Matched) = Cardinality(Expected)
  PROVE  Expected \subseteq {Expression[r] : r \in kong}
  <1> DEFINE f == [r \in Matched |-> Expression[r]]
  <1>1. Matched \subseteq kong
    BY DEF Matched
  <1>2. f \in [Matched -> Expected]
    BY DEF Matched
  <1>3. \A r, q \in Matched : f[r] = f[q] => r = q
    BY <1>1 DEF Twins, Matched
  <1>4. f \in Injection(Matched, Expected)
    BY <1>2, <1>3, Fun_IsInj
  <1>5. f \in Surjection(Matched, Expected)
    <2> HIDE DEF f
    <2> QED BY <1>4, FS_Injection, ReadinessAssumption
  <1>6. \A e \in Expected : \E r \in Matched : f[r] = e
    BY <1>5, Fun_SurjectionProperties DEF Surjection
  <1> QED BY <1>1, <1>6

-----------------------------------------------------------------------------
\* The invariant holds initially.
LEMMA InitHolds == Init => IInv
  <1> SUFFICES ASSUME Init PROVE IInv
    OBVIOUS
  <1> USE DEF Init
  <1>1. TypeOK
    BY ReadinessAssumption DEF TypeOK, Command, Stages
  <1>2. BudgetOK /\ CheckerOK /\ ContainerOK
    BY DEF BudgetOK, CheckerOK, ContainerOK
  <1>3. StageOK /\ VouchOK /\ ListingOK
    BY DEF StageOK, VouchOK, ListingOK
  <1>4. SuccessMeansWasReady /\ RoutesReady
    BY DEF SuccessMeansWasReady, RoutesReady
  <1> QED BY <1>1, <1>2, <1>3, <1>4 DEF IInv

\* The steps of a command, of its goroutines, of the user and of the outside.
LEMMA Steps ==
  ASSUME [Next]_vars
  PROVE  \/ \E c \in Command : Start(c)
         \/ PingKongStatus \/ DeployContainers \/ Collect \/ BeginListing
         \/ ReadPage \/ PageFails \/ JudgeRoutes \/ FinishStage \/ Kill
         \/ \E m \in Module : Ping(m) \/ Report(m) \/ BecomeReady(m) \/ BecomeUnready(m)
         \/ \E s \in Stages("deployApplication") : Undeploy(s)
         \/ \E r \in Route : Register(r)
         \/ UNCHANGED vars
  BY DEF Next, Main, Check

\* Every step keeps the variables in their domains.
LEMMA TypeStep == IInv /\ [Next]_vars => TypeOK'
  <1> SUFFICES ASSUME IInv, [Next]_vars PROVE TypeOK'
    OBVIOUS
  <1> USE ReadinessAssumption
      DEF IInv, TypeOK, Command, Stages, Return, Forgotten, ListForgotten, server,
             checkers, listing
  <1>0. \A s \in Stages("deployApplication") : ModulesOf(s) \subseteq Module
    BY DEF ModulesOf, Module
  <1>1. ASSUME NEW c \in Command, Start(c) PROVE TypeOK'
    BY <1>1 DEF Start, CheckerOK
  <1>2. CASE PingKongStatus
    BY <1>2 DEF PingKongStatus, Retryable
  <1>3. CASE DeployContainers
    BY <1>3, <1>0 DEF DeployContainers
  <1>4. CASE Collect
    BY <1>4 DEF Collect
  <1>5. CASE BeginListing
    BY <1>5 DEF BeginListing
  <1>6. CASE ReadPage
    <2>1. Page \subseteq Route
      BY DEF Page, Rest
    <2>2. seen' \subseteq Route /\ offset' \in Route \cup {0} /\ attempt' = 0 /\ pc' \in {"page", "judge"}
      BY <1>6, <2>1 DEF ReadPage
    <2> QED BY <1>6, <2>2 DEF ReadPage
  <1>7. CASE PageFails
    <2>1. attempt' \in 0 .. RetryMax
      BY <1>7 DEF PageFails, Retryable
    <2>2. seen' \subseteq Route /\ before' \subseteq Route /\ pc' \in {"page", "judge"}
      BY <1>7 DEF PageFails
    <2> QED BY <1>7, <2>1, <2>2 DEF PageFails
  <1>8. CASE JudgeRoutes
    BY <1>8 DEF JudgeRoutes, BudgetOK
  <1>9. CASE FinishStage
    BY <1>9 DEF FinishStage, CheckerOK
  <1>10. CASE Kill
    BY <1>10 DEF Kill
  <1>11. ASSUME NEW m \in Module, Ping(m) PROVE TypeOK'
    BY <1>11 DEF Ping, BudgetOK
  <1>12. ASSUME NEW m \in Module, Report(m) PROVE TypeOK'
    BY <1>12 DEF Report, CheckerOK
  <1>13. ASSUME NEW m \in Module, BecomeReady(m) \/ BecomeUnready(m) PROVE TypeOK'
    BY <1>13 DEF BecomeReady, BecomeUnready
  <1>14. ASSUME NEW s \in Stages("deployApplication"), Undeploy(s) PROVE TypeOK'
    BY <1>14 DEF Undeploy
  <1>15. ASSUME NEW r \in Route, Register(r) PROVE TypeOK'
    BY <1>15 DEF Register
  <1>16. CASE UNCHANGED vars
    BY <1>16 DEF vars
  <1> QED
    BY Steps, <1>1, <1>2, <1>3, <1>4, <1>5, <1>6, <1>7, <1>8, <1>9, <1>10, <1>11, <1>12, <1>13,
       <1>14, <1>15, <1>16

\* No check and no poll outlives its budget.
LEMMA BudgetStep == IInv /\ [Next]_vars => BudgetOK'
  <1> SUFFICES ASSUME IInv, [Next]_vars PROVE BudgetOK'
    OBVIOUS
  <1> USE ReadinessAssumption DEF IInv, TypeOK, BudgetOK, Forgotten, ListForgotten, Return,
         server, checkers, listing
  <1>1. ASSUME NEW c \in Command, Start(c) PROVE BudgetOK'
    BY <1>1 DEF Start
  <1>2. CASE PingKongStatus
    BY <1>2 DEF PingKongStatus
  <1>3. CASE DeployContainers
    BY <1>3 DEF DeployContainers
  <1>4. CASE Collect
    BY <1>4 DEF Collect
  <1>5. CASE BeginListing
    BY <1>5 DEF BeginListing
  <1>6. CASE ReadPage
    BY <1>6 DEF ReadPage
  <1>7. CASE PageFails
    BY <1>7 DEF PageFails
  <1>8. CASE JudgeRoutes
    BY <1>8 DEF JudgeRoutes
  <1>9. CASE FinishStage
    BY <1>9 DEF FinishStage
  <1>10. CASE Kill
    BY <1>10 DEF Kill
  <1>11. ASSUME NEW m \in Module, Ping(m) PROVE BudgetOK'
    BY <1>11 DEF Ping
  <1>12. ASSUME NEW m \in Module, Report(m) PROVE BudgetOK'
    BY <1>12 DEF Report
  <1>13. ASSUME NEW m \in Module, BecomeReady(m) \/ BecomeUnready(m) PROVE BudgetOK'
    BY <1>13 DEF BecomeReady, BecomeUnready
  <1>14. ASSUME NEW s \in Stages("deployApplication"), Undeploy(s) PROVE BudgetOK'
    BY <1>14 DEF Undeploy
  <1>15. ASSUME NEW r \in Route, Register(r) PROVE BudgetOK'
    BY <1>15 DEF Register
  <1>16. CASE UNCHANGED vars
    BY <1>16 DEF vars
  <1> QED
    BY Steps, <1>1, <1>2, <1>3, <1>4, <1>5, <1>6, <1>7, <1>8,
       <1>9, <1>10, <1>11, <1>12, <1>13, <1>14, <1>15, <1>16

\* An error that is sent is on the channel when the command looks.
LEMMA CheckerStep == IInv /\ [Next]_vars => CheckerOK'
  <1> SUFFICES ASSUME IInv, [Next]_vars PROVE CheckerOK'
    OBVIOUS
  <1> USE DEF IInv, TypeOK, CheckerOK, Forgotten, ListForgotten, Return, server, checkers,
         listing
  <1>1. ASSUME NEW c \in Command, Start(c) PROVE CheckerOK'
    BY <1>1 DEF Start
  <1>2. CASE PingKongStatus
    BY <1>2 DEF PingKongStatus
  <1>3. CASE DeployContainers
    <2>1. \A m \in Module : checker[m] = "off"
      BY <1>3 DEF DeployContainers
    <2>2. errCh = {}
      BY <2>1
    <2>3. PICK created \in SUBSET {m \in ModulesOf(stage) : container[m] = "absent"} :
             \/ pc' = "idle" /\ UNCHANGED checkers
             \/ /\ newly' = created
                /\ checker' = [m \in Module |-> IF m \in created THEN "ping" ELSE "off"]
                /\ errCh' = {}
                /\ pc' = IF created = {} THEN "finish" ELSE "check"
      BY <1>3 DEF DeployContainers
    <2>4. created \subseteq Module
      BY DEF ModulesOf, Module
    <2>5. CASE pc' = "idle" /\ UNCHANGED checkers
      BY <2>1, <2>2, <2>5
    <2>6. CASE pc' # "idle"
      BY <2>3, <2>4, <2>6
    <2> QED BY <2>3, <2>5, <2>6
  <1>4. CASE Collect
    BY <1>4 DEF Collect
  <1>5. CASE BeginListing
    BY <1>5 DEF BeginListing
  <1>6. CASE ReadPage
    BY <1>6 DEF ReadPage
  <1>7. CASE PageFails
    BY <1>7 DEF PageFails
  <1>8. CASE JudgeRoutes
    BY <1>8 DEF JudgeRoutes
  <1>9. CASE FinishStage
    BY <1>9 DEF FinishStage
  <1>10. CASE Kill
    BY <1>10 DEF Kill
  <1>11. ASSUME NEW m \in Module, Ping(m) PROVE CheckerOK'
    BY <1>11 DEF Ping, ContainerOK
  <1>12. ASSUME NEW m \in Module, Report(m) PROVE CheckerOK'
    <2>1. Cardinality(errCh) < Cardinality(newly)
      BY <1>12, RoomOnChannel DEF Report
    <2>2. errCh' = errCh \cup {m}
      BY <1>12, <2>1 DEF Report
    <2> QED BY <1>12, <2>2 DEF Report
  <1>13. ASSUME NEW m \in Module, BecomeReady(m) \/ BecomeUnready(m) PROVE CheckerOK'
    BY <1>13 DEF BecomeReady, BecomeUnready
  <1>14. ASSUME NEW s \in Stages("deployApplication"), Undeploy(s) PROVE CheckerOK'
    BY <1>14 DEF Undeploy
  <1>15. ASSUME NEW r \in Route, Register(r) PROVE CheckerOK'
    BY <1>15 DEF Register
  <1>16. CASE UNCHANGED vars
    BY <1>16 DEF vars
  <1> QED
    BY Steps, <1>1, <1>2, <1>3, <1>4, <1>5, <1>6, <1>7, <1>8,
       <1>9, <1>10, <1>11, <1>12, <1>13, <1>14, <1>15, <1>16

\* Every container that exists was ready once or is still unverified.
LEMMA ContainerStep == IInv /\ [Next]_vars => ContainerOK'
  <1> SUFFICES ASSUME IInv, [Next]_vars PROVE ContainerOK'
    OBVIOUS
  <1> USE DEF IInv, TypeOK, ContainerOK, Return, server, checkers, listing
  <1>1. ASSUME NEW c \in Command, Start(c) PROVE ContainerOK'
    BY <1>1 DEF Start
  <1>2. CASE PingKongStatus
    BY <1>2 DEF PingKongStatus
  <1>3. CASE DeployContainers
    BY <1>3 DEF DeployContainers
  <1>4. CASE Collect
    BY <1>4 DEF Collect, CheckerOK
  <1>5. CASE BeginListing
    BY <1>5 DEF BeginListing
  <1>6. CASE ReadPage
    BY <1>6 DEF ReadPage
  <1>7. CASE PageFails
    BY <1>7 DEF PageFails
  <1>8. CASE JudgeRoutes
    BY <1>8 DEF JudgeRoutes
  <1>9. CASE FinishStage
    BY <1>9 DEF FinishStage
  <1>10. CASE Kill
    BY <1>10 DEF Kill
  <1>11. ASSUME NEW m \in Module, Ping(m) PROVE ContainerOK'
    BY <1>11 DEF Ping
  <1>12. ASSUME NEW m \in Module, Report(m) PROVE ContainerOK'
    BY <1>12 DEF Report
  <1>13. ASSUME NEW m \in Module, BecomeReady(m) \/ BecomeUnready(m) PROVE ContainerOK'
    BY <1>13 DEF BecomeReady, BecomeUnready
  <1>14. ASSUME NEW s \in Stages("deployApplication"), Undeploy(s) PROVE ContainerOK'
    BY <1>14 DEF Undeploy
  <1>15. ASSUME NEW r \in Route, Register(r) PROVE ContainerOK'
    BY <1>15 DEF Register
  <1>16. CASE UNCHANGED vars
    BY <1>16 DEF vars
  <1> QED
    BY Steps, <1>1, <1>2, <1>3, <1>4, <1>5, <1>6, <1>7, <1>8,
       <1>9, <1>10, <1>11, <1>12, <1>13, <1>14, <1>15, <1>16

\* What a stage leaves behind it is deployed.
LEMMA StageStep == IInv /\ [Next]_vars => StageOK'
  <1> SUFFICES ASSUME IInv, [Next]_vars PROVE StageOK'
    OBVIOUS
  <1> USE DEF IInv, TypeOK, StageOK, Stages, Command, ModulesOf, ListForgotten, Return,
         server, checkers, listing
  <1>1. ASSUME NEW c \in Command, Start(c) PROVE StageOK'
    BY <1>1 DEF Start
  <1>2. CASE PingKongStatus
    BY <1>2 DEF PingKongStatus
  <1>3. CASE DeployContainers
    <2>1. \A m \in Module : container[m] # "absent" => container'[m] # "absent"
      BY <1>3 DEF DeployContainers
    <2>2. pc' # "idle" => \A m \in ModulesOf(stage) : container'[m] # "absent"
      BY <1>3 DEF DeployContainers, Module
    <2>3. stage' = stage /\ cmd' = cmd /\ pc = "deploy" /\ pc' \in {"idle", "check", "finish"}
      BY <1>3 DEF DeployContainers
    <2>4. pc' # "idle" => result' = result
      BY <1>3 DEF DeployContainers
    <2> QED BY <2>1, <2>2, <2>3, <2>4 DEF Module
  <1>4. CASE Collect
    BY <1>4 DEF Collect
  <1>5. CASE BeginListing
    BY <1>5 DEF BeginListing
  <1>6. CASE ReadPage
    BY <1>6 DEF ReadPage
  <1>7. CASE PageFails
    BY <1>7 DEF PageFails
  <1>8. CASE JudgeRoutes
    BY <1>8 DEF JudgeRoutes
  <1>9. CASE FinishStage
    BY <1>9 DEF FinishStage
  <1>10. CASE Kill
    BY <1>10 DEF Kill
  <1>11. ASSUME NEW m \in Module, Ping(m) PROVE StageOK'
    BY <1>11 DEF Ping
  <1>12. ASSUME NEW m \in Module, Report(m) PROVE StageOK'
    BY <1>12 DEF Report
  <1>13. ASSUME NEW m \in Module, BecomeReady(m) \/ BecomeUnready(m) PROVE StageOK'
    <2>1. \A x \in Module : container[x] # "absent" => container'[x] # "absent"
      BY <1>13 DEF BecomeReady, BecomeUnready
    <2>2. UNCHANGED <<cmd, stage, pc, result>>
      BY <1>13 DEF BecomeReady, BecomeUnready
    <2> QED BY <2>1, <2>2 DEF Module
  <1>14. ASSUME NEW s \in Stages("deployApplication"), Undeploy(s) PROVE StageOK'
    BY <1>14 DEF Undeploy
  <1>15. ASSUME NEW r \in Route, Register(r) PROVE StageOK'
    BY <1>15 DEF Register
  <1>16. CASE UNCHANGED vars
    BY <1>16 DEF vars
  <1> QED
    BY Steps, <1>1, <1>2, <1>3, <1>4, <1>5, <1>6, <1>7, <1>8,
       <1>9, <1>10, <1>11, <1>12, <1>13, <1>14, <1>15, <1>16

\* Only the checks of a command take its new containers off the list.
LEMMA VouchStep == IInv /\ [Next]_vars => VouchOK'
  <1> SUFFICES ASSUME IInv, [Next]_vars PROVE VouchOK'
    OBVIOUS
  <1> USE DEF IInv, TypeOK, VouchOK, Return, server, checkers, listing
  <1>1. ASSUME NEW c \in Command, Start(c) PROVE VouchOK'
    BY <1>1 DEF Start
  <1>2. CASE PingKongStatus
    BY <1>2 DEF PingKongStatus
  <1>3. CASE DeployContainers
    BY <1>3 DEF DeployContainers
  <1>4. CASE Collect
    BY <1>4 DEF Collect
  <1>5. CASE BeginListing
    BY <1>5 DEF BeginListing
  <1>6. CASE ReadPage
    BY <1>6 DEF ReadPage
  <1>7. CASE PageFails
    BY <1>7 DEF PageFails
  <1>8. CASE JudgeRoutes
    BY <1>8 DEF JudgeRoutes
  <1>9. CASE FinishStage
    BY <1>9 DEF FinishStage
  <1>10. CASE Kill
    BY <1>10 DEF Kill
  <1>11. ASSUME NEW m \in Module, Ping(m) PROVE VouchOK'
    BY <1>11 DEF Ping
  <1>12. ASSUME NEW m \in Module, Report(m) PROVE VouchOK'
    BY <1>12 DEF Report
  <1>13. ASSUME NEW m \in Module, BecomeReady(m) \/ BecomeUnready(m) PROVE VouchOK'
    BY <1>13 DEF BecomeReady, BecomeUnready
  <1>14. ASSUME NEW s \in Stages("deployApplication"), Undeploy(s) PROVE VouchOK'
    BY <1>14 DEF Undeploy
  <1>15. ASSUME NEW r \in Route, Register(r) PROVE VouchOK'
    BY <1>15 DEF Register
  <1>16. CASE UNCHANGED vars
    BY <1>16 DEF vars
  <1> QED
    BY Steps, <1>1, <1>2, <1>3, <1>4, <1>5, <1>6, <1>7, <1>8,
       <1>9, <1>10, <1>11, <1>12, <1>13, <1>14, <1>15, <1>16

\* No page skips a route.
LEMMA ListingStep == IInv /\ [Next]_vars => ListingOK'
  <1> SUFFICES ASSUME IInv, [Next]_vars PROVE ListingOK'
    OBVIOUS
  <1> USE ReadinessAssumption DEF IInv, TypeOK, ListingOK, ListForgotten, Return, server,
         checkers, listing
  <1>1. ASSUME NEW c \in Command, Start(c) PROVE ListingOK'
    BY <1>1 DEF Start
  <1>2. CASE PingKongStatus
    BY <1>2 DEF PingKongStatus
  <1>3. CASE DeployContainers
    BY <1>3 DEF DeployContainers
  <1>4. CASE Collect
    BY <1>4 DEF Collect
  <1>5. CASE BeginListing
    <2>1. \A r \in kong : ~(r <= 0)
      BY DEF TypeOK
    <2> QED BY <1>5, <2>1 DEF BeginListing
  <1>6. CASE ReadPage
    <2>1. Page \subseteq kong
      BY DEF Page, Rest
    <2>2. CASE Page = Rest
      <3>1. \A r \in before : r \in seen'
        BY <1>6, <2>2 DEF ReadPage, Rest
      <3> QED BY <1>6, <2>1, <2>2, <3>1 DEF ReadPage
    <2>3. CASE Page # Rest
      <3>1. offset' \in Page /\ seen' = seen \cup Page /\ pc' = "page" /\ before' = before /\ kong' = kong
        BY <1>6, <2>3 DEF ReadPage
      <3>2. ASSUME NEW r \in before, r <= offset' PROVE r \in seen'
        <4>1. CASE r <= offset
          BY <1>6, <3>1, <4>1 DEF ReadPage
        <4>2. CASE r > offset
          <5>1. r \in Rest
            BY <4>2 DEF Rest
          <5> QED BY <3>1, <3>2, <5>1, PageIsPrefix
        <4>3. r \in Nat /\ offset \in Nat
          OBVIOUS
        <4> QED BY <4>1, <4>2, <4>3
      <3> QED BY <2>1, <3>1, <3>2
    <2> QED BY <2>2, <2>3
  <1>7. CASE PageFails
    BY <1>7 DEF PageFails
  <1>8. CASE JudgeRoutes
    BY <1>8 DEF JudgeRoutes
  <1>9. CASE FinishStage
    BY <1>9 DEF FinishStage
  <1>10. CASE Kill
    BY <1>10 DEF Kill
  <1>11. ASSUME NEW m \in Module, Ping(m) PROVE ListingOK'
    BY <1>11 DEF Ping
  <1>12. ASSUME NEW m \in Module, Report(m) PROVE ListingOK'
    BY <1>12 DEF Report
  <1>13. ASSUME NEW m \in Module, BecomeReady(m) \/ BecomeUnready(m) PROVE ListingOK'
    BY <1>13 DEF BecomeReady, BecomeUnready
  <1>14. ASSUME NEW s \in Stages("deployApplication"), Undeploy(s) PROVE ListingOK'
    BY <1>14 DEF Undeploy
  <1>15. ASSUME NEW r \in Route, Register(r) PROVE ListingOK'
    BY <1>15 DEF Register
  <1>16. CASE UNCHANGED vars
    BY <1>16 DEF vars
  <1> QED
    BY Steps, <1>1, <1>2, <1>3, <1>4, <1>5, <1>6, <1>7, <1>8,
       <1>9, <1>10, <1>11, <1>12, <1>13, <1>14, <1>15, <1>16

\* Success vouches for what was not inherited.
LEMMA SuccessStep == IInv /\ [Next]_vars => SuccessMeansWasReady'
  <1> SUFFICES ASSUME IInv, [Next]_vars PROVE SuccessMeansWasReady'
    OBVIOUS
  <1> USE DEF IInv, TypeOK, SuccessMeansWasReady, Return, server, checkers, listing
  <1>1. ASSUME NEW c \in Command, Start(c) PROVE SuccessMeansWasReady'
    BY <1>1 DEF Start
  <1>2. CASE PingKongStatus
    BY <1>2 DEF PingKongStatus
  <1>3. CASE DeployContainers
    BY <1>3 DEF DeployContainers
  <1>4. CASE Collect
    BY <1>4 DEF Collect
  <1>5. CASE BeginListing
    BY <1>5 DEF BeginListing
  <1>6. CASE ReadPage
    BY <1>6 DEF ReadPage
  <1>7. CASE PageFails
    BY <1>7 DEF PageFails
  <1>8. CASE JudgeRoutes
    BY <1>8 DEF JudgeRoutes
  <1>9. CASE FinishStage
    <2>1. CASE result' # "done"
      BY <2>1
    <2>2. CASE result' = "done"
      <3>1. pc = "finish" /\ stage \in Stages(cmd) /\ result = "none"
        BY <1>9 DEF FinishStage, StageOK
      <3>2. ~(cmd = "deployApplication" /\ stage = "deployManagement")
        BY <1>9, <2>2, <3>1 DEF FinishStage
      <3>3. \A m \in ModulesOf(stage) : container[m] # "absent"
        BY <3>1 DEF StageOK
      <3>4. cmd = "deployApplication" => \A m \in Management : container[m] # "absent"
        BY <3>1, <3>2 DEF StageOK, Stages
      <3>5. \A m \in Deployed(cmd) : m \in Module /\ container[m] # "absent"
        BY <3>1, <3>2, <3>3, <3>4 DEF Deployed, Stages, ModulesOf, Module, Command
      <3>6. Deployed(cmd) \subseteq wasReady \cup unverified
        BY <3>5 DEF ContainerOK
      <3>7. unverified \subseteq inherited
        BY <3>1 DEF VouchOK
      <3> QED BY <1>9, <3>6, <3>7 DEF FinishStage
    <2> QED BY <2>1, <2>2
  <1>10. CASE Kill
    BY <1>10 DEF Kill
  <1>11. ASSUME NEW m \in Module, Ping(m) PROVE SuccessMeansWasReady'
    BY <1>11 DEF Ping
  <1>12. ASSUME NEW m \in Module, Report(m) PROVE SuccessMeansWasReady'
    BY <1>12 DEF Report
  <1>13. ASSUME NEW m \in Module, BecomeReady(m) \/ BecomeUnready(m) PROVE SuccessMeansWasReady'
    BY <1>13 DEF BecomeReady, BecomeUnready
  <1>14. ASSUME NEW s \in Stages("deployApplication"), Undeploy(s) PROVE SuccessMeansWasReady'
    BY <1>14 DEF Undeploy
  <1>15. ASSUME NEW r \in Route, Register(r) PROVE SuccessMeansWasReady'
    BY <1>15 DEF Register
  <1>16. CASE UNCHANGED vars
    BY <1>16 DEF vars
  <1> QED
    BY Steps, <1>1, <1>2, <1>3, <1>4, <1>5, <1>6, <1>7, <1>8,
       <1>9, <1>10, <1>11, <1>12, <1>13, <1>14, <1>15, <1>16

\* Past the route check, the routes are there.
LEMMA RoutesStep == IInv /\ [Next]_vars => RoutesReady'
  <1> SUFFICES ASSUME IInv, [Next]_vars PROVE RoutesReady'
    OBVIOUS
  <1> USE DEF IInv, TypeOK, RoutesReady, Return, server, checkers, listing
  <1>1. ASSUME NEW c \in Command, Start(c) PROVE RoutesReady'
    BY <1>1 DEF Start, Twins
  <1>2. CASE PingKongStatus
    BY <1>2 DEF PingKongStatus, Twins
  <1>3. CASE DeployContainers
    BY <1>3 DEF DeployContainers, Twins
  <1>4. CASE Collect
    BY <1>4 DEF Collect, Twins
  <1>5. CASE BeginListing
    BY <1>5 DEF BeginListing, Twins
  <1>6. CASE ReadPage
    BY <1>6 DEF ReadPage, Twins
  <1>7. CASE PageFails
    BY <1>7 DEF PageFails, Twins
  <1>8. CASE JudgeRoutes
    <2>1. CASE pc' # "finish"
      BY <2>1
    <2>2. CASE pc' = "finish"
      <3>1. Cardinality(Matched) = Cardinality(Expected) /\ kong' = kong
        BY <1>8, <2>2 DEF JudgeRoutes
      <3>2. Twins \/ Expected \subseteq {Expression[r] : r \in kong}
        BY <3>1, CountIsEnough DEF ListingOK
      <3>3. Twins => Twins'
        BY <3>1 DEF Twins
      <3> QED BY <3>1, <3>2, <3>3
    <2> QED BY <2>1, <2>2
  <1>9. CASE FinishStage
    BY <1>9 DEF FinishStage, Twins
  <1>10. CASE Kill
    BY <1>10 DEF Kill, Twins
  <1>11. ASSUME NEW m \in Module, Ping(m) PROVE RoutesReady'
    BY <1>11 DEF Ping, Twins
  <1>12. ASSUME NEW m \in Module, Report(m) PROVE RoutesReady'
    BY <1>12 DEF Report, Twins
  <1>13. ASSUME NEW m \in Module, BecomeReady(m) \/ BecomeUnready(m) PROVE RoutesReady'
    BY <1>13 DEF BecomeReady, BecomeUnready, Twins
  <1>14. ASSUME NEW s \in Stages("deployApplication"), Undeploy(s) PROVE RoutesReady'
    BY <1>14 DEF Undeploy, Twins
  <1>15. ASSUME NEW r \in Route, Register(r) PROVE RoutesReady'
    <2>1. kong \subseteq kong' /\ pc' = pc /\ stage' = stage /\ newly' = newly
      BY <1>15 DEF Register
    <2>2. Twins => Twins'
      BY <2>1 DEF Twins
    <2> QED BY <2>1, <2>2
  <1>16. CASE UNCHANGED vars
    BY <1>16 DEF vars, Twins
  <1> QED
    BY Steps, <1>1, <1>2, <1>3, <1>4, <1>5, <1>6, <1>7, <1>8,
       <1>9, <1>10, <1>11, <1>12, <1>13, <1>14, <1>15, <1>16

\* Every step keeps the invariant.
LEMMA InvStep == IInv /\ [Next]_vars => IInv'
  BY TypeStep, BudgetStep, CheckerStep, ContainerStep, StageStep, VouchStep, ListingStep,
     SuccessStep, RoutesStep DEF IInv

\* The invariant holds in every state.
LEMMA Invariance == Spec => []IInv
  BY InitHolds, InvStep, PTL DEF Spec

-----------------------------------------------------------------------------
\* Type correctness; in particular no goroutine pings, and no command polls,
\* more often than its constant allows.
THEOREM TypeCorrect == Spec => []TypeOK
  BY Invariance, PTL DEF IInv

\* A deployment that reports success vouches for every module it did not
\* inherit unchecked, for any number of modules that fail at once.
THEOREM SuccessMeansWasReadyHolds == Spec => []SuccessMeansWasReady
  BY Invariance, PTL DEF IInv

\* The paged list of routes misses none that was there before its first page,
\* for every page size and whatever is registered meanwhile.
THEOREM ListingCompleteHolds == Spec => []ListingComplete
  <1>1. IInv => ListingComplete
    BY DEF IInv, ListingOK, ListingComplete
  <1> QED BY <1>1, Invariance, PTL

\* deployManagement goes on only when each expression has its route, unless two
\* routes share one.
THEOREM RoutesReadyHolds == Spec => []RoutesReady
  BY Invariance, PTL DEF IInv

-----------------------------------------------------------------------------
(***************************************************************************)
(* CapabilityAttachment                                                    *)
(***************************************************************************)
\* Failing rounds are left while the group is polled.
PollOK ==
    /\ step = "record" => rebalances = 0
    /\ step = "poll" => rebalances < RebalanceMax

\* No role is visited and nothing is drained before the poll.
BeforeOK ==
    /\ step \in {"record", "poll"} => roles = Role /\ drained = {}
    /\ step = "idle" => drained = {} /\ delta = {}

\* Roles that have been visited have what was drained.
VisitedOK ==
    /\ step = "attach" => \A r \in Role \ roles : drained \subseteq attached[r]
    /\ step = "batch" => \A r \in Role \ (roles \union {role}) : drained \subseteq attached[r]

\* The role at hand has it, or is about to get it.
CurrentOK == step = "batch" => drained \subseteq attached[role] \union delta

AttachInv ==
    /\ AttachTypeOK
    /\ PollOK
    /\ BeforeOK
    /\ VisitedOK
    /\ CurrentOK
    /\ DrainedMeansAttached

-----------------------------------------------------------------------------
\* The total that is persisted and the lag that is reported fit their ranges.
LEMMA Counts ==
  ASSUME NEW S \in SUBSET CapSet
  PROVE  Cardinality(S) \in 0 .. Cardinality(CapSet)
  <1>1. IsFiniteSet(CapSet) /\ IsFiniteSet(S) /\ Cardinality(S) <= Cardinality(CapSet)
    BY CapabilityAssumption, FS_Subset
  <1>2. Cardinality(S) \in Nat /\ Cardinality(CapSet) \in Nat
    BY <1>1, FS_CardinalityType
  <1> QED BY <1>1, <1>2

\* A group without lag has created every published set.
LEMMA NoLagMeansConsumed ==
  ASSUME AttachTypeOK, Lag = 0
  PROVE  published \subseteq existing
  <1>1. IsFiniteSet(published \ existing)
    BY CapabilityAssumption, FS_Subset DEF AttachTypeOK
  <1>2. published \ existing = {}
    BY <1>1, FS_EmptySet DEF Lag
  <1> QED BY <1>2

\* The invariant holds initially.
LEMMA AttachInitHolds == AttachInit => AttachInv
  <1> SUFFICES ASSUME AttachInit PROVE AttachInv
    OBVIOUS
  <1>1. 0 \in 0 .. Cardinality(CapSet)
    BY Counts, FS_EmptySet
  <1>2. AttachTypeOK
    BY <1>1, CapabilityAssumption DEF AttachInit, AttachTypeOK
  <1> QED BY <1>2 DEF AttachInit, AttachInv, PollOK, BeforeOK, VisitedOK, CurrentOK,
         DrainedMeansAttached

-----------------------------------------------------------------------------
\* What the consumer group and the entitlements do keeps the invariant: sets
\* only go between two commands, when nothing is drained.
LEMMA EnvironmentStep ==
  ASSUME AttachInv, Environment
  PROVE  AttachInv'
  <1> USE DEF AttachInv
  <1>1. ASSUME NEW s \in CapSet, Publish(s) PROVE AttachInv'
    <2>1. AttachTypeOK'
      BY <1>1 DEF AttachTypeOK, Publish, history
    <2> QED BY <1>1, <2>1 DEF Publish, history, PollOK, BeforeOK, VisitedOK, CurrentOK,
           DrainedMeansAttached
  <1>2. ASSUME NEW s \in CapSet, Retract(s) PROVE AttachInv'
    <2>1. attached' \in [Role -> SUBSET existing']
      BY <1>2 DEF AttachTypeOK, Retract
    <2>2. AttachTypeOK'
      BY <1>2, <2>1 DEF AttachTypeOK, Retract, history, BeforeOK
    <2> QED BY <1>2, <2>2 DEF Retract, history, PollOK, BeforeOK, VisitedOK, CurrentOK,
           DrainedMeansAttached
  <1>3. ASSUME NEW s \in CapSet, Consume(s) PROVE AttachInv'
    <2>1. AttachTypeOK'
      BY <1>3 DEF AttachTypeOK, Consume, history
    <2> QED BY <1>3, <2>1 DEF Consume, history, PollOK, BeforeOK, VisitedOK, CurrentOK,
           DrainedMeansAttached
  <1>4. ASSUME Rebalance PROVE AttachInv'
    <2>1. AttachTypeOK'
      BY <1>4 DEF AttachTypeOK, Rebalance, history
    <2> QED BY <1>4, <2>1 DEF Rebalance, history, PollOK, BeforeOK, VisitedOK, CurrentOK,
           DrainedMeansAttached
  <1> QED BY <1>1, <1>2, <1>3, <1>4 DEF Environment

\* The polling keeps it: what is drained when the group reports no lag exists.
LEMMA PollStep ==
  ASSUME AttachInv, Poll
  PROVE  AttachInv'
  <1> USE CapabilityAssumption DEF AttachInv
  <1>1. CASE ReportsLag
    <2>1. Lag \in 0 .. Cardinality(CapSet)
      BY Counts DEF AttachTypeOK, Lag
    <2>2. AttachTypeOK'
      BY <1>1, <2>1 DEF AttachTypeOK, ReportsLag, keycloak
    <2> QED BY <1>1, <2>2 DEF ReportsLag, keycloak, PollOK, BeforeOK, VisitedOK, CurrentOK,
           DrainedMeansAttached
  <1>2. CASE ReportsNoLag
    <2>1. published \subseteq existing
      BY <1>2, NoLagMeansConsumed DEF ReportsNoLag
    <2>2. 0 \in 0 .. Cardinality(CapSet)
      BY Counts, FS_EmptySet
    <2>3. AttachTypeOK'
      BY <1>2, <2>1, <2>2 DEF AttachTypeOK, ReportsNoLag, keycloak
    <2> QED BY <1>2, <2>3 DEF ReportsNoLag, keycloak, PollOK, BeforeOK, VisitedOK,
           CurrentOK, DrainedMeansAttached
  <1>3. CASE ReportsNothing
    <2>1. AttachTypeOK'
      BY <1>3 DEF AttachTypeOK, ReportsNothing, keycloak, history
    <2> QED BY <1>3, <2>1 DEF ReportsNothing, keycloak, history, PollOK, BeforeOK,
           VisitedOK, CurrentOK, DrainedMeansAttached
  <1>4. CASE PollFails
    <2>1. AttachTypeOK'
      BY <1>4 DEF AttachTypeOK, PollOK, PollFails, AttachReturn, keycloak, history
    <2> QED BY <1>4, <2>1 DEF PollFails, AttachReturn, keycloak, history, PollOK, BeforeOK,
           VisitedOK, CurrentOK, DrainedMeansAttached
  <1>5. CASE PollTimeout
    <2>1. AttachTypeOK'
      BY <1>5 DEF AttachTypeOK, PollTimeout, AttachReturn, keycloak, history
    <2> QED BY <1>5, <2>1 DEF PollTimeout, AttachReturn, keycloak, history, PollOK,
           BeforeOK, VisitedOK, CurrentOK, DrainedMeansAttached
  <1> QED BY <1>1, <1>2, <1>3, <1>4, <1>5 DEF Poll

\* A batch that arrived moves its sets from what the role lacks to what it has.
LEMMA AttachBatchStep ==
  ASSUME AttachInv, AttachBatch
  PROVE  AttachInv'
  <1> USE DEF AttachInv
  <1>1. PICK b \in Batches :
          \/ /\ attached' = [attached EXCEPT ![role] = @ \union b]
             /\ \/ delta' = delta \ b /\ UNCHANGED <<step, outcome>>
                \/ AttachReturn("error") /\ UNCHANGED delta
          \/ AttachReturn("error") /\ UNCHANGED <<attached, delta>>
    BY DEF AttachBatch
  <1>2. /\ step = "batch" /\ role \in Role /\ b \subseteq delta
        /\ UNCHANGED <<published, existing, group, record, polls, rebalances, roles, role, history>>
    BY <1>1 DEF AttachBatch, Batches, AttachTypeOK
  <1>3. CASE attached' = [attached EXCEPT ![role] = @ \union b]
    <2>1. /\ attached' \in [Role -> SUBSET existing']
          /\ attached'[role] = attached[role] \union b
          /\ \A r \in Role : attached[r] \subseteq attached'[r]
      BY <1>2, <1>3 DEF AttachTypeOK
    <2>2. CASE delta' = delta \ b /\ UNCHANGED <<step, outcome>>
      <3>1. AttachTypeOK'
        BY <1>2, <2>1, <2>2 DEF AttachTypeOK, history
      <3>2. VisitedOK' /\ CurrentOK'
        BY <1>2, <2>1, <2>2 DEF VisitedOK, CurrentOK, history
      <3> QED BY <1>2, <2>2, <3>1, <3>2 DEF history, PollOK, BeforeOK, DrainedMeansAttached
    <2>3. CASE AttachReturn("error") /\ UNCHANGED delta
      <3>1. AttachTypeOK'
        BY <1>2, <2>1, <2>3 DEF AttachTypeOK, AttachReturn, history
      <3> QED BY <1>2, <2>3, <3>1 DEF AttachReturn, history, PollOK, BeforeOK, VisitedOK,
             CurrentOK, DrainedMeansAttached
    <2> QED BY <1>1, <1>3, <2>2, <2>3
  <1>4. CASE AttachReturn("error") /\ UNCHANGED <<attached, delta>>
    <2>1. AttachTypeOK'
      BY <1>2, <1>4 DEF AttachTypeOK, AttachReturn, history
    <2> QED BY <1>2, <1>4, <2>1 DEF AttachReturn, history, PollOK, BeforeOK, VisitedOK,
           CurrentOK, DrainedMeansAttached
  <1> QED BY <1>1, <1>3, <1>4

\* Steps of the command keep the invariant.
LEMMA CommandStep ==
  ASSUME AttachInv, AttachCapabilitySets
  PROVE  AttachInv'
  <1> USE DEF AttachInv
  <1>1. CASE ReadRecord
    <2>1. AttachTypeOK'
      BY <1>1 DEF AttachTypeOK, ReadRecord, keycloak, history
    <2> QED BY <1>1, <2>1, CapabilityAssumption
       DEF ReadRecord, keycloak, history, PollOK, BeforeOK, VisitedOK, CurrentOK,
           DrainedMeansAttached
  <1>2. CASE Poll
    BY <1>2, PollStep
  <1>3. ASSUME NEW r \in Role, PickRole(r) PROVE AttachInv'
    <2>1. AttachTypeOK'
      BY <1>3 DEF AttachTypeOK, PickRole, AttachReturn, keycloak, history
    <2>2. VisitedOK'
      BY <1>3 DEF VisitedOK, PickRole, AttachReturn, keycloak, history
    <2>3. CurrentOK'
      BY <1>3 DEF AttachTypeOK, CurrentOK, PickRole, AttachReturn, keycloak, history
    <2> QED BY <1>3, <2>1, <2>2, <2>3 DEF PickRole, AttachReturn, keycloak, history,
           PollOK, BeforeOK, DrainedMeansAttached
  <1>4. CASE AttachBatch
    BY <1>4, AttachBatchStep
  <1>5. CASE RoleDone
    <2>1. AttachTypeOK'
      BY <1>5 DEF AttachTypeOK, RoleDone, keycloak, history
    <2>2. VisitedOK'
      BY <1>5 DEF VisitedOK, CurrentOK, RoleDone, keycloak, history
    <2> QED BY <1>5, <2>1, <2>2 DEF RoleDone, keycloak, history, PollOK, BeforeOK,
           CurrentOK, DrainedMeansAttached
  <1>6. CASE PersistCount
    <2>1. record' \in 0 .. Cardinality(CapSet)
      BY <1>6, Counts DEF AttachTypeOK, PersistCount
    <2>2. AttachTypeOK'
      BY <1>6, <2>1 DEF AttachTypeOK, PersistCount, AttachReturn, keycloak, history
    <2>3. DrainedMeansAttached'
      BY <1>6 DEF PersistCount, AttachReturn, keycloak, history, VisitedOK, DrainedMeansAttached
    <2> QED BY <1>6, <2>2, <2>3 DEF PersistCount, AttachReturn, keycloak, history, PollOK,
           BeforeOK, VisitedOK, CurrentOK
  <1> QED BY <1>1, <1>2, <1>3, <1>4, <1>5, <1>6 DEF AttachCapabilitySets

\* Every step keeps the invariant.
LEMMA AttachInvariance == AttachInv /\ [AttachNext]_attachVars => AttachInv'
  <1> SUFFICES ASSUME AttachInv, [AttachNext]_attachVars PROVE AttachInv'
    OBVIOUS
  <1> USE DEF AttachInv
  <1>1. CASE Environment
    BY <1>1, EnvironmentStep
  <1>2. CASE Begin
    <2>1. record' \in 0 .. Cardinality(CapSet)
      BY <1>2, Counts, FS_EmptySet DEF Begin, AttachTypeOK
    <2>2. 0 \in 0 .. Cardinality(CapSet)
      BY Counts, FS_EmptySet
    <2>3. AttachTypeOK'
      BY <1>2, <2>1, <2>2, CapabilityAssumption DEF AttachTypeOK, Begin, AttachReturn, keycloak
    <2> QED BY <1>2, <2>3 DEF Begin, AttachReturn, keycloak, PollOK, BeforeOK, VisitedOK,
           CurrentOK, DrainedMeansAttached
  <1>3. CASE AttachCapabilitySets
    BY <1>3, CommandStep
  <1>4. CASE Detach
    <2>1. attached' \in [Role -> SUBSET existing']
      BY <1>4 DEF Detach, AttachTypeOK
    <2>2. AttachTypeOK'
      BY <1>4, <2>1 DEF AttachTypeOK, Detach, history
    <2> QED BY <1>4, <2>2 DEF Detach, history, PollOK, BeforeOK, VisitedOK, CurrentOK,
           DrainedMeansAttached
  <1>5. CASE ProcessEnds
    <2>1. 0 \in 0 .. Cardinality(CapSet)
      BY Counts, FS_EmptySet
    <2>2. AttachTypeOK'
      BY <1>5, <2>1, CapabilityAssumption DEF AttachTypeOK, ProcessEnds, keycloak
    <2> QED BY <1>5, <2>2 DEF ProcessEnds, keycloak, PollOK, BeforeOK, VisitedOK,
           CurrentOK, DrainedMeansAttached
  <1>6. CASE UNCHANGED attachVars
    BY <1>6 DEF attachVars, AttachTypeOK, PollOK, BeforeOK, VisitedOK, CurrentOK,
           DrainedMeansAttached
  <1> QED BY <1>1, <1>2, <1>3, <1>4, <1>5, <1>6 DEF AttachNext

\* The invariant holds in every state.
THEOREM AttachInvHolds == AttachSpec => []AttachInv
  BY AttachInitHolds, AttachInvariance, PTL DEF AttachSpec

-----------------------------------------------------------------------------
\* Every variable stays in its domain: only published sets exist, only existing
\* ones are attached, and neither retry counter of PollConsumerGroup passes its
\* maximum (kafka_svc.go:58-104), whatever their sizes.
THEOREM AttachTypeCorrect == AttachSpec => []AttachTypeOK
  BY AttachInvHolds, PTL DEF AttachInv

\* A run that saw the group drained and succeeds has attached what had been
\* published to every role, in batches of any size, whatever runs before it had
\* attached (keycloak_svc_capability_set.go:101-190).
THEOREM DrainedMeansAttachedHolds == AttachSpec => []DrainedMeansAttached
  BY AttachInvHolds, PTL DEF AttachInv

=============================================================================
