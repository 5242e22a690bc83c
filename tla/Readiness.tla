------------------------------- MODULE Readiness -------------------------------
(***************************************************************************)
(* What deployManagement, deployModules and deployApplication wait for     *)
(* before they go on: one goroutine per new module pings its health        *)
(* endpoint and reports on a buffered channel, then the routes of the      *)
(* manager applications are looked for in the paged list of Kong.          *)
(* Containers become healthy, fall ill and register routes on their own,   *)
(* and the command may be killed, and repeated, at any time.               *)
(*                                                                         *)
(* How containers are created is the subject of ModuleDeployment, what     *)
(* follows (applications, tenants) that of EnvironmentDeployment.          *)
(***************************************************************************)
EXTENDS Naturals, FiniteSets

CONSTANTS
    Management,   \* modules deployManagement deploys
    Backend,      \* modules deployModules deploys
    Route,        \* routes Kong may hold, numbered in the order it lists them
    Expression,   \* the expression of each
    Expected,     \* the expressions CheckRouteReadiness looks for
    ModulePings,  \* ModuleReadinessMaxRetries
    RoutePolls,   \* KongRouteReadinessMaxRetries
    RetryMax,     \* RetryHTTPClientRetryMax
    PageSize      \* routes on one page of Kong's answer

ASSUME ReadinessAssumption ==
    /\ Management \cap Backend = {}
    /\ IsFiniteSet(Management \cup Backend)
    /\ Route \subseteq Nat \ {0}
    /\ IsFiniteSet(Route)
    /\ DOMAIN Expression = Route
    /\ IsFiniteSet(Expected)
    /\ {ModulePings, RoutePolls, PageSize} \subseteq Nat \ {0}
    /\ RetryMax \in Nat

VARIABLES
    container,   \* of each module: absent, unready or ready
    wasReady,    \* modules that were ready since their container was created
    unverified,  \* containers no deployment has seen ready since they were created
    kong,        \* the routes Kong holds
    cmd,         \* the command that runs, or ran last
    stage,       \* the part of it: deployManagement or deployModules
    pc,          \* its control point
    inherited,   \* what was unverified when it began
    newly,       \* newlyDeployed: modules whose containers it created
    checker,     \* control point of the goroutine that checks a module
    tries,       \* pings it has sent
    errCh,       \* modules reported as not ready
    attempt,     \* retries of the request to Kong under way
    poll,        \* route lists judged so far
    offset,      \* last route of the pages read so far
    seen,        \* routes on them
    before,      \* what Kong held when the first page was read
    result       \* how the command ended

server == <<container, wasReady, unverified, kong>>
checkers == <<newly, checker, tries, errCh>>
listing == <<attempt, poll, offset, seen, before>>
vars == <<server, cmd, stage, pc, inherited, checkers, listing, result>>

-----------------------------------------------------------------------------
Module == Management \cup Backend

Command == {"deployManagement", "deployModules", "deployApplication"}

Stages(c) == IF c = "deployApplication" THEN {"deployManagement", "deployModules"} ELSE {c}

ModulesOf(s) == IF s = "deployManagement" THEN Management ELSE Backend

Deployed(c) == UNION {ModulesOf(s) : s \in Stages(c)}

Init ==
    /\ container = [m \in Module |-> "absent"]
    /\ wasReady = {}
    /\ unverified = {}
    /\ kong = {}
    /\ cmd = "deployManagement"
    /\ stage = "deployManagement"
    /\ pc = "idle"
    /\ inherited = {}
    /\ newly = {}
    /\ checker = [m \in Module |-> "off"]
    /\ tries = [m \in Module |-> 0]
    /\ errCh = {}
    /\ attempt = 0
    /\ poll = 0
    /\ offset = 0
    /\ seen = {}
    /\ before = {}
    /\ result = "none"

Return(r) == pc' = "idle" /\ result' = r

\* The goroutines and their channel, and the list, are gone
Forgotten ==
    /\ checker' = [m \in Module |-> "off"]
    /\ tries' = [m \in Module |-> 0]
    /\ errCh' = {}

ListForgotten == attempt' = 0 /\ offset' = 0 /\ seen' = {} /\ before' = {}

-----------------------------------------------------------------------------
(***************************************************************************)
(* The commands                                                            *)
(***************************************************************************)
Start(c) ==
    /\ pc = "idle"
    /\ cmd' = c
    /\ stage' = IF c = "deployModules" THEN c ELSE "deployManagement"
    /\ pc' = IF c = "deployApplication" THEN "ping" ELSE "deploy"
    /\ inherited' = unverified
    /\ attempt' = 0
    /\ newly' = {}
    /\ poll' = 0
    /\ result' = "none"
    /\ UNCHANGED <<server, checker, tries, errCh, offset, seen, before>>

\* The retrying client asks once and up to RetryMax times again
Retryable == attempt < RetryMax

\* Only the status 200 lets deployApplication begin
PingKongStatus ==
    /\ pc = "ping"
    /\ \/ pc' = "deploy" /\ attempt' = 0 /\ UNCHANGED result
       \/ /\ Retryable
          /\ attempt' = attempt + 1
          /\ UNCHANGED <<pc, result>>
       \/ Return("kongUnreachable") /\ attempt' = 0
    /\ UNCHANGED <<server, cmd, stage, inherited, checkers, poll, offset, seen, before>>

\* DeployModules creates the containers that do not exist, or fails with some
\* of them created; what it created is checked, if it created anything.
DeployContainers ==
    /\ pc = "deploy"
    /\ \E created \in SUBSET {m \in ModulesOf(stage) : container[m] = "absent"} :
         /\ container' = [m \in Module |-> IF m \in created THEN "unready" ELSE container[m]]
         /\ unverified' = unverified \cup created
         /\ \/ Return("deployFailed") /\ UNCHANGED checkers
            \/ /\ \A m \in ModulesOf(stage) \ created : container[m] # "absent"
               /\ newly' = created
               /\ checker' = [m \in Module |-> IF m \in created THEN "ping" ELSE "off"]
               /\ tries' = [m \in Module |-> 0]
               /\ errCh' = {}
               /\ pc' = IF created = {} THEN "finish" ELSE "check"
               /\ UNCHANGED result
    /\ UNCHANGED <<wasReady, kong, cmd, stage, inherited, listing>>

-----------------------------------------------------------------------------
(***************************************************************************)
(* CheckDeployedModuleReadiness                                            *)
(***************************************************************************)
\* Fault: one ping more than there are retries
PingOnceMore(m) ==
    /\ checker[m] = "ping"
    /\ \/ container[m] = "ready" /\ checker' = [checker EXCEPT ![m] = "done"] /\ UNCHANGED tries
       \/ /\ tries' = [tries EXCEPT ![m] = @ + 1]
          /\ checker' = [checker EXCEPT ![m] = IF tries[m] = ModulePings THEN "report" ELSE "ping"]
    /\ UNCHANGED <<server, cmd, stage, pc, inherited, newly, errCh, listing, result>>

\* One ping: a healthy answer ends the check, anything else (a failing
\* request, another status) counts, and the last one leads to the report.
Ping(m) ==
    /\ checker[m] = "ping"
    /\ \/ container[m] = "ready" /\ checker' = [checker EXCEPT ![m] = "done"] /\ UNCHANGED tries
       \/ /\ tries' = [tries EXCEPT ![m] = @ + 1]
          /\ checker' = [checker EXCEPT ![m] = IF tries[m] + 1 = ModulePings THEN "report" ELSE "ping"]
    /\ UNCHANGED <<server, cmd, stage, pc, inherited, newly, errCh, listing, result>>

\* Fault: the channel has room for one error, and the send waits for it
ReportBlocking(m) ==
    /\ checker[m] = "report"
    /\ errCh = {}
    /\ errCh' = errCh \cup {m}
    /\ checker' = [checker EXCEPT ![m] = "done"]
    /\ UNCHANGED <<server, cmd, stage, pc, inherited, newly, tries, listing, result>>

\* Fault: an unbuffered channel, received from only when all are done
ReportUnbuffered(m) ==
    /\ checker[m] = "report"
    /\ checker' = [checker EXCEPT ![m] = "done"]
    /\ UNCHANGED <<server, cmd, stage, pc, inherited, newly, tries, errCh, listing, result>>

\* The send that gives up when the channel, one slot per new module, is full
Report(m) ==
    /\ checker[m] = "report"
    /\ errCh' = IF Cardinality(errCh) < Cardinality(newly) THEN errCh \cup {m} ELSE errCh
    /\ checker' = [checker EXCEPT ![m] = "done"]
    /\ UNCHANGED <<server, cmd, stage, pc, inherited, newly, tries, listing, result>>

\* wg.Wait returned: the first error on the channel is the result
Collect ==
    /\ pc = "check"
    /\ \A m \in newly : checker[m] = "done"
    /\ \/ /\ errCh # {}
          /\ Return("moduleNotReady")
          /\ UNCHANGED <<unverified, poll>>
       \/ /\ errCh = {}
          /\ unverified' = unverified \ newly
          /\ pc' = IF stage = "deployManagement" THEN "routes" ELSE "finish"
          /\ poll' = 0
          /\ UNCHANGED result
    /\ Forgotten
    /\ UNCHANGED <<container, wasReady, kong, cmd, stage, inherited, newly, attempt, offset, seen, before>>

-----------------------------------------------------------------------------
(***************************************************************************)
(* CheckRouteReadiness                                                     *)
(***************************************************************************)
BeginListing ==
    /\ pc = "routes"
    /\ pc' = "page"
    /\ attempt' = 0
    /\ offset' = 0
    /\ seen' = {}
    /\ before' = kong
    /\ UNCHANGED <<server, cmd, stage, inherited, checkers, poll, result>>

\* What is left of the list behind the offset, and the page that begins there
Rest == {r \in kong : r > offset}

Page == {r \in Rest : Cardinality({q \in Rest : q < r}) < PageSize}

\* Fault: the routes of a page replace those of the pages before
ReadPageForgetful ==
    /\ pc = "page"
    /\ seen' = Page
    /\ attempt' = 0
    /\ \/ /\ Page = Rest
          /\ pc' = "judge"
          /\ UNCHANGED offset
       \/ /\ Page # Rest
          /\ offset' \in Page
          /\ \A r \in Page : r <= offset'
          /\ UNCHANGED pc
    /\ UNCHANGED <<server, cmd, stage, inherited, checkers, poll, before, result>>

\* One page; its link to the next one is followed until there is none
ReadPage ==
    /\ pc = "page"
    /\ seen' = seen \cup Page
    /\ attempt' = 0
    /\ \/ /\ Page = Rest
          /\ pc' = "judge"
          /\ UNCHANGED offset
       \/ /\ Page # Rest
          /\ offset' \in Page
          /\ \A r \in Page : r <= offset'
          /\ UNCHANGED pc
    /\ UNCHANGED <<server, cmd, stage, inherited, checkers, poll, before, result>>

\* A page that cannot be read is asked for again while retries are left; then
\* the list counts as empty, as CheckRouteReadiness ignores the error.
PageFails ==
    /\ pc = "page"
    /\ \/ /\ Retryable
          /\ attempt' = attempt + 1
          /\ UNCHANGED <<pc, seen, before>>
       \/ /\ pc' = "judge"
          /\ seen' = {}
          /\ before' = {}
          /\ attempt' = 0
    /\ UNCHANGED <<server, cmd, stage, inherited, checkers, poll, offset, result>>

\* Fault: every route counts, whatever its expression
MatchedAny == seen

\* FindRouteByExpressions
Matched == {r \in seen : Expression[r] \in Expected}

JudgeRoutes ==
    /\ pc = "judge"
    /\ \/ /\ Cardinality(Matched) = Cardinality(Expected)
          /\ pc' = "finish"
          /\ UNCHANGED <<poll, result>>
       \/ /\ Cardinality(Matched) # Cardinality(Expected)
          /\ poll' = poll + 1
          /\ IF poll + 1 = RoutePolls THEN Return("routesNotReady")
                                      ELSE pc' = "routes" /\ UNCHANGED result
    /\ ListForgotten
    /\ UNCHANGED <<server, cmd, stage, inherited, checkers>>

\* The rest of a stage: the settings of the master realm, or the application.
\* deployApplication goes on with its second stage.
FinishStage ==
    /\ pc = "finish"
    /\ \/ Return("error") /\ UNCHANGED stage
       \/ /\ cmd = "deployApplication" /\ stage = "deployManagement"
          /\ stage' = "deployModules"
          /\ pc' = "deploy"
          /\ UNCHANGED result
       \/ /\ ~(cmd = "deployApplication" /\ stage = "deployManagement")
          /\ Return("done")
          /\ UNCHANGED stage
    /\ newly' = {}
    /\ poll' = 0
    /\ UNCHANGED <<server, cmd, inherited, checker, tries, errCh, attempt, offset, seen, before>>

Kill ==
    /\ pc # "idle"
    /\ Return("killed")
    /\ Forgotten
    /\ ListForgotten
    /\ newly' = {}
    /\ poll' = 0
    /\ UNCHANGED <<server, cmd, stage, inherited>>

\* undeployManagement and undeployModules
Undeploy(s) ==
    /\ pc = "idle"
    /\ \E m \in ModulesOf(s) : container[m] # "absent"
    /\ container' = [m \in Module |-> IF m \in ModulesOf(s) THEN "absent" ELSE container[m]]
    /\ wasReady' = wasReady \ ModulesOf(s)
    /\ unverified' = unverified \ ModulesOf(s)
    /\ result' = "none"
    /\ UNCHANGED <<kong, cmd, stage, pc, inherited, checkers, listing>>

-----------------------------------------------------------------------------
(***************************************************************************)
(* The modules and Kong                                                    *)
(***************************************************************************)
BecomeReady(m) ==
    /\ container[m] = "unready"
    /\ container' = [container EXCEPT ![m] = "ready"]
    /\ wasReady' = wasReady \cup {m}
    /\ UNCHANGED <<unverified, kong, cmd, stage, pc, inherited, checkers, listing, result>>

BecomeUnready(m) ==
    /\ container[m] = "ready"
    /\ container' = [container EXCEPT ![m] = "unready"]
    /\ UNCHANGED <<wasReady, unverified, kong, cmd, stage, pc, inherited, checkers, listing, result>>

\* The managers register their routes while they start
Register(r) ==
    /\ r \notin kong
    /\ \E m \in Management : container[m] # "absent"
    /\ kong' = kong \cup {r}
    /\ UNCHANGED <<container, wasReady, unverified, cmd, stage, pc, inherited, checkers, listing, result>>

-----------------------------------------------------------------------------
Main ==
    \/ PingKongStatus
    \/ DeployContainers
    \/ Collect
    \/ BeginListing
    \/ ReadPage
    \/ PageFails
    \/ JudgeRoutes
    \/ FinishStage

Check(m) == Ping(m) \/ Report(m)

Next ==
    \/ \E c \in Command : Start(c)
    \/ Main
    \/ \E m \in Module : Check(m) \/ BecomeReady(m) \/ BecomeUnready(m)
    \/ Kill
    \/ \E s \in Stages("deployApplication") : Undeploy(s)
    \/ \E r \in Route : Register(r)

\* The scheduler of Go runs every goroutine that can run; modules, Kong and the
\* user promise nothing.
Fairness == WF_vars(Main) /\ \A m \in Module : WF_vars(Check(m))

Spec == Init /\ [][Next]_vars /\ Fairness

-----------------------------------------------------------------------------
\* Every variable stays in its domain; no check pings, and no command lists the
\* routes, more often than its constant allows.
TypeOK ==
    /\ container \in [Module -> {"absent", "unready", "ready"}]
    /\ wasReady \subseteq Module
    /\ unverified \subseteq Module
    /\ kong \subseteq Route
    /\ cmd \in Command
    /\ stage \in Stages("deployApplication")
    /\ pc \in {"idle", "ping", "deploy", "check", "routes", "page", "judge", "finish"}
    /\ inherited \subseteq Module
    /\ newly \subseteq Module
    /\ checker \in [Module -> {"off", "ping", "report", "done"}]
    /\ tries \in [Module -> 0 .. ModulePings]
    /\ errCh \subseteq newly
    /\ attempt \in 0 .. RetryMax
    /\ poll \in 0 .. RoutePolls
    /\ offset \in Route \cup {0}
    /\ seen \subseteq Route
    /\ before \subseteq Route
    /\ result \in {"none", "done", "error", "killed", "kongUnreachable", "deployFailed",
                   "moduleNotReady", "routesNotReady"}

\* A deployment that reports success vouches for every module it deploys or
\* finds deployed: it was healthy since its container was created.  The one
\* exception are containers an earlier run created and then failed, or was
\* killed, before it had checked them: deployModules.go:102 skips the checks
\* when nothing is new, so a repeated command does not vouch for those.
SuccessMeansWasReady ==
    result = "done" => Deployed(cmd) \ wasReady \subseteq inherited

\* A list of routes that was read to its end holds every route Kong had when
\* its first page was read, and none it never had, whatever registers between
\* two pages and however often a page is asked for again.
ListingComplete ==
    pc = "judge" => before \subseteq seen /\ seen \subseteq kong

Twins == \E r, q \in kong : r # q /\ Expression[r] = Expression[q] /\ Expression[r] \in Expected

\* deployManagement goes on past the route check only when Kong has a route
\* for each expression.  The check counts routes, not expressions: the promise
\* holds as long as no two routes share an expression.
RoutesReady ==
    pc = "finish" /\ stage = "deployManagement" /\ newly # {} =>
        Expected \subseteq {Expression[r] : r \in kong} \/ Twins

\* Every deployment ends, whatever modules and Kong do: no goroutine waits for
\* room on the error channel, and every retry is bounded.
ReadinessEnds == (pc # "idle") ~> (pc = "idle")

=============================================================================
