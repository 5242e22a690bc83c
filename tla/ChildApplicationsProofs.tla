------------------------ MODULE ChildApplicationsProofs ------------------------
(***************************************************************************)
(* Proofs about ChildApplications, for any number of child applications,   *)
(* of capability sets and of commands.                                     *)
(*                                                                         *)
(* A plan is always the end of the plan its command began with (PlanOK),   *)
(* so that the number of steps left tells which are behind.  The inductive *)
(* invariant says what each step that is behind has left for good: in a    *)
(* deployment (DeploymentOK), in an undeployment (UndeploymentOK, and      *)
(* RoleRestored for the role) and, as long as no request fails, in a       *)
(* cleanup (CleanupOK), whose deployment counts on what its undeployment   *)
(* removed.                                                                *)
(***************************************************************************)
EXTENDS ChildApplications, FiniteSetTheorems, SequenceTheorems, TLAPS

Deploying == cmd \in {"deployApplication", "cleanup"} /\ result # "error"
Undeploying == cmd \in {"undeployApplication", "skipCapabilitySets"} /\ result # "error"

\* How many steps a command has
Length ==
    [deployApplication |-> 13, cleanup |-> 23, undeployApplication |-> 10,
     skipCapabilitySets |-> 4, deployAdditionalSystem |-> 1,
     undeployAdditionalSystem |-> 1, deployModules |-> 3, undeployModules |-> 2,
     createTenantEntitlements |-> 1, removeTenantEntitlements |-> 1,
     detachCapabilitySets |-> 1, attachCapabilitySets |-> 5]

\* The plan is the end of the one the command began with.
PlanOK ==
    /\ cmd # "none" => child \in Child
    /\ cmd = "none" => plan = <<>> /\ excuse = {}
    /\ cmd # "none" =>
          /\ Len(plan) <= Length[cmd]
          /\ \A i \in 1 .. Len(plan) : plan[i] = Plan[cmd][(Length[cmd] - Len(plan)) + i]

\* What TypeOK says of the plan and of its result
PlanTyped ==
    /\ plan \in Seq(Steps)
    /\ result \in {"none", "ok", "error"}
    /\ result # "none" <=> cmd # "none" /\ plan = <<>>

\* How many steps a deployment has left when it is at one of these
DeployPlace ==
    [parents |-> 13, system |-> 12, containers |-> 11, application |-> 10,
     discovery |-> 9, entitle |-> 8, detach |-> 7, tokens |-> 6, refresh |-> 5,
     record |-> 4, poll |-> 3, attach |-> 2, count |-> 1]

\* Which steps of an undeployment, and of a cleanup, these are
UndeployPlace ==
    [removeEntitlement |-> 1, removeApplication |-> 2, removeContainers |-> 3,
     removeSystem |-> 4, detach |-> 5, tokens |-> 6, record |-> 7, poll |-> 8,
     attach |-> 9, count |-> 10]

\* How many steps the command has yet to take
Left == Len(plan)

\* The step of a deployment, or of an undeployment, is behind.
Past(step) == Left < DeployPlace[step]
Gone(step) == UndeployPlace[step] <= Length[cmd] - Left

\* The capability sets of the child and of the base application
OwnSets == SetsOf({child})
BaseSets == SetsOf({Base})

\* The base application never loses its entitlement.
BaseKept == BaseSets \subseteq existing

\* What the steps of a deployment that are behind have left
DeploymentOK ==
    Deploying =>
        /\ Past("system") /\ child \in Additional => child \in system
        /\ Past("containers") =>
              /\ "absent" \notin containers[child]
              /\ "dead" \in containers[child] => "containers" \in excuse
        /\ Past("application") => child \in registered
        /\ Past("discovery") => child \in discovered \/ "discovery" \in excuse
        /\ Past("entitle") => child \in entitled \/ "tenants" \in excuse
        /\ Past("refresh") /\ ~Past("record") => record = 0 \/ "file" \in excuse
        /\ Past("poll") /\ excuse \intersect {"poll", "file"} = {} => Pending = {}
        /\ Past("attach") /\ excuse \intersect {"poll", "file"} = {} =>
              Wanted \subseteq attached

\* What those of an undeployment have
UndeploymentOK ==
    Undeploying =>
        /\ Gone("removeSystem") => child \notin system
        /\ ~faulted =>
              /\ Gone("removeEntitlement") => child \notin entitled
              /\ Gone("removeApplication") => child \notin registered
              /\ Gone("removeContainers") => containers[child] = {"absent"}

RoleRestored ==
    cmd = "undeployApplication" /\ ~faulted /\ result # "error" =>
        /\ Gone("detach") => attached \intersect OwnSets = {}
        /\ Gone("poll") /\ "record" \notin excuse => Pending = {}
        /\ Gone("attach") => BaseSets \subseteq attached
        /\ Gone("attach") /\ "record" \notin excuse => Wanted \subseteq attached

\* The deployment of a cleanup finds nothing of the child to skip.
CleanupOK ==
    cmd = "cleanup" /\ ~faulted =>
        /\ Gone("removeEntitlement") /\ ~Past("entitle") => child \notin entitled
        /\ Gone("removeApplication") /\ ~Past("application") => child \notin registered
        /\ Gone("removeContainers") /\ ~Past("containers") => containers[child] = {"absent"}
        /\ Past("containers") /\ result # "error" => containers[child] = {"running"}
        /\ "containers" \notin excuse /\ "discovery" \notin excuse

IInv ==
    /\ TypeOK
    /\ PlanOK
    /\ BaseKept
    /\ DeploymentOK
    /\ UndeploymentOK
    /\ RoleRestored
    /\ CleanupOK
    /\ CleanupRepairs

-----------------------------------------------------------------------------
(***************************************************************************)
(* The plans, step by step                                                 *)
(***************************************************************************)
Names ==
    {"parents", "system", "containers", "application", "discovery", "entitle", "detach",
     "tokens", "refresh", "record", "poll", "attach", "count", "removeEntitlement",
     "removeApplication", "removeContainers", "removeSystem", "removeEntitlementAlone"}

\* DeployPlace and UndeployPlace say where the steps stand in the two plans.
LEMMA DeployPlan ==
  /\ DeployChildApplication \in Seq(Names)
  /\ Len(DeployChildApplication) = 13
  /\ \A i \in 1 .. 13 : /\ DeployPlace[DeployChildApplication[i]] = 14 - i
                        /\ DeployChildApplication[i] \in DOMAIN DeployPlace
  <1> DEFINE s == DeployChildApplication
  <1>1. /\ Len(s) = 13
        /\ s[1] = "parents" /\ s[2] = "system" /\ s[3] = "containers" /\ s[4] = "application"
        /\ s[5] = "discovery" /\ s[6] = "entitle" /\ s[7] = "detach" /\ s[8] = "tokens"
        /\ s[9] = "refresh" /\ s[10] = "record" /\ s[11] = "poll" /\ s[12] = "attach"
        /\ s[13] = "count"
    BY DEF DeployChildApplication, DeployModules, AttachCapabilitySets
  <1>2. s \in Seq(Names)
    BY DEF DeployChildApplication, DeployModules, AttachCapabilitySets, Names
  <1> HIDE DEF s
  <1>3. ASSUME NEW i \in 1 .. 13
        PROVE DeployPlace[s[i]] = 14 - i /\ s[i] \in DOMAIN DeployPlace
    BY <1>1 DEF DeployPlace
  <1> QED BY <1>1, <1>2, <1>3 DEF s

LEMMA UndeployPlan ==
  /\ UndeployChildApplication \in Seq(Names)
  /\ Len(UndeployChildApplication) = 10
  /\ \A i \in 1 .. 10 : /\ UndeployPlace[UndeployChildApplication[i]] = i
                        /\ UndeployChildApplication[i] \in DOMAIN UndeployPlace
  <1> DEFINE s == UndeployChildApplication
  <1>1. /\ Len(s) = 10
        /\ s[1] = "removeEntitlement" /\ s[2] = "removeApplication"
        /\ s[3] = "removeContainers" /\ s[4] = "removeSystem"
        /\ s[5] = "detach" /\ s[6] = "tokens" /\ s[7] = "record"
        /\ s[8] = "poll" /\ s[9] = "attach" /\ s[10] = "count"
    BY DEF UndeployChildApplication, UndeployModules, AttachCapabilitySets
  <1>2. s \in Seq(Names)
    BY DEF UndeployChildApplication, UndeployModules, AttachCapabilitySets, Names
  <1> HIDE DEF s
  <1>3. ASSUME NEW i \in 1 .. 10
        PROVE UndeployPlace[s[i]] = i /\ s[i] \in DOMAIN UndeployPlace
    BY <1>1 DEF UndeployPlace
  <1> QED BY <1>1, <1>2, <1>3 DEF s

\* A cleanup is the one after the other.
LEMMA CleanupPlan ==
  /\ DeployApplicationWithCleanup \in Seq(Names)
  /\ Len(DeployApplicationWithCleanup) = 23
  /\ \A i \in 1 .. 23 : DeployApplicationWithCleanup[i] =
        IF i <= 10 THEN UndeployChildApplication[i] ELSE DeployChildApplication[i - 10]
  <1>1. /\ UndeployChildApplication \in Seq(Names) /\ Len(UndeployChildApplication) = 10
        /\ DeployChildApplication \in Seq(Names) /\ Len(DeployChildApplication) = 13
    BY UndeployPlan, DeployPlan
  <1>2. ASSUME NEW u \in Seq(Names), NEW d \in Seq(Names), Len(u) = 10, Len(d) = 13
        PROVE  /\ u \o d \in Seq(Names) /\ Len(u \o d) = 23
               /\ \A i \in 1 .. 23 : (u \o d)[i] = IF i <= 10 THEN u[i] ELSE d[i - 10]
    <2> DEFINE s == u \o d
    <2>1. /\ s \in Seq(Names)
          /\ Len(s) = Len(u) + Len(d)
          /\ \A i \in 1 .. Len(u) + Len(d) : s[i] = IF i <= Len(u) THEN u[i] ELSE d[i - Len(u)]
      BY ConcatProperties
    <2> HIDE DEF s
    <2>2. Len(s) = 23 /\ \A i \in 1 .. 23 : s[i] = IF i <= 10 THEN u[i] ELSE d[i - 10]
      BY <1>2, <2>1
    <2> QED BY <2>1, <2>2 DEF s
  <1> QED BY <1>1, <1>2 DEF DeployApplicationWithCleanup

\* The elements of the shorter plans
LEMMA OtherPlans ==
  /\ LET s == <<"removeEntitlement">> \o UndeployModules \o <<"removeSystem">>
     IN /\ s \in Seq(Names) /\ Len(s) = 4
        /\ s[1] = "removeEntitlement" /\ s[2] = "removeApplication"
        /\ s[3] = "removeContainers" /\ s[4] = "removeSystem"
  /\ LET s == DeployModules
     IN /\ s \in Seq(Names) /\ Len(s) = 3
        /\ s[1] = "containers" /\ s[2] = "application" /\ s[3] = "discovery"
  /\ LET s == AttachCapabilitySets(FALSE)
     IN /\ s \in Seq(Names) /\ Len(s) = 5
        /\ s[1] = "tokens" /\ s[2] = "record" /\ s[3] = "poll"
        /\ s[4] = "attach" /\ s[5] = "count"
  /\ UndeployModules \in Seq(Names) /\ Len(UndeployModules) = 2
  /\ UndeployModules[1] = "removeApplication" /\ UndeployModules[2] = "removeContainers"
  BY DEF DeployModules, UndeployModules, AttachCapabilitySets, Names

LEMMA Commands ==
  Command = {"deployApplication", "cleanup", "undeployApplication", "skipCapabilitySets",
    "deployAdditionalSystem", "undeployAdditionalSystem", "deployModules", "undeployModules",
    "createTenantEntitlements", "removeTenantEntitlements", "detachCapabilitySets",
    "attachCapabilitySets"}
  BY DEF Command, Plan

LEMMA NonEmpty ==
  ASSUME NEW S, NEW s \in Seq(S)
  PROVE  Len(s) \in Nat /\ (s # <<>> <=> Len(s) > 0)
  OBVIOUS

\* Every plan is a sequence of steps of the length Length says.
LEMMA Plans == 
  ASSUME NEW c \in Command
  PROVE  /\ Plan[c] \in Seq(Steps) /\ Len(Plan[c]) = Length[c]
         /\ Length[c] \in Nat /\ 0 < Length[c]
  <1>1. /\ Plan[c] \in Seq(Names) /\ Len(Plan[c]) = Length[c]
        /\ Length[c] \in Nat /\ 0 < Length[c]
    <2>1. CASE c = "deployApplication"
      BY <2>1, DeployPlan DEF Plan, Length
    <2>2. CASE c = "cleanup"
      BY <2>2, CleanupPlan DEF Plan, Length
    <2>3. CASE c = "undeployApplication"
      BY <2>3, UndeployPlan DEF Plan, Length
    <2>4. CASE c \in {"skipCapabilitySets", "deployModules",
                      "undeployModules", "attachCapabilitySets"}
      <3>1. /\ Plan["skipCapabilitySets"] =
                  <<"removeEntitlement">> \o UndeployModules \o <<"removeSystem">>
            /\ Plan["deployModules"] = DeployModules
            /\ Plan["undeployModules"] = UndeployModules
            /\ Plan["attachCapabilitySets"] = AttachCapabilitySets(FALSE)
        BY Zenon DEF Plan
      <3>2. /\ Length["skipCapabilitySets"] = 4 /\ Length["deployModules"] = 3
            /\ Length["undeployModules"] = 2 /\ Length["attachCapabilitySets"] = 5
        BY DEF Length
      <3>3. Len(Plan[c]) = Length[c]
        BY <2>4, <3>1, <3>2, OtherPlans, Zenon
      <3>4. Length[c] \in Nat /\ 0 < Length[c]
        BY <2>4, <3>2
      <3>5. Plan[c] \in Seq(Names)
        BY <2>4, <3>1, OtherPlans, Zenon
      <3> QED BY <3>3, <3>4, <3>5
    <2>5. CASE c \in {"deployAdditionalSystem", "undeployAdditionalSystem",
                      "createTenantEntitlements", "removeTenantEntitlements",
                      "detachCapabilitySets"}
      <3>1. \E s \in Names : Plan[c] = <<s>>
        BY <2>5 DEF Plan, Names
      <3>2. Length[c] = 1
        BY <2>5 DEF Length
      <3> QED BY <3>1, <3>2
    <2> QED BY <2>1, <2>2, <2>3, <2>4, <2>5, Commands
  <1>2. DOMAIN Plan[c] = 1 .. Len(Plan[c])
    BY <1>1
  <1>3. \A i \in DOMAIN Plan[c] : Plan[c][i] \in Steps
    BY DEF Steps
  <1>4. Plan[c] \in [1 .. Len(Plan[c]) -> Steps]
    BY <1>1, <1>2, <1>3, LenProperties
  <1>5. Plan[c] \in Seq(Steps)
    <2>1. Seq(Steps) = UNION {[1 .. n -> Steps] : n \in Nat}
      BY SeqDef
    <2>2. \E n \in Nat : Plan[c] \in [1 .. n -> Steps]
      BY <1>1, <1>4
    <2> QED BY <2>1, <2>2
  <1> QED BY <1>1, <1>5

\* The step a command is at is the one its plan has at this place.
LEMMA PlaceOf ==
  ASSUME TypeOK, PlanOK, NEW s, At(s)
  PROVE  /\ cmd \in Command /\ plan \in Seq(Steps)
         /\ Len(plan) \in Nat /\ 1 <= Len(plan) /\ Len(plan) <= Length[cmd]
         /\ s = Plan[cmd][(Length[cmd] - Len(plan)) + 1]
  <1>1. cmd \in Command /\ Len(plan) \in Nat /\ Len(plan) > 0
    BY NonEmpty, Zenon DEF TypeOK, PlanOK, At
  <1>2. Len(plan) <= Length[cmd] /\ Length[cmd] \in Nat
    BY <1>1, Plans DEF PlanOK, TypeOK
  <1>3. s = plan[1]
    BY DEF At, TypeOK
  <1> QED BY <1>1, <1>2, <1>3 DEF PlanOK, TypeOK

LEMMA DeployPlaceOf ==
  ASSUME TypeOK, PlanOK, NEW s, At(s), cmd = "deployApplication"
  PROVE  s \in DOMAIN DeployPlace /\ Len(plan) = DeployPlace[s]
  <1>1. Length[cmd] = 13 /\ Plan[cmd] = DeployChildApplication
    BY DEF Length, Plan
  <1> DEFINE i == (13 - Len(plan)) + 1
  <1>2. i \in 1 .. 13 /\ Len(plan) = 14 - i /\ s = DeployChildApplication[i]
    BY <1>1, PlaceOf
  <1>3. DeployPlace[s] = 14 - i /\ s \in DOMAIN DeployPlace
    BY <1>2, DeployPlan
  <1> QED BY <1>2, <1>3

LEMMA UndeployPlaceOf ==
  ASSUME TypeOK, PlanOK, NEW s, At(s), cmd = "undeployApplication"
  PROVE  s \in DOMAIN UndeployPlace /\ UndeployPlace[s] = 11 - Len(plan)
  <1>1. Length[cmd] = 10 /\ Plan[cmd] = UndeployChildApplication
    BY DEF Length, Plan
  <1> DEFINE i == (10 - Len(plan)) + 1
  <1>2. i \in 1 .. 10 /\ i = 11 - Len(plan) /\ s = UndeployChildApplication[i]
    BY <1>1, PlaceOf
  <1>3. UndeployPlace[s] = i /\ s \in DOMAIN UndeployPlace
    BY <1>2, UndeployPlan
  <1> QED BY <1>2, <1>3

LEMMA CleanupPlaceOf ==
  ASSUME TypeOK, PlanOK, NEW s, At(s), cmd = "cleanup"
  PROVE  \/ s \in DOMAIN DeployPlace /\ Len(plan) = DeployPlace[s] /\ Len(plan) <= 13
         \/ s \in DOMAIN UndeployPlace /\ UndeployPlace[s] = 24 - Len(plan) /\ Len(plan) > 13
  <1>1. Length[cmd] = 23 /\ Plan[cmd] = DeployApplicationWithCleanup
    BY DEF Length, Plan
  <1> DEFINE i == (23 - Len(plan)) + 1
  <1>2. i \in 1 .. 23 /\ Len(plan) = 24 - i
    <2>1. Len(plan) \in Nat /\ 1 <= Len(plan) /\ Len(plan) <= 23
      BY <1>1, PlaceOf
    <2>2. \A n \in Nat : 1 <= n /\ n <= 23 =>
             (23 - n) + 1 \in 1 .. 23 /\ n = 24 - ((23 - n) + 1)
      OBVIOUS
    <2> QED BY <2>1, <2>2, Zenon
  <1>3. s = DeployApplicationWithCleanup[i]
    <2>1. s = Plan[cmd][(Length[cmd] - Len(plan)) + 1]
      BY PlaceOf
    <2> QED BY <1>1, <2>1, Zenon
  <1>4. \A k \in 1 .. 23 : DeployApplicationWithCleanup[k] =
           IF k <= 10 THEN UndeployChildApplication[k] ELSE DeployChildApplication[k - 10]
    BY CleanupPlan, Zenon
  <1> HIDE DEF i
  <1>5. CASE i <= 10
    <2>1. i \in 1 .. 10
      BY <1>2, <1>5
    <2>2. s = UndeployChildApplication[i]
      BY <1>2, <1>3, <1>4, <1>5, Zenon
    <2>3. UndeployPlace[s] = i /\ s \in DOMAIN UndeployPlace
      BY <2>1, <2>2, UndeployPlan
    <2> QED BY <1>2, <1>5, <2>3
  <1>6. CASE i > 10
    <2> DEFINE j == i - 10
    <2>1. j \in 1 .. 13
      BY <1>2, <1>6
    <2>2. ~(i <= 10)
      BY <1>2, <1>6
    <2>3. s = DeployChildApplication[j]
      BY <1>2, <1>3, <1>4, <2>2, Zenon
    <2>4. DeployPlace[s] = 14 - j /\ s \in DOMAIN DeployPlace
      BY <2>1, <2>3, DeployPlan
    <2> QED BY <1>2, <1>6, <2>4
  <1> QED BY <1>2, <1>5, <1>6

LEMMA OtherPlaces ==
  ASSUME TypeOK, PlanOK, NEW s, At(s)
  PROVE  /\ cmd = "skipCapabilitySets" =>
               s \in DOMAIN UndeployPlace /\ UndeployPlace[s] = 5 - Len(plan)
         /\ s = "application" => \/ cmd \in {"deployApplication", "cleanup"}
                                 \/ cmd = "deployModules" /\ Len(plan) = 2
         /\ s = "record" => \/ cmd \in {"deployApplication", "cleanup", "undeployApplication"}
                            \/ cmd = "attachCapabilitySets" /\ Len(plan) = 4
  <1> DEFINE i == (Length[cmd] - Len(plan)) + 1
  <1>1. /\ cmd \in Command /\ s = Plan[cmd][i] /\ plan \in Seq(Steps)
        /\ 1 <= Len(plan) /\ Len(plan) <= Length[cmd]
    BY PlaceOf
  <1>2. CASE cmd = "skipCapabilitySets"
    <2>1. /\ Length[cmd] = 4
          /\ Plan[cmd] = <<"removeEntitlement">> \o UndeployModules \o <<"removeSystem">>
      BY <1>2 DEF Length, Plan
    <2>2. i \in 1 .. 4 /\ i = 5 - Len(plan)
      BY <1>1, <2>1
    <2> HIDE DEF i
    <2>3. UndeployPlace[s] = i /\ s \in DOMAIN UndeployPlace
      BY <1>1, <2>1, <2>2, OtherPlans DEF UndeployPlace
    <2> QED BY <1>2, <2>2, <2>3 DEF UndeployPlace
  <1>3. CASE cmd = "deployModules"
    <2>1. Length[cmd] = 3 /\ Plan[cmd] = DeployModules
      BY <1>3 DEF Length, Plan
    <2>2. i \in 1 .. 3 /\ Len(plan) = 4 - i
      BY <1>1, <2>1
    <2> HIDE DEF i
    <2>3. i = 2 => Len(plan) = 2
      BY <1>1, <2>2
    <2>4. (s = "application" => i = 2) /\ s # "record"
      BY <1>1, <2>1, <2>2, OtherPlans
    <2> QED BY <1>3, <2>3, <2>4
  <1>4. CASE cmd = "attachCapabilitySets"
    <2>1. Length[cmd] = 5 /\ Plan[cmd] = AttachCapabilitySets(FALSE)
      BY <1>4 DEF Length, Plan
    <2>2. i \in 1 .. 5 /\ Len(plan) = 6 - i
      BY <1>1, <2>1
    <2> HIDE DEF i
    <2>3. i = 2 => Len(plan) = 4
      BY <1>1, <2>2
    <2> DEFINE p == Plan[cmd]
    <2>4. /\ p[1] = "tokens" /\ p[2] = "record" /\ p[3] = "poll"
          /\ p[4] = "attach" /\ p[5] = "count"
      BY <2>1, OtherPlans, Zenon
    <2>5. s = p[i]
      BY <1>1
    <2> HIDE DEF p
    <2>6. (s = "record" => i = 2) /\ s # "application"
      BY <2>2, <2>4, <2>5
    <2> QED BY <1>4, <2>3, <2>6
  <1>5. CASE cmd = "undeployModules"
    <2>1. Length[cmd] = 2 /\ Plan[cmd] = UndeployModules
      BY <1>5 DEF Length, Plan
    <2>2. i \in 1 .. 2
      BY <1>1, <2>1
    <2> HIDE DEF i
    <2> QED BY <1>1, <1>5, <2>1, <2>2, OtherPlans
  <1>6. CASE cmd = "undeployApplication"
    BY <1>6, UndeployPlaceOf DEF UndeployPlace
  <1>7. CASE cmd \in {"deployAdditionalSystem", "undeployAdditionalSystem",
                      "createTenantEntitlements", "removeTenantEntitlements",
                      "detachCapabilitySets"}
    <2>1. Length[cmd] = 1 /\ Plan[cmd][1] \notin {"application", "record"}
      BY <1>7 DEF Length, Plan
    <2>2. i = 1
      BY <1>1, <2>1
    <2> HIDE DEF i
    <2> QED BY <1>1, <1>7, <2>1, <2>2
  <1>8. CASE cmd \in {"deployApplication", "cleanup"}
    BY <1>8
  <1> QED BY <1>1, <1>2, <1>3, <1>4, <1>5, <1>6, <1>7, <1>8, Commands

\* How many steps a command has left, by the step it is at
LEMMA Places ==
  ASSUME TypeOK, PlanOK, NEW s, At(s)
  PROVE  /\ cmd \in Command /\ child \in Child /\ result = "none" /\ Left \in Nat /\ 1 <= Left
         /\ cmd = "deployApplication" => s \in DOMAIN DeployPlace /\ Left = DeployPlace[s]
         /\ cmd = "undeployApplication" =>
               s \in DOMAIN UndeployPlace /\ UndeployPlace[s] = 11 - Left
         /\ cmd = "cleanup" =>
               \/ s \in DOMAIN DeployPlace /\ Left = DeployPlace[s] /\ Left <= 13
               \/ s \in DOMAIN UndeployPlace /\ UndeployPlace[s] = 24 - Left /\ Left > 13
         /\ cmd = "skipCapabilitySets" =>
               s \in DOMAIN UndeployPlace /\ UndeployPlace[s] = 5 - Left
         /\ s = "application" => \/ cmd \in {"deployApplication", "cleanup"}
                                 \/ cmd = "deployModules" /\ Left = 2
         /\ s = "record" => \/ cmd \in {"deployApplication", "cleanup", "undeployApplication"}
                            \/ cmd = "attachCapabilitySets" /\ Left = 4
  <1>1. /\ cmd \in Command /\ plan # <<>> /\ Len(plan) \in Nat
        /\ 1 <= Len(plan) /\ result = "none"
    BY PlaceOf DEF At, TypeOK
  <1>2. child \in Child
    BY <1>1 DEF PlanOK, TypeOK
  <1> QED BY <1>1, <1>2, DeployPlaceOf, UndeployPlaceOf, CleanupPlaceOf, OtherPlaces,
          Zenon DEF Left

\* A plan that drops its first one or two steps is still the end of the plan.
LEMMA PlanMoves ==
  ASSUME TypeOK, PlanOK, NEW s, At(s), UNCHANGED job, plan' \in Seq(Steps), NEW k \in {1, 2},
         Len(plan') = Len(plan) - k, \A i \in 1 .. Len(plan') : plan'[i] = plan[i + k]
  PROVE  PlanOK'
  <1>1. cmd \in Command /\ cmd # "none" /\ child \in Child /\ Length[cmd] \in Nat
    <2>1. cmd \in Command /\ child \in Child /\ result = "none"
      BY Places, Zenon
    <2>2. cmd # "none"
      BY <2>1, Commands
    <2> QED BY <2>1, <2>2, Plans
  <1>2. plan \in Seq(Steps) /\ 1 <= Len(plan) /\ Len(plan) <= Length[cmd]
    BY PlaceOf
  <1>3. Len(plan') <= Length[cmd]
    BY <1>1, <1>2
  <1>4. ASSUME NEW i \in 1 .. Len(plan')
        PROVE  plan'[i] = Plan[cmd][(Length[cmd] - Len(plan')) + i]
    <2>1. i + k \in 1 .. Len(plan)
      BY <1>2
    <2>2. plan[i + k] = Plan[cmd][(Length[cmd] - Len(plan)) + (i + k)]
      BY <1>1, <2>1, Zenon DEF PlanOK
    <2>3. (Length[cmd] - Len(plan)) + (i + k) = (Length[cmd] - Len(plan')) + i
      BY <1>1, <1>2
    <2> QED BY <2>2, <2>3, Zenon
  <1> QED BY <1>1, <1>3, <1>4 DEF PlanOK, job

\* To take a step, or to end the command, leaves the plan as PlanOK says.
LEMMA Moves ==
  ASSUME TypeOK, PlanOK, NEW s, At(s), UNCHANGED job
  PROVE  /\ GoOn => PlanOK' /\ PlanTyped' /\ Left' = Left - 1 /\ result' # "error"
         /\ Return("error") => PlanOK' /\ PlanTyped' /\ Left' = 0 /\ result' = "error"
  <1>1. cmd \in Command /\ cmd # "none" /\ child \in Child /\ Length[cmd] \in Nat
    <2>1. cmd \in Command /\ child \in Child /\ result = "none"
      BY Places, Zenon
    <2>2. cmd # "none"
      BY <2>1, Commands
    <2> QED BY <2>1, <2>2, Plans
  <1>2. plan \in Seq(Steps) /\ plan # <<>> /\ 1 <= Len(plan) /\ Len(plan) <= Length[cmd]
    BY PlaceOf DEF At
  <1>3. ASSUME GoOn
        PROVE PlanOK' /\ PlanTyped' /\ Left' = Left - 1 /\ result' # "error"
    <2>1. plan' \in Seq(Steps) /\ Len(plan') = Len(plan) - 1
      BY <1>2, <1>3 DEF GoOn
    <2>2. \A i \in 1 .. Len(plan') : plan'[i] = plan[i + 1] /\ i + 1 \in 1 .. Len(plan)
      BY <1>2, <1>3 DEF GoOn
    <2>3. plan' = <<>> <=> Len(plan) = 1
      BY <1>2, <2>1
    <2>4. PlanOK'
      BY <1>3, <2>1, <2>2, PlanMoves, Zenon
    <2> QED BY <1>1, <1>3, <2>1, <2>3, <2>4 DEF GoOn, PlanTyped, job, Left
  <1>4. ASSUME Return("error")
        PROVE PlanOK' /\ PlanTyped' /\ Left' = 0 /\ result' = "error"
    <2>1. plan' = <<>> /\ result' = "error" /\ cmd' = cmd /\ child' = child
      BY <1>4 DEF Return, job
    <2>2. Len(plan') = 0 /\ plan' \in Seq(Steps)
      BY <2>1
    <2>3. PlanOK'
      BY <1>1, <2>1, <2>2 DEF PlanOK
    <2> QED BY <1>1, <2>1, <2>2, <2>3 DEF PlanTyped, Left
  <1> QED BY <1>3, <1>4

\* So do the two steps that skip the one after them: there is one.
LEMMA Skips ==
  ASSUME TypeOK, PlanOK, NEW s, At(s), UNCHANGED job
  PROVE  /\ s = "application" /\ SkipApplication =>
               PlanOK' /\ PlanTyped' /\ Left' = Left - 2 /\ result' # "error"
         /\ s = "record" /\ plan' = Tail(Tail(plan)) /\ UNCHANGED result =>
               PlanOK' /\ PlanTyped' /\ Left' = Left - 2 /\ result' # "error"
  <1>1. /\ cmd \in Command /\ cmd # "none" /\ child \in Child
        /\ Length[cmd] \in Nat /\ result = "none"
    <2>1. cmd \in Command /\ child \in Child /\ result = "none"
      BY Places, Zenon
    <2>2. cmd # "none"
      BY <2>1, Commands
    <2> QED BY <2>1, <2>2, Plans
  <1>2. plan \in Seq(Steps) /\ plan # <<>> /\ 1 <= Len(plan) /\ Len(plan) <= Length[cmd]
    BY PlaceOf DEF At
  <1>3. (s = "application" => 2 <= Len(plan)) /\ (s = "record" => 3 <= Len(plan))
    <2>1. Left \in Nat /\ 1 <= Left
      BY Places
    <2>2. (s = "application" => 2 <= Left) /\ (s = "record" => 3 <= Left)
      BY <2>1, Places DEF DeployPlace, UndeployPlace
    <2> QED BY <2>2 DEF Left
  <1>4. ASSUME plan' \in Seq(Steps), Len(plan') = Len(plan) - 2,
               \A i \in 1 .. Len(plan') : plan'[i] = plan[i + 2]
        PROVE  PlanOK'
    BY <1>4, PlanMoves, Zenon
  <1>5. ASSUME s = "application", SkipApplication
        PROVE PlanOK' /\ PlanTyped' /\ Left' = Left - 2 /\ result' # "error"
    <2>1. plan' \in Seq(Steps) /\ Len(plan') = Len(plan) - 2
      <3> DEFINE n == Len(plan)
                 t == SubSeq(plan, 3, n)
      <3>1. n \in Nat /\ 2 <= n /\ plan' = t
        BY <1>2, <1>3, <1>5 DEF SkipApplication
      <3>2. \A i \in 3 .. n : plan[i] \in Steps
        BY <1>2
      <3>3. t \in Seq(Steps) /\ Len(t) = IF 3 <= n THEN n - 3 + 1 ELSE 0
        BY <3>1, <3>2, SubSeqProperties
      <3> HIDE DEF n, t
      <3>4. Len(t) = n - 2
        BY <3>1, <3>3
      <3> QED BY <3>1, <3>3, <3>4 DEF n
    <2>2. \A i \in 1 .. Len(plan') : plan'[i] = plan[i + 2]
      BY <1>2, <1>3, <1>5 DEF SkipApplication
    <2>3. plan' = <<>> <=> Len(plan) = 2
      BY <1>2, <2>1
    <2>4. PlanOK'
      BY <1>3, <1>4, <1>5, <2>1, <2>2
    <2> QED BY <1>1, <1>5, <2>1, <2>3, <2>4 DEF SkipApplication, PlanTyped, job, Left
  <1>6. ASSUME s = "record", plan' = Tail(Tail(plan)), UNCHANGED result
        PROVE PlanOK' /\ PlanTyped' /\ Left' = Left - 2 /\ result' # "error"
    <2>1. plan' \in Seq(Steps) /\ Len(plan') = Len(plan) - 2
      <3>1. Tail(plan) \in Seq(Steps) /\ Len(Tail(plan)) = Len(plan) - 1
        BY <1>2
      <3> DEFINE t == Tail(plan)
      <3>2. 1 <= Len(t) /\ t \in Seq(Steps) /\ Len(t) = Len(plan) - 1 /\ plan' = Tail(t)
        BY <1>2, <1>3, <1>6, <3>1
      <3> HIDE DEF t
      <3>3. Tail(t) \in Seq(Steps) /\ Len(Tail(t)) = Len(t) - 1
        BY <3>2
      <3>4. Len(plan) \in Nat /\ Len(t) \in Nat
        BY <1>2, <3>2
      <3> QED BY <3>2, <3>3, <3>4
    <2>2. \A i \in 1 .. Len(plan') : plan'[i] = plan[i + 2]
      BY <1>2, <1>3, <1>6
    <2>3. plan' # <<>>
      <3>1. Len(plan') > 0
        BY <1>2, <1>3, <1>6, <2>1
      <3> QED BY <2>1, <3>1, NonEmpty, Zenon
    <2>4. PlanOK'
      BY <1>3, <1>4, <1>6, <2>1, <2>2
    <2> QED BY <1>1, <1>6, <2>1, <2>3, <2>4 DEF PlanTyped, job, Left
  <1> QED BY <1>5, <1>6

-----------------------------------------------------------------------------
(***************************************************************************)
(* Capability sets                                                         *)
(***************************************************************************)
LEMMA SetsMonotone ==
  ASSUME NEW A, NEW B, A \subseteq B
  PROVE  SetsOf(A) \subseteq SetsOf(B)
  BY DEF SetsOf

LEMMA SetsApart ==
  ASSUME NEW A, NEW a, a \notin A
  PROVE  SetsOf(A) \intersect SetsOf({a}) = {}
  BY DEF SetsOf

\* The totals the file may hold
LEMMA CapSetsCounted ==
  /\ IsFiniteSet(CapSet)
  /\ \A S \in SUBSET CapSet : Cardinality(S) \in 0 .. Cardinality(CapSet)
  /\ Size[Base] \in 0 .. Cardinality(CapSet)
  <1> DEFINE Apps == Child \union {Base}
             PartOf == [a \in Apps |-> {a} \X (1 .. Size[a])]
             Parts == {{a} \X (1 .. Size[a]) : a \in Apps}
  <1>1. IsFiniteSet(Apps)
    BY ChildAssumption, FS_AddElement
  <1>2. PartOf \in Surjection(Apps, Parts)
    BY DEF Surjection
  <1>3. IsFiniteSet(Parts)
    BY <1>1, <1>2, FS_Surjection DEF ExistsSurjection
  <1>4. \A a \in Apps : IsFiniteSet(1 .. Size[a]) /\ Cardinality(1 .. Size[a]) = Size[a]
    BY ChildAssumption, FS_Interval
  <1>5. \A a \in Apps : /\ IsFiniteSet({a} \X (1 .. Size[a]))
                        /\ Cardinality({a} \X (1 .. Size[a])) = Size[a]
    <2>1. ASSUME NEW a \in Apps
          PROVE /\ IsFiniteSet({a} \X (1 .. Size[a]))
                /\ Cardinality({a} \X (1 .. Size[a])) = Size[a]
      <3>1. IsFiniteSet({a}) /\ Cardinality({a}) = 1
        BY FS_Singleton
      <3>2. /\ IsFiniteSet({a} \X (1 .. Size[a]))
            /\ Cardinality({a} \X (1 .. Size[a])) =
                 Cardinality({a}) * Cardinality(1 .. Size[a])
        BY <1>4, <3>1, FS_Product
      <3>3. Size[a] \in Nat
        BY ChildAssumption
      <3> QED BY <1>4, <3>1, <3>2, <3>3
    <2> QED BY <2>1
  <1>6. IsFiniteSet(CapSet)
    <2>1. \A T \in Parts : IsFiniteSet(T)
      BY <1>5
    <2> QED BY <1>3, <2>1, FS_UNION DEF CapSet, SetsOf
  <1>7. \A S \in SUBSET CapSet : Cardinality(S) \in 0 .. Cardinality(CapSet)
    <2>1. ASSUME NEW S \in SUBSET CapSet
          PROVE  Cardinality(S) \in 0 .. Cardinality(CapSet)
      <3>1. IsFiniteSet(S) /\ Cardinality(S) <= Cardinality(CapSet)
        BY <1>6, FS_Subset
      <3>2. Cardinality(S) \in Nat /\ Cardinality(CapSet) \in Nat
        BY <1>6, <3>1, FS_CardinalityType
      <3> QED BY <3>1, <3>2
    <2> QED BY <2>1
  <1>8. Size[Base] \in 0 .. Cardinality(CapSet)
    <2>1. {Base} \X (1 .. Size[Base]) \in SUBSET CapSet
      BY DEF CapSet, SetsOf
    <2> QED BY <1>5, <1>7, <2>1
  <1> QED BY <1>6, <1>7, <1>8

-----------------------------------------------------------------------------
(***************************************************************************)
(* The invariant is inductive                                              *)
(***************************************************************************)
LEMMA InitHolds == Init => IInv
  <1> SUFFICES ASSUME Init PROVE IInv
    OBVIOUS
  <1>1. SetsOf({Base}) \subseteq CapSet
    BY DEF SetsOf, CapSet
  <1>2. TypeOK
    <2>1. plan \in Seq(Steps)
      BY EmptySeq, Zenon DEF Init
    <2>2. record \in 0 .. Cardinality(CapSet) /\ commands \in 0 .. MaxCommands
      BY CapSetsCounted, ChildAssumption DEF Init
    <2>3. cmd = "none" /\ result = "none"
      BY DEF Init
    <2> QED BY <1>1, <2>1, <2>2, <2>3 DEF Init, TypeOK, GroupState
  <1>3. PlanOK /\ BaseKept
    BY Commands DEF Init, PlanOK, BaseKept, BaseSets
  <1>4. DeploymentOK /\ UndeploymentOK /\ RoleRestored /\ CleanupOK /\ CleanupRepairs
    BY DEF Init, RoleRestored, DeploymentOK, UndeploymentOK, CleanupOK, CleanupRepairs,
           Deploying, Undeploying
  <1> QED BY <1>2, <1>3, <1>4 DEF IInv

USE DEF Succeeds, Fails, Warns, SucceedsOrFails, SucceedsOrWarns, manager, host, sets, job

\* A deployment and an undeployment leave the containers in some state.
LEMMA GroupStates ==
  ASSUME NEW c \in GroupState
  PROVE  /\ AfterFailedDeployment(c) \in SUBSET GroupState
         /\ AfterFailedUndeployment(c) \in SUBSET GroupState
         /\ AfterUndeployment(c) \in SUBSET GroupState
         /\ {AfterDeployment(c)} \in SUBSET GroupState
         /\ {{"absent"}} \in SUBSET GroupState
         /\ "absent" \notin AfterDeployment(c)
         /\ "dead" \in AfterDeployment(c) => "dead" \in c
         /\ c = {"absent"} => AfterDeployment(c) = {"running"}
  <1>1. /\ AfterFailedDeployment(c) \in SUBSET GroupState
        /\ AfterFailedUndeployment(c) \in SUBSET GroupState
    BY DEF AfterFailedDeployment, AfterFailedUndeployment
  <1>2. AfterUndeployment(c) \in SUBSET GroupState
    BY <1>1 DEF AfterUndeployment
  <1>3. /\ {AfterDeployment(c)} \in SUBSET GroupState
        /\ {{"absent"}} \in SUBSET GroupState
        /\ "absent" \notin AfterDeployment(c)
        /\ "dead" \in AfterDeployment(c) => "dead" \in c
    BY DEF AfterDeployment, GroupState
  <1>4. c = {"absent"} => AfterDeployment(c) = {"running"}
    BY DEF AfterDeployment
  <1> QED BY <1>1, <1>2, <1>3, <1>4

LEMMA BecomeTypes ==
  ASSUME TypeOK, child \in Child, NEW outcomes \in SUBSET GroupState, Become(outcomes)
  PROVE  containers' \in [Child -> GroupState] /\ containers'[child] \in outcomes
  <1>1. PICK c \in outcomes : containers' = [containers EXCEPT ![child] = c]
    BY DEF Become
  <1> QED BY <1>1 DEF TypeOK

\* A deployment that does not fail leaves no container out and reports those
\* that were there already; over none at all, every one runs.
LEMMA ContainersDeployed ==
  ASSUME TypeOK, child \in Child, DeployContainers
  PROVE  /\ containers' \in [Child -> GroupState]
         /\ excuse \subseteq excuse' /\ excuse' \subseteq excuse \union {"containers"}
         /\ \/ Fails
            \/ /\ Succeeds
               /\ "absent" \notin containers'[child]
               /\ "dead" \in containers'[child] => "containers" \in excuse'
               /\ containers[child] = {"absent"} =>
                     containers'[child] = {"running"} /\ excuse' = excuse
  <1>1. containers[child] \in GroupState
    BY DEF TypeOK
  <1>2. CASE /\ Become({AfterDeployment(containers[child])})
             /\ excuse' = excuse \union
                             (IF "dead" \in containers[child] THEN {"containers"} ELSE {})
             /\ Succeeds
    <2>1. {AfterDeployment(containers[child])} \in SUBSET GroupState
      BY <1>1, GroupStates
    <2>2. /\ containers' \in [Child -> GroupState]
          /\ containers'[child] = AfterDeployment(containers[child])
      BY <1>2, <2>1, BecomeTypes
    <2>3. /\ "absent" \notin containers'[child]
          /\ "dead" \in containers'[child] => "dead" \in containers[child]
          /\ containers[child] = {"absent"} => containers'[child] = {"running"}
      BY <1>1, <2>2, GroupStates
    <2> QED BY <1>2, <2>2, <2>3
  <1>3. CASE Become(AfterFailedDeployment(containers[child])) /\ Fails /\ UNCHANGED excuse
    BY <1>1, <1>3, GroupStates, BecomeTypes
  <1> QED BY <1>2, <1>3 DEF DeployContainers

LEMMA ContainersRemoved ==
  ASSUME TypeOK, child \in Child, RemoveContainers
  PROVE  /\ containers' \in [Child -> GroupState]
         /\ Fails \/ Warns \/ (Succeeds /\ containers'[child] = {"absent"})
  <1>1. containers[child] \in GroupState
    BY DEF TypeOK
  <1>2. CASE Become({{"absent"}}) /\ Succeeds
    BY <1>1, <1>2, GroupStates, BecomeTypes
  <1>3. CASE Become(AfterUndeployment(containers[child])) /\ Warns
    BY <1>1, <1>3, GroupStates, BecomeTypes
  <1>4. CASE Become(AfterFailedUndeployment(containers[child])) /\ Fails
    BY <1>1, <1>4, GroupStates, BecomeTypes
  <1> QED BY <1>2, <1>3, <1>4 DEF RemoveContainers

LEMMA PlacesOfUndeployment ==
  /\ Length["undeployApplication"] = 10
  /\ UndeployPlace["removeApplication"] = 2 /\ UndeployPlace["detach"] = 5
  /\ UndeployPlace["poll"] = 8 /\ UndeployPlace["attach"] = 9
  BY DEF Length, UndeployPlace

LEMMA ValidateParentApplicationsStep ==
  ASSUME IInv, ValidateParentApplications
  PROVE  IInv'
  <1>1. At("parents") /\ UNCHANGED job
    BY DEF ValidateParentApplications
  <1>2. /\ GoOn => PlanOK' /\ PlanTyped' /\ Left' = Left - 1 /\ result' # "error"
        /\ Return("error") => PlanOK' /\ PlanTyped' /\ Left' = 0 /\ result' = "error"
    BY <1>1, Moves DEF IInv
  <1>3. /\ cmd \in Command /\ child \in Child /\ result = "none" /\ Left \in Nat /\ 1 <= Left
        /\ cmd = "deployApplication" => Left = 13
        /\ cmd = "undeployApplication" => FALSE
        /\ cmd = "cleanup" => Left = 13
        /\ cmd = "skipCapabilitySets" => FALSE
    BY <1>1, Places DEF IInv, DeployPlace, UndeployPlace
  <1>4. faulted \in BOOLEAN /\ attached \subseteq existing
    BY DEF IInv, TypeOK
  <1>5. PlanOK' /\ PlanTyped' /\ Left' \in Nat
    BY <1>1, <1>2, <1>3, Commands DEF ValidateParentApplications, ParentsThere
  <1>6. TypeOK'
    BY <1>1, <1>3, <1>5
       DEF ValidateParentApplications, ParentsThere, IInv, TypeOK, PlanTyped, Excuses
  <1>7. Wanted' = Wanted /\ Pending' = Pending
    BY DEF ValidateParentApplications, Wanted, Pending
  <1>8. BaseKept'
    BY DEF ValidateParentApplications, IInv, BaseKept, BaseSets
  <1>9. OwnSets' = OwnSets /\ BaseSets' = BaseSets
    BY <1>1 DEF OwnSets, BaseSets
  <1>10. DeploymentOK'
    BY <1>1, <1>2, <1>3, <1>4, <1>5, <1>7
       DEF ValidateParentApplications, ParentsThere, IInv, DeploymentOK, Deploying, Past,
           DeployPlace
  <1>11. UndeploymentOK'
    BY <1>1, <1>2, <1>3, <1>4, <1>5
       DEF ValidateParentApplications, ParentsThere, IInv, UndeploymentOK, Undeploying,
           Gone, UndeployPlace, Length
  <1>12. RoleRestored'
    BY <1>1, <1>2, <1>3, <1>4, <1>5, <1>7, <1>9, PlacesOfUndeployment
       DEF ValidateParentApplications, ParentsThere, IInv, RoleRestored, Gone
  <1>13. CleanupOK'
    <2>1. /\ UNCHANGED <<parent, manager, host, sets, record, job, excuse>>
          /\ faulted' \/ UNCHANGED faulted
          /\ (Left' = Left - 1 /\ result' # "error") \/ (Left' = 0 /\ result' = "error")
      BY <1>1, <1>2 DEF ValidateParentApplications
    <2> QED BY <1>3, <1>4, <2>1
            DEF IInv, CleanupOK, Past, DeployPlace, Gone, UndeployPlace, Length
  <1>14. CleanupRepairs'
    BY <1>1, <1>2, <1>3, <1>4, <1>13
       DEF ValidateParentApplications, ParentsThere, CleanupOK, CleanupRepairs
  <1> QED BY <1>5, <1>6, <1>8, <1>10, <1>11, <1>12, <1>13, <1>14 DEF IInv

LEMMA DeployAdditionalSystemStep ==
  ASSUME IInv, DeployAdditionalSystem
  PROVE  IInv'
  <1>1. At("system") /\ UNCHANGED job
    BY DEF DeployAdditionalSystem
  <1>2. /\ GoOn => PlanOK' /\ PlanTyped' /\ Left' = Left - 1 /\ result' # "error"
        /\ Return("error") => PlanOK' /\ PlanTyped' /\ Left' = 0 /\ result' = "error"
    BY <1>1, Moves DEF IInv
  <1>3. /\ cmd \in Command /\ child \in Child /\ result = "none" /\ Left \in Nat /\ 1 <= Left
        /\ cmd = "deployApplication" => Left = 12
        /\ cmd = "undeployApplication" => FALSE
        /\ cmd = "cleanup" => Left = 12
        /\ cmd = "skipCapabilitySets" => FALSE
    BY <1>1, Places DEF IInv, DeployPlace, UndeployPlace
  <1>4. faulted \in BOOLEAN /\ attached \subseteq existing
    BY DEF IInv, TypeOK
  <1>5. PlanOK' /\ PlanTyped' /\ Left' \in Nat
    BY <1>1, <1>2, <1>3, Commands DEF DeployAdditionalSystem, RequiresContainers
  <1>6. TypeOK'
    BY <1>1, <1>3, <1>5
       DEF DeployAdditionalSystem, RequiresContainers, IInv, TypeOK, PlanTyped, Excuses
  <1>7. Wanted' = Wanted /\ Pending' = Pending
    BY DEF DeployAdditionalSystem, Wanted, Pending
  <1>8. BaseKept'
    BY DEF DeployAdditionalSystem, IInv, BaseKept, BaseSets
  <1>9. OwnSets' = OwnSets /\ BaseSets' = BaseSets
    BY <1>1 DEF OwnSets, BaseSets
  <1>10. DeploymentOK'
    BY <1>1, <1>2, <1>3, <1>4, <1>5, <1>7
       DEF DeployAdditionalSystem, RequiresContainers, IInv, DeploymentOK, Deploying,
           Past, DeployPlace
  <1>11. UndeploymentOK'
    BY <1>1, <1>2, <1>3, <1>4, <1>5
       DEF DeployAdditionalSystem, RequiresContainers, IInv, UndeploymentOK, Undeploying,
           Gone, UndeployPlace, Length
  <1>12. RoleRestored'
    BY <1>1, <1>2, <1>3, <1>4, <1>5, <1>7, <1>9, PlacesOfUndeployment
       DEF DeployAdditionalSystem, RequiresContainers, IInv, RoleRestored, Gone
  <1>13. CleanupOK' /\ CleanupRepairs'
    BY <1>1, <1>2, <1>3, <1>4, <1>5
       DEF DeployAdditionalSystem, RequiresContainers, IInv, CleanupOK, CleanupRepairs,
           DeploymentOK, Deploying, Past, DeployPlace, Gone, UndeployPlace, Length
  <1> QED BY <1>5, <1>6, <1>8, <1>10, <1>11, <1>12, <1>13 DEF IInv

LEMMA DeployContainersStep ==
  ASSUME IInv, DeployContainers
  PROVE  IInv'
  <1>1. At("containers") /\ UNCHANGED job
    BY DEF DeployContainers
  <1>2. /\ GoOn => PlanOK' /\ PlanTyped' /\ Left' = Left - 1 /\ result' # "error"
        /\ Return("error") => PlanOK' /\ PlanTyped' /\ Left' = 0 /\ result' = "error"
    BY <1>1, Moves DEF IInv
  <1>3. /\ cmd \in Command /\ child \in Child /\ result = "none" /\ Left \in Nat /\ 1 <= Left
        /\ cmd = "deployApplication" => Left = 11
        /\ cmd = "undeployApplication" => FALSE
        /\ cmd = "cleanup" => Left = 11
        /\ cmd = "skipCapabilitySets" => FALSE
    BY <1>1, Places DEF IInv, DeployPlace, UndeployPlace
  <1>4. faulted \in BOOLEAN /\ attached \subseteq existing
    BY DEF IInv, TypeOK
  <1>14. /\ containers' \in [Child -> GroupState]
         /\ excuse \subseteq excuse' /\ excuse' \subseteq excuse \union {"containers"}
         /\ \/ Fails
            \/ /\ Succeeds
               /\ "absent" \notin containers'[child]
               /\ "dead" \in containers'[child] => "containers" \in excuse'
               /\ containers[child] = {"absent"} =>
                     containers'[child] = {"running"} /\ excuse' = excuse
         /\ UNCHANGED <<parent, manager, system, sets, record, job>>
    BY <1>3, ContainersDeployed DEF IInv, DeployContainers
  <1>5. PlanOK' /\ PlanTyped' /\ Left' \in Nat
    BY <1>1, <1>2, <1>3, <1>14, Commands
  <1>6. TypeOK'
    BY <1>1, <1>3, <1>5, <1>14 DEF IInv, TypeOK, PlanTyped, Excuses
  <1>7. Wanted' = Wanted /\ Pending' = Pending
    BY DEF DeployContainers, Wanted, Pending
  <1>8. BaseKept'
    BY DEF DeployContainers, IInv, BaseKept, BaseSets
  <1>9. OwnSets' = OwnSets /\ BaseSets' = BaseSets
    BY <1>1 DEF OwnSets, BaseSets
  <1>10. DeploymentOK'
    BY <1>1, <1>2, <1>3, <1>4, <1>5, <1>7, <1>14
       DEF IInv, DeploymentOK, Deploying, Past, DeployPlace
  <1>11. UndeploymentOK'
    BY <1>1, <1>2, <1>3, <1>4, <1>5, <1>14
       DEF IInv, UndeploymentOK, Undeploying, Gone, UndeployPlace,
           Length
  <1>12. RoleRestored'
    BY <1>1, <1>2, <1>3, <1>4, <1>5, <1>7, <1>9, PlacesOfUndeployment
       DEF DeployContainers, IInv, RoleRestored, Gone
  <1>13. CleanupOK' /\ CleanupRepairs'
    BY <1>1, <1>2, <1>3, <1>4, <1>5, <1>14
       DEF IInv, CleanupOK, CleanupRepairs, DeploymentOK, Deploying,
           Past, DeployPlace, Gone, UndeployPlace, Length
  <1> QED BY <1>5, <1>6, <1>8, <1>10, <1>11, <1>12, <1>13 DEF IInv

LEMMA CreateApplicationStep ==
  ASSUME IInv, CreateApplication
  PROVE  IInv'
  <1>1. At("application") /\ UNCHANGED job
    BY DEF CreateApplication
  <1>2. /\ GoOn => PlanOK' /\ PlanTyped' /\ Left' = Left - 1 /\ result' # "error"
        /\ Return("error") => PlanOK' /\ PlanTyped' /\ Left' = 0 /\ result' = "error"
    BY <1>1, Moves DEF IInv
  <1>3. SkipApplication =>
           /\ PlanOK' /\ PlanTyped' /\ Left' = Left - 2 /\ result' # "error"
           /\ UNCHANGED <<registered, faulted>>
    BY <1>1, Skips DEF IInv, SkipApplication
  <1>4. /\ cmd \in Command /\ child \in Child /\ result = "none" /\ Left \in Nat /\ 1 <= Left
        /\ cmd = "deployApplication" => Left = 10
        /\ cmd = "undeployApplication" => FALSE
        /\ cmd = "cleanup" => Left = 10
        /\ cmd = "skipCapabilitySets" => FALSE
        /\ cmd \in {"deployApplication", "cleanup"} \/ Left = 2
    BY <1>1, Places DEF IInv, DeployPlace, UndeployPlace
  <1>5. faulted \in BOOLEAN /\ attached \subseteq existing
    BY DEF IInv, TypeOK
  <1>6. PlanOK' /\ PlanTyped' /\ Left' \in Nat
    BY <1>1, <1>2, <1>3, <1>4, Commands DEF CreateApplication
  <1>7. TypeOK'
    BY <1>1, <1>4, <1>6
       DEF CreateApplication, SkipApplication, IInv, TypeOK, PlanTyped, Excuses
  <1>8. Wanted' = Wanted /\ Pending' = Pending
    BY DEF CreateApplication, Wanted, Pending
  <1>9. BaseKept'
    BY DEF CreateApplication, IInv, BaseKept, BaseSets
  <1>10. OwnSets' = OwnSets /\ BaseSets' = BaseSets
    BY <1>1 DEF OwnSets, BaseSets
  <1>11. DeploymentOK'
    BY <1>1, <1>2, <1>3, <1>4, <1>5, <1>6, <1>8
       DEF CreateApplication, IInv, DeploymentOK, Deploying, Past, DeployPlace
  <1>12. UndeploymentOK'
    BY <1>1, <1>2, <1>3, <1>4, <1>5, <1>6
       DEF CreateApplication, IInv, UndeploymentOK, Undeploying, Gone, UndeployPlace,
           Length
  <1>13. RoleRestored'
    BY <1>1, <1>2, <1>3, <1>4, <1>5, <1>6, <1>8, <1>10, PlacesOfUndeployment
       DEF CreateApplication, IInv, RoleRestored, Gone
  <1>14. CleanupOK' /\ CleanupRepairs'
    BY <1>1, <1>2, <1>3, <1>4, <1>5, <1>6
       DEF CreateApplication, IInv, CleanupOK, CleanupRepairs, DeploymentOK, Deploying,
           Past, DeployPlace, Gone, UndeployPlace, Length
  <1> QED BY <1>6, <1>7, <1>9, <1>11, <1>12, <1>13, <1>14 DEF IInv

LEMMA CreateDiscoveryStep ==
  ASSUME IInv, CreateDiscovery
  PROVE  IInv'
  <1>1. At("discovery") /\ UNCHANGED job
    BY DEF CreateDiscovery
  <1>2. /\ GoOn => PlanOK' /\ PlanTyped' /\ Left' = Left - 1 /\ result' # "error"
        /\ Return("error") => PlanOK' /\ PlanTyped' /\ Left' = 0 /\ result' = "error"
    BY <1>1, Moves DEF IInv
  <1>3. /\ cmd \in Command /\ child \in Child /\ result = "none" /\ Left \in Nat /\ 1 <= Left
        /\ cmd = "deployApplication" => Left = 9
        /\ cmd = "undeployApplication" => FALSE
        /\ cmd = "cleanup" => Left = 9
        /\ cmd = "skipCapabilitySets" => FALSE
    BY <1>1, Places DEF IInv, DeployPlace, UndeployPlace
  <1>4. faulted \in BOOLEAN /\ attached \subseteq existing
    BY DEF IInv, TypeOK
  <1>5. PlanOK' /\ PlanTyped' /\ Left' \in Nat
    BY <1>1, <1>2, <1>3, Commands DEF CreateDiscovery
  <1>6. TypeOK'
    BY <1>1, <1>3, <1>5 DEF CreateDiscovery, IInv, TypeOK, PlanTyped, Excuses
  <1>7. Wanted' = Wanted /\ Pending' = Pending
    BY DEF CreateDiscovery, Wanted, Pending
  <1>8. BaseKept'
    BY DEF CreateDiscovery, IInv, BaseKept, BaseSets
  <1>9. OwnSets' = OwnSets /\ BaseSets' = BaseSets
    BY <1>1 DEF OwnSets, BaseSets
  <1>10. DeploymentOK'
    BY <1>1, <1>2, <1>3, <1>4, <1>5, <1>7
       DEF CreateDiscovery, IInv, DeploymentOK, Deploying, Past, DeployPlace
  <1>11. UndeploymentOK'
    BY <1>1, <1>2, <1>3, <1>4, <1>5
       DEF CreateDiscovery, IInv, UndeploymentOK, Undeploying, Gone, UndeployPlace, Length
  <1>12. RoleRestored'
    BY <1>1, <1>2, <1>3, <1>4, <1>5, <1>7, <1>9, PlacesOfUndeployment
       DEF CreateDiscovery, IInv, RoleRestored, Gone
  <1>13. CleanupOK' /\ CleanupRepairs'
    BY <1>1, <1>2, <1>3, <1>4, <1>5
       DEF CreateDiscovery, IInv, CleanupOK, CleanupRepairs, DeploymentOK, Deploying,
           Past, DeployPlace, Gone, UndeployPlace, Length
  <1> QED BY <1>5, <1>6, <1>8, <1>10, <1>11, <1>12, <1>13 DEF IInv

LEMMA CreateTenantEntitlementsStep ==
  ASSUME IInv, CreateTenantEntitlements
  PROVE  IInv'
  <1>1. At("entitle") /\ UNCHANGED job
    BY DEF CreateTenantEntitlements
  <1>2. /\ GoOn => PlanOK' /\ PlanTyped' /\ Left' = Left - 1 /\ result' # "error"
        /\ Return("error") => PlanOK' /\ PlanTyped' /\ Left' = 0 /\ result' = "error"
    BY <1>1, Moves DEF IInv
  <1>3. /\ cmd \in Command /\ child \in Child /\ result = "none" /\ Left \in Nat /\ 1 <= Left
        /\ cmd = "deployApplication" => Left = 8
        /\ cmd = "undeployApplication" => FALSE
        /\ cmd = "cleanup" => Left = 8
        /\ cmd = "skipCapabilitySets" => FALSE
    BY <1>1, Places DEF IInv, DeployPlace, UndeployPlace
  <1>4. faulted \in BOOLEAN /\ attached \subseteq existing
    BY DEF IInv, TypeOK
  <1>5. PlanOK' /\ PlanTyped' /\ Left' \in Nat
    BY <1>1, <1>2, <1>3, Commands DEF CreateTenantEntitlements
  <1>6. TypeOK'
    BY <1>1, <1>3, <1>5 DEF CreateTenantEntitlements, IInv, TypeOK, PlanTyped, Excuses
  <1>7. BaseKept'
    BY DEF CreateTenantEntitlements, IInv, BaseKept, BaseSets
  <1>8. OwnSets' = OwnSets /\ BaseSets' = BaseSets
    BY <1>1 DEF OwnSets, BaseSets
  <1>9. DeploymentOK'
    BY <1>1, <1>2, <1>3, <1>4, <1>5
       DEF CreateTenantEntitlements, IInv, DeploymentOK, Deploying, Past, DeployPlace
  <1>10. UndeploymentOK'
    BY <1>1, <1>2, <1>3, <1>4, <1>5
       DEF CreateTenantEntitlements, IInv, UndeploymentOK, Undeploying, Gone,
           UndeployPlace, Length
  <1>11. RoleRestored'
    BY <1>1, <1>2, <1>3, <1>4, <1>5, <1>8, PlacesOfUndeployment
       DEF CreateTenantEntitlements, IInv, RoleRestored, Gone
  <1>12. CleanupOK' /\ CleanupRepairs'
    BY <1>1, <1>2, <1>3, <1>4, <1>5
       DEF CreateTenantEntitlements, IInv, CleanupOK, CleanupRepairs, DeploymentOK,
           Deploying, Past, DeployPlace, Gone, UndeployPlace, Length
  <1> QED BY <1>5, <1>6, <1>7, <1>9, <1>10, <1>11, <1>12 DEF IInv

LEMMA RemoveTenantEntitlementsStep ==
  ASSUME IInv, RemoveTenantEntitlements
  PROVE  IInv'
  <1> PICK s \in {"removeEntitlement", "removeEntitlementAlone"} : At(s)
    BY DEF RemoveTenantEntitlements
  <1>1. At(s) /\ UNCHANGED job
    BY DEF RemoveTenantEntitlements
  <1>2. /\ GoOn => PlanOK' /\ PlanTyped' /\ Left' = Left - 1 /\ result' # "error"
        /\ Return("error") => PlanOK' /\ PlanTyped' /\ Left' = 0 /\ result' = "error"
    BY <1>1, Moves DEF IInv
  <1>3. /\ cmd \in Command /\ child \in Child /\ result = "none" /\ Left \in Nat /\ 1 <= Left
        /\ cmd = "deployApplication" => FALSE
        /\ cmd = "undeployApplication" => Left = 10
        /\ cmd = "cleanup" => Left = 23
        /\ cmd = "skipCapabilitySets" => Left = 4
        /\ cmd = "cleanup" => At("removeEntitlement")
    BY <1>1, Places DEF IInv, DeployPlace, UndeployPlace
  <1>4. faulted \in BOOLEAN /\ attached \subseteq existing
    BY DEF IInv, TypeOK
  <1>5. PlanOK' /\ PlanTyped' /\ Left' \in Nat
    BY <1>1, <1>2, <1>3, Commands DEF RemoveTenantEntitlements
  <1>6. TypeOK'
    BY <1>1, <1>3, <1>5 DEF RemoveTenantEntitlements, IInv, TypeOK, PlanTyped, Excuses
  <1>7. Wanted' \subseteq Wanted /\ (Pending = {} => Pending' = {})
    <2>1. entitled' \union {Base} \subseteq entitled \union {Base} /\ existing' = existing
      BY DEF RemoveTenantEntitlements
    <2>2. Wanted' \subseteq Wanted
      BY <2>1, SetsMonotone DEF Wanted
    <2> QED BY <2>1, <2>2 DEF Pending
  <1>8. BaseKept'
    BY DEF RemoveTenantEntitlements, IInv, BaseKept, BaseSets
  <1>9. OwnSets' = OwnSets /\ BaseSets' = BaseSets
    BY <1>1 DEF OwnSets, BaseSets
  <1>10. DeploymentOK'
    BY <1>1, <1>2, <1>3, <1>4, <1>5, <1>7
       DEF RemoveTenantEntitlements, IInv, DeploymentOK, Deploying, Past, DeployPlace
  <1>11. UndeploymentOK'
    BY <1>1, <1>2, <1>3, <1>4, <1>5
       DEF RemoveTenantEntitlements, IInv, UndeploymentOK, Undeploying, Gone,
           UndeployPlace, Length
  <1>12. RoleRestored'
    BY <1>1, <1>2, <1>3, <1>4, <1>5, <1>7, <1>9, PlacesOfUndeployment
       DEF RemoveTenantEntitlements, IInv, RoleRestored, Gone
  <1>13. CleanupOK' /\ CleanupRepairs'
    BY <1>1, <1>2, <1>3, <1>4, <1>5
       DEF RemoveTenantEntitlements, IInv, CleanupOK, CleanupRepairs, DeploymentOK,
           Deploying, Past, DeployPlace, Gone, UndeployPlace, Length
  <1> QED BY <1>5, <1>6, <1>8, <1>10, <1>11, <1>12, <1>13 DEF IInv

LEMMA RemoveApplicationStep ==
  ASSUME IInv, RemoveApplication
  PROVE  IInv'
  <1>1. At("removeApplication") /\ UNCHANGED job
    BY DEF RemoveApplication
  <1>2. /\ GoOn => PlanOK' /\ PlanTyped' /\ Left' = Left - 1 /\ result' # "error"
        /\ Return("error") => PlanOK' /\ PlanTyped' /\ Left' = 0 /\ result' = "error"
    BY <1>1, Moves DEF IInv
  <1>3. /\ cmd \in Command /\ child \in Child /\ result = "none" /\ Left \in Nat /\ 1 <= Left
        /\ cmd = "deployApplication" => FALSE
        /\ cmd = "undeployApplication" => Left = 9
        /\ cmd = "cleanup" => Left = 22
        /\ cmd = "skipCapabilitySets" => Left = 3
    BY <1>1, Places DEF IInv, DeployPlace, UndeployPlace
  <1>4. faulted \in BOOLEAN /\ attached \subseteq existing
    BY DEF IInv, TypeOK
  <1>5. PlanOK' /\ PlanTyped' /\ Left' \in Nat
    BY <1>1, <1>2, <1>3, Commands DEF RemoveApplication
  <1>6. TypeOK'
    BY <1>1, <1>3, <1>5 DEF RemoveApplication, IInv, TypeOK, PlanTyped, Excuses
  <1>7. Wanted' = Wanted /\ Pending' = Pending
    BY DEF RemoveApplication, Wanted, Pending
  <1>8. BaseKept'
    BY DEF RemoveApplication, IInv, BaseKept, BaseSets
  <1>9. OwnSets' = OwnSets /\ BaseSets' = BaseSets
    BY <1>1 DEF OwnSets, BaseSets
  <1>10. DeploymentOK'
    BY <1>1, <1>2, <1>3, <1>4, <1>5, <1>7
       DEF RemoveApplication, IInv, DeploymentOK, Deploying, Past, DeployPlace
  <1>11. UndeploymentOK'
    BY <1>1, <1>2, <1>3, <1>4, <1>5
       DEF RemoveApplication, IInv, UndeploymentOK, Undeploying, Gone, UndeployPlace,
           Length
  <1>12. RoleRestored'
    BY <1>1, <1>2, <1>3, <1>4, <1>5, <1>7, <1>9, PlacesOfUndeployment
       DEF RemoveApplication, IInv, RoleRestored, Gone
  <1>13. CleanupOK' /\ CleanupRepairs'
    BY <1>1, <1>2, <1>3, <1>4, <1>5
       DEF RemoveApplication, IInv, CleanupOK, CleanupRepairs, DeploymentOK, Deploying,
           Past, DeployPlace, Gone, UndeployPlace, Length
  <1> QED BY <1>5, <1>6, <1>8, <1>10, <1>11, <1>12, <1>13 DEF IInv

LEMMA RemoveContainersStep ==
  ASSUME IInv, RemoveContainers
  PROVE  IInv'
  <1>1. At("removeContainers") /\ UNCHANGED job
    BY DEF RemoveContainers
  <1>2. /\ GoOn => PlanOK' /\ PlanTyped' /\ Left' = Left - 1 /\ result' # "error"
        /\ Return("error") => PlanOK' /\ PlanTyped' /\ Left' = 0 /\ result' = "error"
    BY <1>1, Moves DEF IInv
  <1>3. /\ cmd \in Command /\ child \in Child /\ result = "none" /\ Left \in Nat /\ 1 <= Left
        /\ cmd = "deployApplication" => FALSE
        /\ cmd = "undeployApplication" => Left = 8
        /\ cmd = "cleanup" => Left = 21
        /\ cmd = "skipCapabilitySets" => Left = 2
    BY <1>1, Places DEF IInv, DeployPlace, UndeployPlace
  <1>4. faulted \in BOOLEAN /\ attached \subseteq existing
    BY DEF IInv, TypeOK
  <1>14. /\ containers' \in [Child -> GroupState]
         /\ Fails \/ Warns \/ (Succeeds /\ containers'[child] = {"absent"})
         /\ UNCHANGED <<parent, manager, system, sets, record, job, excuse>>
    BY <1>3, ContainersRemoved DEF IInv, RemoveContainers
  <1>5. PlanOK' /\ PlanTyped' /\ Left' \in Nat
    BY <1>1, <1>2, <1>3, <1>14, Commands
  <1>6. TypeOK'
    BY <1>1, <1>3, <1>5, <1>14 DEF IInv, TypeOK, PlanTyped, Excuses
  <1>7. Wanted' = Wanted /\ Pending' = Pending
    BY DEF RemoveContainers, Wanted, Pending
  <1>8. BaseKept'
    BY DEF RemoveContainers, IInv, BaseKept, BaseSets
  <1>9. OwnSets' = OwnSets /\ BaseSets' = BaseSets
    BY <1>1 DEF OwnSets, BaseSets
  <1>10. DeploymentOK'
    BY <1>1, <1>2, <1>3, <1>4, <1>5, <1>7, <1>14
       DEF IInv, DeploymentOK, Deploying, Past, DeployPlace
  <1>11. UndeploymentOK'
    BY <1>1, <1>2, <1>3, <1>4, <1>5, <1>14
       DEF IInv, UndeploymentOK, Undeploying, Gone, UndeployPlace,
           Length
  <1>12. RoleRestored'
    BY <1>1, <1>2, <1>3, <1>4, <1>5, <1>7, <1>9, PlacesOfUndeployment
       DEF RemoveContainers, IInv, RoleRestored, Gone
  <1>13. CleanupOK' /\ CleanupRepairs'
    BY <1>1, <1>2, <1>3, <1>4, <1>5, <1>14
       DEF IInv, CleanupOK, CleanupRepairs, DeploymentOK, Deploying,
           Past, DeployPlace, Gone, UndeployPlace, Length
  <1> QED BY <1>5, <1>6, <1>8, <1>10, <1>11, <1>12, <1>13 DEF IInv

LEMMA UndeployAdditionalSystemStep ==
  ASSUME IInv, UndeployAdditionalSystem
  PROVE  IInv'
  <1>1. At("removeSystem") /\ UNCHANGED job
    BY DEF UndeployAdditionalSystem
  <1>2. /\ GoOn => PlanOK' /\ PlanTyped' /\ Left' = Left - 1 /\ result' # "error"
        /\ Return("error") => PlanOK' /\ PlanTyped' /\ Left' = 0 /\ result' = "error"
    BY <1>1, Moves DEF IInv
  <1>3. /\ cmd \in Command /\ child \in Child /\ result = "none" /\ Left \in Nat /\ 1 <= Left
        /\ cmd = "deployApplication" => FALSE
        /\ cmd = "undeployApplication" => Left = 7
        /\ cmd = "cleanup" => Left = 20
        /\ cmd = "skipCapabilitySets" => Left = 1
    BY <1>1, Places DEF IInv, DeployPlace, UndeployPlace
  <1>4. faulted \in BOOLEAN /\ attached \subseteq existing /\ system \subseteq Additional
    BY DEF IInv, TypeOK
  <1>5. PlanOK' /\ PlanTyped' /\ Left' \in Nat
    BY <1>1, <1>2, <1>3, Commands DEF UndeployAdditionalSystem, RequiresContainers
  <1>6. TypeOK'
    BY <1>1, <1>3, <1>5
       DEF UndeployAdditionalSystem, RequiresContainers, IInv, TypeOK, PlanTyped, Excuses
  <1>7. Wanted' = Wanted /\ Pending' = Pending
    BY DEF UndeployAdditionalSystem, Wanted, Pending
  <1>8. BaseKept'
    BY DEF UndeployAdditionalSystem, IInv, BaseKept, BaseSets
  <1>9. OwnSets' = OwnSets /\ BaseSets' = BaseSets
    BY <1>1 DEF OwnSets, BaseSets
  <1>10. DeploymentOK'
    BY <1>1, <1>2, <1>3, <1>4, <1>5, <1>7
       DEF UndeployAdditionalSystem, RequiresContainers, IInv, DeploymentOK, Deploying,
           Past, DeployPlace
  <1>11. UndeploymentOK'
    BY <1>1, <1>2, <1>3, <1>4, <1>5
       DEF UndeployAdditionalSystem, RequiresContainers, IInv, UndeploymentOK,
           Undeploying, Gone, UndeployPlace, Length
  <1>12. RoleRestored'
    BY <1>1, <1>2, <1>3, <1>4, <1>5, <1>7, <1>9, PlacesOfUndeployment
       DEF UndeployAdditionalSystem, RequiresContainers, IInv, RoleRestored, Gone
  <1>13. CleanupOK' /\ CleanupRepairs'
    BY <1>1, <1>2, <1>3, <1>4, <1>5
       DEF UndeployAdditionalSystem, RequiresContainers, IInv, CleanupOK, CleanupRepairs,
           DeploymentOK, Deploying, Past, DeployPlace, Gone, UndeployPlace, Length
  <1> QED BY <1>5, <1>6, <1>8, <1>10, <1>11, <1>12, <1>13 DEF IInv

LEMMA DetachCapabilitySetsStep ==
  ASSUME IInv, DetachCapabilitySets
  PROVE  IInv'
  <1>1. At("detach") /\ UNCHANGED job
    BY DEF DetachCapabilitySets
  <1>2. /\ GoOn => PlanOK' /\ PlanTyped' /\ Left' = Left - 1 /\ result' # "error"
        /\ Return("error") => PlanOK' /\ PlanTyped' /\ Left' = 0 /\ result' = "error"
    BY <1>1, Moves DEF IInv
  <1>3. /\ cmd \in Command /\ child \in Child /\ result = "none" /\ Left \in Nat /\ 1 <= Left
        /\ cmd = "deployApplication" => Left = 7
        /\ cmd = "undeployApplication" => Left = 6
        /\ cmd = "cleanup" => Left = 7 \/ Left = 19
        /\ cmd = "skipCapabilitySets" => FALSE
    BY <1>1, Places DEF IInv, DeployPlace, UndeployPlace
  <1>4. faulted \in BOOLEAN /\ attached \subseteq existing
    BY DEF IInv, TypeOK
  <1>5. PlanOK' /\ PlanTyped' /\ Left' \in Nat
    BY <1>1, <1>2, <1>3, Commands DEF DetachCapabilitySets
  <1>6. TypeOK'
    BY <1>1, <1>3, <1>5 DEF DetachCapabilitySets, IInv, TypeOK, PlanTyped, Excuses
  <1>7. Wanted' = Wanted /\ Pending' = Pending
    BY DEF DetachCapabilitySets, Wanted, Pending
  <1>8. BaseKept'
    BY DEF DetachCapabilitySets, IInv, BaseKept, BaseSets
  <1>9. OwnSets' = OwnSets /\ BaseSets' = BaseSets
    BY <1>1 DEF OwnSets, BaseSets
  <1>10. DeploymentOK'
    BY <1>1, <1>2, <1>3, <1>4, <1>5, <1>7
       DEF DetachCapabilitySets, IInv, DeploymentOK, Deploying, Past, DeployPlace
  <1>11. UndeploymentOK'
    BY <1>1, <1>2, <1>3, <1>4, <1>5
       DEF DetachCapabilitySets, IInv, UndeploymentOK, Undeploying, Gone, UndeployPlace,
           Length
  <1>12. RoleRestored'
    BY <1>1, <1>2, <1>3, <1>4, <1>5, <1>7, <1>9, PlacesOfUndeployment
       DEF DetachCapabilitySets, IInv, RoleRestored, Gone
  <1>13. CleanupOK' /\ CleanupRepairs'
    BY <1>1, <1>2, <1>3, <1>4, <1>5
       DEF DetachCapabilitySets, IInv, CleanupOK, CleanupRepairs, DeploymentOK, Deploying,
           Past, DeployPlace, Gone, UndeployPlace, Length
  <1> QED BY <1>5, <1>6, <1>8, <1>10, <1>11, <1>12, <1>13 DEF IInv

LEMMA SetTokensStep ==
  ASSUME IInv, SetTokens
  PROVE  IInv'
  <1>1. At("tokens") /\ UNCHANGED job
    BY DEF SetTokens
  <1>2. /\ GoOn => PlanOK' /\ PlanTyped' /\ Left' = Left - 1 /\ result' # "error"
        /\ Return("error") => PlanOK' /\ PlanTyped' /\ Left' = 0 /\ result' = "error"
    BY <1>1, Moves DEF IInv
  <1>3. /\ cmd \in Command /\ child \in Child /\ result = "none" /\ Left \in Nat /\ 1 <= Left
        /\ cmd = "deployApplication" => Left = 6
        /\ cmd = "undeployApplication" => Left = 5
        /\ cmd = "cleanup" => Left = 6 \/ Left = 18
        /\ cmd = "skipCapabilitySets" => FALSE
    BY <1>1, Places DEF IInv, DeployPlace, UndeployPlace
  <1>4. faulted \in BOOLEAN /\ attached \subseteq existing
    BY DEF IInv, TypeOK
  <1>5. PlanOK' /\ PlanTyped' /\ Left' \in Nat
    BY <1>1, <1>2, <1>3, Commands DEF SetTokens
  <1>6. TypeOK'
    BY <1>1, <1>3, <1>5 DEF SetTokens, IInv, TypeOK, PlanTyped, Excuses
  <1>7. Wanted' = Wanted /\ Pending' = Pending
    BY DEF SetTokens, Wanted, Pending
  <1>8. BaseKept'
    BY DEF SetTokens, IInv, BaseKept, BaseSets
  <1>9. OwnSets' = OwnSets /\ BaseSets' = BaseSets
    BY <1>1 DEF OwnSets, BaseSets
  <1>10. DeploymentOK'
    BY <1>1, <1>2, <1>3, <1>4, <1>5, <1>7
       DEF SetTokens, IInv, DeploymentOK, Deploying, Past, DeployPlace
  <1>11. UndeploymentOK'
    BY <1>1, <1>2, <1>3, <1>4, <1>5
       DEF SetTokens, IInv, UndeploymentOK, Undeploying, Gone, UndeployPlace, Length
  <1>12. RoleRestored'
    BY <1>1, <1>2, <1>3, <1>4, <1>5, <1>7, <1>9, PlacesOfUndeployment
       DEF SetTokens, IInv, RoleRestored, Gone
  <1>13. CleanupOK' /\ CleanupRepairs'
    BY <1>1, <1>2, <1>3, <1>4, <1>5
       DEF SetTokens, IInv, CleanupOK, CleanupRepairs, DeploymentOK, Deploying, Past,
           DeployPlace, Gone, UndeployPlace, Length
  <1> QED BY <1>5, <1>6, <1>8, <1>10, <1>11, <1>12, <1>13 DEF IInv

LEMMA RemoveRecordStep ==
  ASSUME IInv, RemoveRecord
  PROVE  IInv'
  <1>1. At("refresh") /\ UNCHANGED job
    BY DEF RemoveRecord
  <1>2. /\ GoOn => PlanOK' /\ PlanTyped' /\ Left' = Left - 1 /\ result' # "error"
        /\ Return("error") => PlanOK' /\ PlanTyped' /\ Left' = 0 /\ result' = "error"
    BY <1>1, Moves DEF IInv
  <1>3. /\ cmd \in Command /\ child \in Child /\ result = "none" /\ Left \in Nat /\ 1 <= Left
        /\ cmd = "deployApplication" => Left = 5
        /\ cmd = "undeployApplication" => FALSE
        /\ cmd = "cleanup" => Left = 5
        /\ cmd = "skipCapabilitySets" => FALSE
    BY <1>1, Places DEF IInv, DeployPlace, UndeployPlace
  <1>4. faulted \in BOOLEAN /\ attached \subseteq existing
    BY DEF IInv, TypeOK
  <1>5. PlanOK' /\ PlanTyped' /\ Left' \in Nat
    BY <1>1, <1>2, <1>3, Commands DEF RemoveRecord
  <1>6. 0 \in 0 .. Cardinality(CapSet)
    BY CapSetsCounted
  <1>7. TypeOK'
    BY <1>1, <1>3, <1>5, <1>6 DEF RemoveRecord, IInv, TypeOK, PlanTyped, Excuses
  <1>8. Wanted' = Wanted /\ Pending' = Pending
    BY DEF RemoveRecord, Wanted, Pending
  <1>9. BaseKept'
    BY DEF RemoveRecord, IInv, BaseKept, BaseSets
  <1>10. OwnSets' = OwnSets /\ BaseSets' = BaseSets
    BY <1>1 DEF OwnSets, BaseSets
  <1>11. DeploymentOK'
    BY <1>1, <1>2, <1>3, <1>4, <1>5, <1>8
       DEF RemoveRecord, IInv, DeploymentOK, Deploying, Past, DeployPlace
  <1>12. UndeploymentOK'
    BY <1>1, <1>2, <1>3, <1>4, <1>5
       DEF RemoveRecord, IInv, UndeploymentOK, Undeploying, Gone, UndeployPlace, Length
  <1>13. RoleRestored'
    BY <1>1, <1>2, <1>3, <1>4, <1>5, <1>8, <1>10, PlacesOfUndeployment
       DEF RemoveRecord, IInv, RoleRestored, Gone
  <1>14. CleanupOK' /\ CleanupRepairs'
    BY <1>1, <1>2, <1>3, <1>4, <1>5
       DEF RemoveRecord, IInv, CleanupOK, CleanupRepairs, DeploymentOK, Deploying, Past,
           DeployPlace, Gone, UndeployPlace, Length
  <1> QED BY <1>5, <1>7, <1>9, <1>11, <1>12, <1>13, <1>14 DEF IInv

LEMMA ReadRecordStep ==
  ASSUME IInv, ReadRecord
  PROVE  IInv'
  <1>1. At("record") /\ UNCHANGED job
    BY DEF ReadRecord
  <1>2. /\ GoOn => PlanOK' /\ PlanTyped' /\ Left' = Left - 1 /\ result' # "error"
        /\ Return("error") => PlanOK' /\ PlanTyped' /\ Left' = 0 /\ result' = "error"
    BY <1>1, Moves DEF IInv
  <1>3. plan' = Tail(Tail(plan)) /\ UNCHANGED result =>
           PlanOK' /\ PlanTyped' /\ Left' = Left - 2 /\ result' # "error"
    BY <1>1, Skips DEF IInv
  <1>4. /\ cmd \in Command /\ child \in Child /\ result = "none" /\ Left \in Nat /\ 1 <= Left
        /\ cmd = "deployApplication" => Left = 4
        /\ cmd = "undeployApplication" => Left = 4
        /\ cmd = "cleanup" => Left = 4 \/ Left = 17
        /\ cmd = "skipCapabilitySets" => FALSE
        /\ cmd \in {"deployApplication", "cleanup", "undeployApplication"} \/ Left = 4
    BY <1>1, Places DEF IInv, DeployPlace, UndeployPlace
  <1>5. faulted \in BOOLEAN /\ attached \subseteq existing
    BY DEF IInv, TypeOK
  <1>6. PlanOK' /\ PlanTyped' /\ Left' \in Nat
    BY <1>1, <1>2, <1>3, <1>4, Commands DEF ReadRecord
  <1>7. TypeOK'
    BY <1>1, <1>4, <1>6 DEF ReadRecord, IInv, TypeOK, PlanTyped, Excuses
  <1>8. Wanted' = Wanted /\ Pending' = Pending
    BY DEF ReadRecord, Wanted, Pending
  <1>9. BaseKept'
    BY DEF ReadRecord, IInv, BaseKept, BaseSets
  <1>10. OwnSets' = OwnSets /\ BaseSets' = BaseSets
    BY <1>1 DEF OwnSets, BaseSets
  <1>11. DeploymentOK'
    BY <1>1, <1>2, <1>3, <1>4, <1>5, <1>6, <1>8
       DEF ReadRecord, IInv, DeploymentOK, Deploying, Past, DeployPlace
  <1>12. UndeploymentOK'
    BY <1>1, <1>2, <1>3, <1>4, <1>5, <1>6
       DEF ReadRecord, IInv, UndeploymentOK, Undeploying, Gone, UndeployPlace, Length
  <1>13. RoleRestored'
    BY <1>1, <1>2, <1>3, <1>4, <1>5, <1>6, <1>8, <1>10, PlacesOfUndeployment
       DEF ReadRecord, IInv, RoleRestored, Gone
  <1>14. CleanupOK' /\ CleanupRepairs'
    BY <1>1, <1>2, <1>3, <1>4, <1>5, <1>6
       DEF ReadRecord, IInv, CleanupOK, CleanupRepairs, DeploymentOK, Deploying, Past,
           DeployPlace, Gone, UndeployPlace, Length
  <1> QED BY <1>6, <1>7, <1>9, <1>11, <1>12, <1>13, <1>14 DEF IInv

LEMMA PollConsumerGroupStep ==
  ASSUME IInv, PollConsumerGroup
  PROVE  IInv'
  <1>1. At("poll") /\ UNCHANGED job
    BY DEF PollConsumerGroup
  <1>2. /\ GoOn => PlanOK' /\ PlanTyped' /\ Left' = Left - 1 /\ result' # "error"
        /\ Return("error") => PlanOK' /\ PlanTyped' /\ Left' = 0 /\ result' = "error"
    BY <1>1, Moves DEF IInv
  <1>3. /\ cmd \in Command /\ child \in Child /\ result = "none" /\ Left \in Nat /\ 1 <= Left
        /\ cmd = "deployApplication" => Left = 3
        /\ cmd = "undeployApplication" => Left = 3
        /\ cmd = "cleanup" => Left = 3 \/ Left = 16
        /\ cmd = "skipCapabilitySets" => FALSE
    BY <1>1, Places DEF IInv, DeployPlace, UndeployPlace
  <1>4. faulted \in BOOLEAN /\ attached \subseteq existing
    BY DEF IInv, TypeOK
  <1>5. PlanOK' /\ PlanTyped' /\ Left' \in Nat
    BY <1>1, <1>2, <1>3, Commands DEF PollConsumerGroup
  <1>6. TypeOK'
    BY <1>1, <1>3, <1>5 DEF PollConsumerGroup, IInv, TypeOK, PlanTyped, Excuses
  <1>7. Wanted' = Wanted /\ Pending' = Pending
    BY DEF PollConsumerGroup, Wanted, Pending
  <1>8. BaseKept'
    BY DEF PollConsumerGroup, IInv, BaseKept, BaseSets
  <1>9. OwnSets' = OwnSets /\ BaseSets' = BaseSets
    BY <1>1 DEF OwnSets, BaseSets
  <1>10. DeploymentOK'
    BY <1>1, <1>2, <1>3, <1>4, <1>5, <1>7
       DEF PollConsumerGroup, IInv, DeploymentOK, Deploying, Past, DeployPlace
  <1>11. UndeploymentOK'
    BY <1>1, <1>2, <1>3, <1>4, <1>5
       DEF PollConsumerGroup, IInv, UndeploymentOK, Undeploying, Gone, UndeployPlace,
           Length
  <1>12. RoleRestored'
    BY <1>1, <1>2, <1>3, <1>4, <1>5, <1>7, <1>9, PlacesOfUndeployment
       DEF PollConsumerGroup, IInv, RoleRestored, Gone
  <1>13. CleanupOK' /\ CleanupRepairs'
    BY <1>1, <1>2, <1>3, <1>4, <1>5
       DEF PollConsumerGroup, IInv, CleanupOK, CleanupRepairs, DeploymentOK, Deploying,
           Past, DeployPlace, Gone, UndeployPlace, Length
  <1> QED BY <1>5, <1>6, <1>8, <1>10, <1>11, <1>12, <1>13 DEF IInv

LEMMA AttachStep ==
  ASSUME IInv, Attach
  PROVE  IInv'
  <1>1. At("attach") /\ UNCHANGED job
    BY DEF Attach
  <1>2. /\ GoOn => PlanOK' /\ PlanTyped' /\ Left' = Left - 1 /\ result' # "error"
        /\ Return("error") => PlanOK' /\ PlanTyped' /\ Left' = 0 /\ result' = "error"
    BY <1>1, Moves DEF IInv
  <1>3. /\ cmd \in Command /\ child \in Child /\ result = "none" /\ Left \in Nat /\ 1 <= Left
        /\ cmd = "deployApplication" => Left = 2
        /\ cmd = "undeployApplication" => Left = 2
        /\ cmd = "cleanup" => Left = 2 \/ Left = 15
        /\ cmd = "skipCapabilitySets" => FALSE
    BY <1>1, Places DEF IInv, DeployPlace, UndeployPlace
  <1>4. faulted \in BOOLEAN /\ attached \subseteq existing
    BY DEF IInv, TypeOK
  <1>5. PlanOK' /\ PlanTyped' /\ Left' \in Nat
    BY <1>1, <1>2, <1>3, Commands DEF Attach
  <1>6. Listed \subseteq existing
    BY DEF Listed
  <1>7. TypeOK'
    BY <1>1, <1>3, <1>5, <1>6 DEF Attach, IInv, TypeOK, PlanTyped, Excuses
  <1>8. Wanted' = Wanted /\ Pending' = Pending
    BY DEF Attach, Wanted, Pending
  <1>9. BaseKept'
    BY DEF Attach, IInv, BaseKept, BaseSets
  <1>10. /\ Pending = {} => Wanted \subseteq Listed
         /\ BaseSets \subseteq Listed
         /\ child \notin registered => Listed \intersect OwnSets = {}
    <2>1. /\ entitled \union {Base} \subseteq registered \union {Base}
          /\ {Base} \subseteq registered \union {Base}
      BY DEF IInv, TypeOK
    <2>2. /\ Wanted \subseteq SetsOf(registered \union {Base})
          /\ BaseSets \subseteq SetsOf(registered \union {Base})
      BY <2>1, SetsMonotone DEF Wanted, BaseSets
    <2>3. child \notin registered => child \notin registered \union {Base}
      BY <1>3, ChildAssumption
    <2>4. child \notin registered => SetsOf(registered \union {Base}) \intersect OwnSets = {}
      BY <2>3, SetsApart DEF OwnSets
    <2> QED BY <2>2, <2>4 DEF Listed, Pending, IInv, BaseKept
  <1>11. OwnSets' = OwnSets /\ BaseSets' = BaseSets
    BY <1>1 DEF OwnSets, BaseSets
  <1>12. DeploymentOK'
    BY <1>1, <1>2, <1>3, <1>4, <1>5, <1>8, <1>10
       DEF Attach, IInv, DeploymentOK, Deploying, Past, DeployPlace
  <1>13. UndeploymentOK'
    BY <1>1, <1>2, <1>3, <1>4, <1>5
       DEF Attach, IInv, UndeploymentOK, Undeploying, Gone, UndeployPlace, Length
  <1>14. RoleRestored'
    BY <1>1, <1>2, <1>3, <1>4, <1>5, <1>8, <1>10, <1>11, PlacesOfUndeployment
       DEF Attach, IInv, RoleRestored, UndeploymentOK, Undeploying, Gone
  <1>15. CleanupOK' /\ CleanupRepairs'
    BY <1>1, <1>2, <1>3, <1>4, <1>5
       DEF Attach, IInv, CleanupOK, CleanupRepairs, DeploymentOK, Deploying, Past,
           DeployPlace, Gone, UndeployPlace, Length
  <1> QED BY <1>5, <1>7, <1>9, <1>12, <1>13, <1>14, <1>15 DEF IInv

LEMMA WriteRecordStep ==
  ASSUME IInv, WriteRecord
  PROVE  IInv'
  <1>1. At("count") /\ UNCHANGED job
    BY DEF WriteRecord
  <1>2. /\ GoOn => PlanOK' /\ PlanTyped' /\ Left' = Left - 1 /\ result' # "error"
        /\ Return("error") => PlanOK' /\ PlanTyped' /\ Left' = 0 /\ result' = "error"
    BY <1>1, Moves DEF IInv
  <1>3. /\ cmd \in Command /\ child \in Child /\ result = "none" /\ Left \in Nat /\ 1 <= Left
        /\ cmd = "deployApplication" => Left = 1
        /\ cmd = "undeployApplication" => Left = 1
        /\ cmd = "cleanup" => Left = 1 \/ Left = 14
        /\ cmd = "skipCapabilitySets" => FALSE
    BY <1>1, Places DEF IInv, DeployPlace, UndeployPlace
  <1>4. faulted \in BOOLEAN /\ attached \subseteq existing
    BY DEF IInv, TypeOK
  <1>5. PlanOK' /\ PlanTyped' /\ Left' \in Nat
    BY <1>1, <1>2, <1>3, Commands DEF WriteRecord
  <1>6. CountCapabilitySets \in 0 .. Cardinality(CapSet)
    BY CapSetsCounted DEF CountCapabilitySets, Listed, IInv, TypeOK
  <1>7. TypeOK'
    BY <1>1, <1>3, <1>5, <1>6 DEF WriteRecord, IInv, TypeOK, PlanTyped, Excuses
  <1>8. Wanted' = Wanted /\ Pending' = Pending
    BY DEF WriteRecord, Wanted, Pending
  <1>9. BaseKept'
    BY DEF WriteRecord, IInv, BaseKept, BaseSets
  <1>10. OwnSets' = OwnSets /\ BaseSets' = BaseSets
    BY <1>1 DEF OwnSets, BaseSets
  <1>11. DeploymentOK'
    BY <1>1, <1>2, <1>3, <1>4, <1>5, <1>8
       DEF WriteRecord, IInv, DeploymentOK, Deploying, Past, DeployPlace
  <1>12. UndeploymentOK'
    BY <1>1, <1>2, <1>3, <1>4, <1>5
       DEF WriteRecord, IInv, UndeploymentOK, Undeploying, Gone, UndeployPlace, Length
  <1>13. RoleRestored'
    BY <1>1, <1>2, <1>3, <1>4, <1>5, <1>8, <1>10, PlacesOfUndeployment
       DEF WriteRecord, IInv, RoleRestored, Gone
  <1>14. CleanupOK' /\ CleanupRepairs'
    BY <1>1, <1>2, <1>3, <1>4, <1>5
       DEF WriteRecord, IInv, CleanupOK, CleanupRepairs, DeploymentOK, Deploying, Past,
           DeployPlace, Gone, UndeployPlace, Length
  <1> QED BY <1>5, <1>7, <1>9, <1>11, <1>12, <1>13, <1>14 DEF IInv

LEMMA StartStep ==
  ASSUME IInv, NEW c \in Command, NEW a \in Child, Start(c, a)
  PROVE  IInv'
  <1>1. /\ cmd' = c /\ child' = a /\ plan' = Plan[c]
        /\ c # "none" /\ commands' \in 0 .. MaxCommands
        /\ result' = "none" /\ faulted' = faulted /\ excuse' = excuse
    BY ChildAssumption, Commands DEF Start, IInv, TypeOK
  <1>2. /\ Plan[c] \in Seq(Steps) /\ Len(Plan[c]) = Length[c]
        /\ Length[c] \in Nat /\ 0 < Length[c]
    BY Plans
  <1>3. plan' \in Seq(Steps) /\ plan' # <<>> /\ Left' = Length[c]
    <2>1. plan' \in Seq(Steps) /\ Len(plan') = Length[c] /\ Len(plan') > 0
      <3>1. Length[c] > 0
        BY <1>2
      <3> QED BY <1>1, <1>2, <3>1, Zenon
    <2>2. plan' # <<>>
      BY <2>1, NonEmpty, Zenon
    <2> QED BY <2>1, <2>2 DEF Left
  <1>4. TypeOK'
    BY <1>1, <1>3 DEF Start, IInv, TypeOK, manager, host, sets
  <1>5. PlanOK'
    <2>1. \A i \in 1 .. Len(plan') : plan'[i] = Plan[c][(Length[c] - Len(plan')) + i]
      <3>1. TAKE i \in 1 .. Len(plan')
      <3>2. Len(plan') = Length[c]
        BY <1>1, <1>2
      <3>3. (Length[c] - Len(plan')) + i = i
        BY <1>2, <1>3, <3>2
      <3> QED BY <1>1, <3>3, Zenon
    <2>2. Len(plan') <= Length[c]
      BY <1>1, <1>2
    <2> QED BY <1>1, <2>1, <2>2 DEF PlanOK
  <1>6. BaseKept'
    BY DEF Start, IInv, BaseKept, BaseSets, SetsOf, sets
  <1>7. excuse = {}
    BY DEF Start, IInv, PlanOK
  <1>8. DeploymentOK' /\ UndeploymentOK' /\ RoleRestored' /\ CleanupOK' /\ CleanupRepairs'
    BY <1>1, <1>2, <1>3, <1>7
       DEF DeploymentOK, UndeploymentOK, RoleRestored, CleanupOK, CleanupRepairs, Deploying,
           Undeploying, Past, Gone, DeployPlace, UndeployPlace, Length
  <1> QED BY <1>4, <1>5, <1>6, <1>8 DEF IInv

\* No command runs, or it ends.
LEMMA OutsideStep ==
  ASSUME IInv, UpgradeBase \/ RedeployBase \/ ProcessEnds
  PROVE  IInv'
  <1>1. /\ cmd' = "none" /\ plan' = <<>> /\ commands' = commands
        /\ result' = "none" /\ excuse' = {}
    <2>1. cmd = "none" => plan = <<>> /\ result = "none" /\ excuse = {}
      BY DEF IInv, TypeOK, PlanOK
    <2> QED BY <2>1 DEF UpgradeBase, RedeployBase, ProcessEnds, job
  <1>2. TypeOK'
    <2>1. BaseSets \subseteq CapSet /\ Size[Base] \in 0 .. Cardinality(CapSet)
      BY CapSetsCounted DEF SetsOf, CapSet, BaseSets
    <2>2. plan' \in Seq(Steps)
      BY <1>1, EmptySeq, Zenon
    <2> QED BY <1>1, <2>1, <2>2, Commands
           DEF IInv, TypeOK, UpgradeBase, RedeployBase, ProcessEnds, job, manager, host,
                sets, BaseSets
  <1>3. PlanOK'
    BY <1>1 DEF PlanOK
  <1>4. BaseKept'
    BY DEF UpgradeBase, RedeployBase, ProcessEnds, sets, IInv, BaseKept, BaseSets
  <1>5. DeploymentOK' /\ UndeploymentOK' /\ RoleRestored' /\ CleanupOK' /\ CleanupRepairs'
    BY <1>1 DEF DeploymentOK, UndeploymentOK, RoleRestored, CleanupOK, CleanupRepairs,
           Deploying, Undeploying
  <1> QED BY <1>2, <1>3, <1>4, <1>5 DEF IInv

\* The consumer group, beside the command
LEMMA SetsStep ==
  ASSUME IInv, NEW s \in CapSet, CreateSet(s) \/ ForgetSet(s)
  PROVE  IInv'
  <1>1. /\ UNCHANGED <<parent, manager, host, record, job, plan, faulted, excuse, result>>
        /\ \/ s \in Pending /\ existing' = existing \union {s} /\ attached' = attached
           \/ s \notin Wanted /\ existing' = existing \ {s} /\ attached' = attached \ {s}
    BY DEF CreateSet, ForgetSet
  <1>2. /\ Left' = Left /\ OwnSets' = OwnSets /\ BaseSets' = BaseSets /\ Wanted' = Wanted
        /\ PlanOK'
    BY <1>1, Zenon DEF Left, OwnSets, BaseSets, Wanted, job, manager, PlanOK, IInv
  <1>3. TypeOK'
    BY <1>1 DEF IInv, TypeOK, manager, host, job
  <1>4. BaseSets \subseteq Wanted
    BY SetsMonotone DEF BaseSets, Wanted
  <1>5. BaseKept'
    BY <1>1, <1>2, <1>4 DEF IInv, BaseKept
  <1>6. Pending = {} => Pending' = {}
    BY <1>1, <1>2 DEF Pending
  <1>7. DeploymentOK'
    BY <1>1, <1>2, <1>6 DEF IInv, DeploymentOK, Deploying, Past, job, host, manager
  <1>8. UndeploymentOK'
    BY <1>1, <1>2 DEF IInv, UndeploymentOK, Undeploying, Gone, job, host, manager
  <1>9. RoleRestored'
    BY <1>1, <1>2, <1>4, <1>6 DEF IInv, RoleRestored, Gone, job
  <1>10. CleanupOK' /\ CleanupRepairs'
    BY <1>1, <1>2 DEF IInv, CleanupOK, CleanupRepairs, ParentsThere, Past, Gone, job, manager
  <1> QED BY <1>2, <1>3, <1>5, <1>7, <1>8, <1>9, <1>10 DEF IInv

LEMMA StutterStep ==
  ASSUME IInv, UNCHANGED vars
  PROVE  IInv'
  <1>1. /\ Left' = Left /\ OwnSets' = OwnSets /\ BaseSets' = BaseSets
        /\ Wanted' = Wanted /\ Pending' = Pending
        /\ PlanOK' /\ TypeOK'
    BY Zenon DEF Left, OwnSets, BaseSets, Wanted, Pending, vars, PlanOK, TypeOK, IInv
  <1> QED BY <1>1 DEF IInv, vars, BaseKept, DeploymentOK, UndeploymentOK, RoleRestored,
                 CleanupOK, CleanupRepairs, Deploying, Undeploying, Past, Gone, ParentsThere

LEMMA NextStep ==
  ASSUME IInv, [Next]_vars
  PROVE  IInv'
  <1>1. CASE Deploy
    BY <1>1, ValidateParentApplicationsStep, DeployAdditionalSystemStep, DeployContainersStep,
       CreateApplicationStep, CreateDiscoveryStep, CreateTenantEntitlementsStep DEF Deploy
  <1>2. CASE Undeploy
    BY <1>2, RemoveTenantEntitlementsStep, RemoveApplicationStep, RemoveContainersStep,
       UndeployAdditionalSystemStep DEF Undeploy
  <1>3. CASE CapabilitySets
    BY <1>3, DetachCapabilitySetsStep, SetTokensStep, RemoveRecordStep, ReadRecordStep,
       PollConsumerGroupStep, AttachStep, WriteRecordStep DEF CapabilitySets
  <1> QED
    BY <1>1, <1>2, <1>3, StartStep, OutsideStep, SetsStep, StutterStep DEF Next

-----------------------------------------------------------------------------
(***************************************************************************)
(* The theorems                                                            *)
(***************************************************************************)
\* What the steps behind have left holds in every reachable state.
THEOREM Invariance == Spec => []IInv
  BY InitHolds, NextStep, PTL DEF Spec

\* Every variable stays in its domain, and a command has a result exactly when
\* its plan is done, for any number of children and of capability sets.
THEOREM TypeCorrect == Spec => []TypeOK
  <1>1. IInv => TypeOK
    BY DEF IInv
  <1> QED BY <1>1, Invariance, PTL

\* With no step left, everything the invariant says of the steps behind holds.
LEMMA DoneInvariant == IInv => SuccessMeansDone
  <1> SUFFICES ASSUME IInv, result = "ok"
               PROVE  SuccessMeansDone
    BY DEF SuccessMeansDone, Deployed, Undeployed
  <1>1. Left = 0 /\ faulted \in BOOLEAN
    BY DEF IInv, TypeOK, Left
  <1>2. Deployed
    BY <1>1 DEF Deployed, IInv, DeploymentOK, Deploying, Past, DeployPlace
  <1>3. cmd = "undeployApplication" => Gone("removeSystem") /\ Gone("removeEntitlement")
          /\ Gone("removeApplication") /\ Gone("removeContainers")
          /\ Gone("detach") /\ Gone("attach")
    BY <1>1 DEF Gone, UndeployPlace, Length
  <1>4. cmd = "skipCapabilitySets" => Gone("removeSystem") /\ Gone("removeEntitlement")
          /\ Gone("removeApplication") /\ Gone("removeContainers")
    BY <1>1 DEF Gone, UndeployPlace, Length
  <1>5. Undeployed
    BY <1>1, <1>3, <1>4
       DEF Undeployed, IInv, UndeploymentOK, Undeploying, RoleRestored, OwnSets, BaseSets
  <1> QED BY <1>2, <1>5 DEF SuccessMeansDone

\* A deployApplication of a child that reports success has its containers, its
\* application, its entitlement and every capability set in place, and an
\* undeployApplication without a warning leaves nothing of it: over whatever
\* commands for the other children had left, and up to the answers the command
\* took for something else.
THEOREM SuccessMeansDoneHolds == Spec => []SuccessMeansDone
  BY DoneInvariant, Invariance, PTL

\* A deployApplication --cleanup without a failing request ends well whatever was
\* left of the child, as long as the parent application is there.
THEOREM CleanupRepairsHolds == Spec => []CleanupRepairs
  <1>1. IInv => CleanupRepairs
    BY DEF IInv
  <1> QED BY <1>1, Invariance, PTL

================================================================================
