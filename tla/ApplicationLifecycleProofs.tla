----------------------- MODULE ApplicationLifecycleProofs -----------------------
(***************************************************************************)
(* Proofs about ApplicationLifecycle, for every set of tenants, every      *)
(* number of versions, and every set of flags that does not entitle        *)
(* tenants to a version whose module is left out of discovery.             *)
(*                                                                         *)
(* The inductive invariant says that nobody is entitled to a version that  *)
(* is gone (EntitledExists), that the version a command creates is beyond  *)
(* every other one and in discovery before tenants get it (NextOK), and    *)
(* that a removal spares the right version (KeepOK).                       *)
(***************************************************************************)
EXTENDS ApplicationLifecycle, TLAPS, NaturalsInduction, WellFoundedInduction

Deploying == {"upgradeModule", "runLocalModule"}
Registering == {"create", "discovery", "tenants", "entitle"}

\* The flags the theorems are about: a user who skips the discovery entry also
\* skips the version or the entitlements.  Without it a tenant is entitled to a
\* version nothing is routed to, which is what those flags ask for.
FlagsRegister ==
    \A f \in Flags : "discovery" \in f => "application" \in f \/ "entitlement" \in f

\* The control point fits the command.
ControlOK ==
    /\ pc \in {"prepare"} \union Registering => cmd \in Deploying
    /\ pc \in {"rollback", "rollbackTenant"} => cmd = "upgradeModule" /\ phase = "rollback"
    /\ pc \in {"find", "unentitle"} => cmd = "undeployApplication"
    /\ phase = "rollback" => cmd \in Deploying
    /\ pc = "remove" => cmd # "none"
    /\ result # "none" => pc = "returned"

Exists(a, v) == apps[a][v] # 0

EntitledExists ==
    \A t \in Tenant, a \in App : entitled[t][a] # 0 => Exists(a, entitled[t][a])

\* The version found is there, the next one is beyond every other, and its module
\* is in discovery before the first tenant is entitled to it.
PriorFound == pc \in Registering => prior = 0 \/ Exists(app, prior)

NothingBeyond == pc = "create" => \A v \in Version : Exists(app, v) => v <= prior

TargetLast ==
    pc \in Registering \ {"create"} => \A v \in Version : Exists(app, v) => v <= target

TargetModule ==
    pc \in Registering \ {"create"} =>
        apps[app][target] = IF "application" \in skip THEN 0 ELSE module

TargetDiscovered ==
    pc \in {"tenants", "entitle"} =>
        "application" \in skip \/ "entitlement" \in skip \/ module \in discovered[app]

MayEntitle == pc = "entitle" => "entitlement" \notin skip

NextOK ==
    /\ PriorFound
    /\ NothingBeyond
    /\ TargetLast
    /\ TargetModule
    /\ TargetDiscovered
    /\ MayEntitle

\* What a removal is to leave
KeepOK ==
    pc = "remove" =>
        /\ phase = "finish" /\ cmd \in Deploying =>
             keep = target /\ ("application" \notin skip => Exists(app, target))
        /\ cmd = "undeployApplication" => keep = 0
        /\ phase = "rollback" /\ cmd = "runLocalModule" =>
             keep = prior /\ (prior = 0 \/ Exists(app, prior))

ServerOK ==
    /\ apps \in [App -> [Version -> ModuleVersion \union {0}]]
    /\ discovered \in [App -> SUBSET ModuleVersion]
    /\ entitled \in [Tenant -> [App -> Version \union {0}]]

CommandOK ==
    /\ cmd \in Commands \union {"none"}
    /\ skip \in Flags \union {{}}
    /\ pc \in {"idle", "prepare", "create", "discovery", "tenants", "entitle",
               "rollback", "rollbackTenant", "remove", "find", "unentitle", "returned"}
    /\ module \in ModuleVersion
    /\ prior \in Version \union {0}
    /\ pc \in {"create", "discovery", "tenants", "entitle"} => target \in Version
    /\ todo \subseteq Configured
    /\ keep \in Version \union {0}
    /\ phase \in {"finish", "rollback"}
    /\ result \in {"none", "ok", "error", "rolled back"}

IInv ==
    /\ ServerOK
    /\ CommandOK
    /\ ControlOK
    /\ EntitledExists
    /\ NextOK
    /\ KeepOK
    /\ SuccessRepairs
    /\ EntitledIsRoutable
    /\ LocalRollback

-----------------------------------------------------------------------------
\* A set of versions has a greatest one.
LEMMA GreatestVersion ==
  ASSUME NEW S \in SUBSET Version, S # {}
  PROVE  \E x \in S : \A y \in S : x >= y
  <1> DEFINE T == {MaxVersion - x : x \in S}
             R == OpToRel(<, Nat)
  <1>1. MaxVersion \in Nat /\ S \subseteq Nat /\ \A x \in S : x <= MaxVersion
    BY LifecycleAssumption DEF Version
  <1>2. T \subseteq Nat /\ T # {}
    <2>1. ASSUME NEW x \in S PROVE MaxVersion - x \in Nat
      BY <1>1
    <2> QED BY <2>1
  <1>3. IsWellFoundedOn(R, Nat)
    BY NatLessThanWellFounded
  <1>4. PICK z \in T : \A y \in T : ~ (<<y, z>> \in R)
    <2> HIDE DEF T, R
    <2> QED BY <1>2, <1>3, WFMin
  <1>5. PICK x \in S : z = MaxVersion - x
    BY DEF T
  <1>6. ASSUME NEW y \in S PROVE x >= y
    <2>1. MaxVersion - y \in T /\ MaxVersion - y \in Nat /\ z \in Nat
      BY <1>1, <1>2
    <2>2. ~ (MaxVersion - y < z)
      <3>1. ~ (<<MaxVersion - y, z>> \in R)
        BY <1>4, <2>1
      <3> QED BY <2>1, <3>1 DEF OpToRel
    <2> QED BY <1>1, <1>5, <2>2
  <1> QED BY <1>6

\* Latest is the last version of an application, and 0 only if there is none.
LEMMA LatestIsLast ==
  ASSUME ServerOK, NEW a \in App
  PROVE  /\ Latest(a) \in Version \union {0}
         /\ Latest(a) = 0 \/ Exists(a, Latest(a))
         /\ \A v \in Version : Exists(a, v) => v <= Latest(a)
         /\ Versions(a) # {} => Latest(a) \in Versions(a)
  <1>1. CASE Versions(a) = {}
    BY <1>1 DEF Latest, Versions, Exists
  <1>2. CASE Versions(a) # {}
    <2>1. Versions(a) \subseteq Version
      BY DEF Versions
    <2>2. \E x \in Versions(a) : \A y \in Versions(a) : x >= y
      BY <1>2, <2>1, GreatestVersion
    <2>3. /\ Latest(a) \in Versions(a)
          /\ \A y \in Versions(a) : Latest(a) >= y
      BY <1>2, <2>2 DEF Latest, Max
    <2> QED BY <2>1, <2>3 DEF Versions, Exists, Version
  <1> QED BY <1>1, <1>2

\* A version is a number, and the next of one below the bound is a version.
LEMMA VersionFacts ==
  /\ \A v \in Version \union {0} : v \in Nat /\ (v # 0 => v \in Version)
  /\ 0 \notin Version
  /\ \A v \in Version \union {0} : v < MaxVersion => v + 1 \in Version
  /\ \A m \in ModuleVersion : m # 0
  <1>1. MaxVersion \in Nat
    BY LifecycleAssumption
  <1>2. \A m \in ModuleVersion : m # 0
    BY LifecycleAssumption
  <1> QED BY <1>1, <1>2 DEF Version

\* One version of one application is written.
LEMMA AppsUpdate ==
  ASSUME ServerOK, NEW a \in App, NEW w \in Version, NEW m \in ModuleVersion \union {0},
         apps' = [apps EXCEPT ![a][w] = m]
  PROVE  /\ apps' \in [App -> [Version -> ModuleVersion \union {0}]]
         /\ apps'[a][w] = m
         /\ \A b \in App, v \in Version : b # a \/ v # w => apps'[b][v] = apps[b][v]
  <1>1. apps \in [App -> [Version -> ModuleVersion \union {0}]]
    BY DEF ServerOK
  <1> QED BY <1>1

\* The discovery entries of one application are written.
LEMMA DiscoveredUpdate ==
  ASSUME ServerOK, NEW a \in App, NEW S \in SUBSET ModuleVersion,
         discovered' = [discovered EXCEPT ![a] = S]
  PROVE  /\ discovered' \in [App -> SUBSET ModuleVersion]
         /\ discovered'[a] = S
         /\ \A b \in App : b # a => discovered'[b] = discovered[b]
  <1>1. discovered \in [App -> SUBSET ModuleVersion]
    BY DEF ServerOK
  <1> QED BY <1>1

\* The entitlement of one tenant to one application is written.
LEMMA EntitledUpdate ==
  ASSUME ServerOK, NEW t \in Tenant, NEW a \in App, NEW w \in Version \union {0},
         entitled' = [entitled EXCEPT ![t][a] = w]
  PROVE  /\ entitled' \in [Tenant -> [App -> Version \union {0}]]
         /\ entitled'[t][a] = w
         /\ \A u \in Tenant, b \in App : u # t \/ b # a => entitled'[u][b] = entitled[u][b]
  <1>1. entitled \in [Tenant -> [App -> Version \union {0}]]
    BY DEF ServerOK
  <1> QED BY <1>1

\* What the three tables hold is read one entry at a time.
LEMMA Entries ==
  ASSUME ServerOK
  PROVE  /\ \A a \in App, v \in Version : apps[a][v] \in ModuleVersion \union {0}
         /\ \A a \in App : discovered[a] \subseteq ModuleVersion
         /\ \A t \in Tenant, a \in App : entitled[t][a] \in Version \union {0}
  <1>1. \A a \in App, v \in Version : apps[a][v] \in ModuleVersion \union {0}
    BY DEF ServerOK
  <1>2. \A a \in App : discovered[a] \subseteq ModuleVersion
    BY DEF ServerOK
  <1>3. \A t \in Tenant, a \in App : entitled[t][a] \in Version \union {0}
    BY DEF ServerOK
  <1> QED BY <1>1, <1>2, <1>3

\* The invariant holds before the first command.
LEMMA InitHolds == Init => IInv
  <1> SUFFICES ASSUME Init PROVE IInv
    OBVIOUS
  <1> USE LifecycleAssumption DEF Init
  <1>1. ServerOK /\ CommandOK
    BY DEF ServerOK, CommandOK, App, Version
  <1>2. ControlOK /\ NextOK /\ KeepOK /\ SuccessRepairs /\ LocalRollback
    BY DEF ControlOK, NextOK, PriorFound, NothingBeyond, TargetLast, TargetModule,
           TargetDiscovered, MayEntitle, KeepOK, SuccessRepairs, Succeeded, LocalRollback,
           Registering
  <1>3. EntitledExists /\ EntitledIsRoutable
    BY DEF EntitledExists, EntitledIsRoutable, Exists, App, Version
  <1> QED BY <1>1, <1>2, <1>3 DEF IInv

\* Outside the registration nothing is required of the next version.
LEMMA Elsewhere ==
  ASSUME pc' \notin Registering
  PROVE  NextOK'
  BY DEF NextOK, PriorFound, NothingBeyond, TargetLast, TargetModule, TargetDiscovered,
         MayEntitle, Registering

\* What is said of the server holds as long as the server does not change.
LEMMA ServerUntouched ==
  ASSUME ServerOK, EntitledExists, EntitledIsRoutable, UNCHANGED server
  PROVE  ServerOK' /\ EntitledExists' /\ EntitledIsRoutable'
  BY DEF server, ServerOK, EntitledExists, EntitledIsRoutable, Exists

\* A command that has not succeeded claims nothing of the versions.
LEMMA NothingClaimed ==
  ASSUME result' \notin {"ok", "rolled back"}
  PROVE  SuccessRepairs' /\ LocalRollback'
  BY DEF SuccessRepairs, Succeeded, LocalRollback

\* The next version is created, discovered, and then given to the tenants.
LEMMA RegisterStep ==
  ASSUME FlagsRegister, IInv,
         Prepare \/ CreateNewApplication \/ CreateNewModuleDiscovery \/ Entitle
  PROVE  IInv'
  <1> USE DEF IInv, Return, server
  <1>a. app \in App
    BY DEF app, App
  <1>1. CASE Prepare
    <2>1. /\ Latest(app) \in Version \union {0}
          /\ Latest(app) = 0 \/ Exists(app, Latest(app))
          /\ \A v \in Version : Exists(app, v) => v <= Latest(app)
      BY <1>a, LatestIsLast
    <2>2. app' = app
      BY <1>1 DEF Prepare, app
    <2>3. ServerOK'
      BY <1>1 DEF Prepare, ServerOK
    <2>4. CommandOK'
      BY <1>1, <2>1, VersionFacts DEF Prepare, CommandOK, target
    <2>5. ControlOK'
      BY <1>1 DEF Prepare, CommandOK, ControlOK, Deploying, Registering
    <2>6. PriorFound' /\ NothingBeyond'
      BY <1>1, <2>1, <2>2 DEF Prepare, PriorFound, NothingBeyond, Exists, Registering
    <2>7. NextOK'
      BY <1>1, <2>6
      DEF Prepare, NextOK, TargetLast, TargetModule, TargetDiscovered, MayEntitle,
          Registering
    <2>8. KeepOK' /\ SuccessRepairs' /\ LocalRollback'
      BY <1>1 DEF Prepare, KeepOK, ControlOK, SuccessRepairs, Succeeded, LocalRollback
    <2>9. EntitledExists' /\ EntitledIsRoutable'
      BY <1>1 DEF Prepare, EntitledExists, EntitledIsRoutable, Exists
    <2> QED BY <2>3, <2>4, <2>5, <2>7, <2>8, <2>9
  <1>2. CASE CreateNewApplication
    <2>1. app' = app /\ target' = target /\ target = prior + 1
      BY <1>2 DEF CreateNewApplication, app, target
    <2>2. /\ target \in Version
          /\ module \in ModuleVersion
          /\ prior = 0 \/ Exists(app, prior)
          /\ \A v \in Version : Exists(app, v) => v <= prior
      BY <1>2
      DEF CreateNewApplication, CommandOK, NextOK, PriorFound, NothingBeyond, Registering
    <2>3. prior \in Nat /\ target # prior /\ ~(target <= prior)
      <3>1. prior \in Version \union {0}
        BY DEF CommandOK
      <3>2. prior \in Nat
        BY <3>1, VersionFacts
      <3> QED BY <2>1, <3>2
    <2>4. apps[app][target] = 0
      BY <2>2, <2>3 DEF Exists
    <2>5. /\ apps' \in [App -> [Version -> ModuleVersion \union {0}]]
          /\ \A b \in App, v \in Version : b # app \/ v # target => apps'[b][v] = apps[b][v]
          /\ pc' = "discovery" =>
               apps'[app][target] = IF "application" \in skip THEN 0 ELSE module
      <3>1. CASE apps' = apps
        <4>1. pc' = "discovery" => "application" \in skip
          <5>1. ASSUME apps' = [apps EXCEPT ![app][target] = module] PROVE FALSE
            <6>1. apps'[app][target] = module
              BY <1>a, <2>2, <5>1, AppsUpdate
            <6>2. module # 0
              BY <2>2, VersionFacts
            <6> QED BY <2>4, <3>1, <6>1, <6>2
          <5> QED BY <1>2, <5>1 DEF CreateNewApplication
        <4> QED BY <2>4, <3>1, <4>1 DEF ServerOK
      <3>2. CASE apps' = [apps EXCEPT ![app][target] = module] /\ "application" \notin skip
        BY <1>a, <2>2, <3>2, AppsUpdate
      <3> QED BY <1>2, <3>1, <3>2 DEF CreateNewApplication
    <2>6. ServerOK'
      BY <1>2, <2>5 DEF CreateNewApplication, ServerOK
    <2>7. CommandOK'
      BY <1>2, <2>2 DEF CreateNewApplication, CommandOK, target
    <2>8. ControlOK'
      BY <1>2 DEF CreateNewApplication, CommandOK, ControlOK, Deploying, Registering
    <2>9. pc' # "returned" => PriorFound' /\ TargetLast' /\ TargetModule'
      <3>1. prior' = prior /\ skip' = skip /\ module' = module
        BY <1>2 DEF CreateNewApplication
      <3>2. pc' # "returned" => pc' = "discovery"
        BY <1>2 DEF CreateNewApplication
      <3>3. PriorFound'
        BY <1>a, <2>1, <2>2, <2>3, <2>5, <3>1, VersionFacts
        DEF PriorFound, Exists, CommandOK
      <3>4. \A v \in Version : apps'[app][v] # 0 => v <= target
        <4>1. ASSUME NEW v \in Version, apps'[app][v] # 0 PROVE v <= target
          <5>1. v \in Nat /\ target \in Nat
            BY <2>2, VersionFacts
          <5>2. v = target \/ v <= prior
            BY <1>a, <2>2, <2>5, <4>1 DEF Exists
          <5> QED BY <2>1, <2>3, <5>1, <5>2
        <4> QED BY <4>1
      <3> QED BY <2>1, <2>5, <3>1, <3>2, <3>3, <3>4 DEF TargetLast, TargetModule, Exists
    <2>10. NextOK'
      BY <1>2, <2>9
      DEF CreateNewApplication, NextOK, PriorFound, NothingBeyond, TargetLast, TargetModule,
          TargetDiscovered, MayEntitle, Registering
    <2>11. KeepOK' /\ SuccessRepairs' /\ LocalRollback'
      BY <1>2
      DEF CreateNewApplication, KeepOK, ControlOK, SuccessRepairs, Succeeded, LocalRollback
    <2>12. \A t \in Tenant, a \in App :
             entitled[t][a] # 0 => apps'[a][entitled[t][a]] = apps[a][entitled[t][a]]
      BY <2>4, <2>5, Entries DEF EntitledExists, Exists
    <2>13. EntitledExists' /\ EntitledIsRoutable'
      BY <1>2, <2>12
      DEF CreateNewApplication, EntitledExists, EntitledIsRoutable, Exists, App
    <2> QED BY <2>6, <2>7, <2>8, <2>10, <2>11, <2>13
  <1>3. CASE CreateNewModuleDiscovery
    <2>1. app' = app /\ target' = target /\ apps' = apps /\ entitled' = entitled
      BY <1>3 DEF CreateNewModuleDiscovery, app, target
    <2>2. module \in ModuleVersion /\ target \in Version /\ pc = "discovery"
      BY <1>3 DEF CreateNewModuleDiscovery, CommandOK
    <2>3. discovered[app] \union {module} \in SUBSET ModuleVersion
      BY <1>a, <2>2, Entries
    <2>4. /\ discovered' \in [App -> SUBSET ModuleVersion]
          /\ \A a \in App : discovered[a] \subseteq discovered'[a]
          /\ pc' = "tenants" => "discovery" \in skip \/ module \in discovered'[app]
      <3>1. CASE discovered' = discovered /\ (pc' = "tenants" => "discovery" \in skip)
        BY <3>1 DEF ServerOK
      <3>2. CASE discovered' = [discovered EXCEPT ![app] = @ \union {module}]
        <4>1. discovered' = [discovered EXCEPT ![app] = discovered[app] \union {module}]
          BY <3>2
        <4> QED BY <1>a, <2>3, <4>1, DiscoveredUpdate
      <3>3. Rollback => pc' # "tenants"
        BY DEF Rollback
      <3> QED BY <1>3, <3>1, <3>2, <3>3 DEF CreateNewModuleDiscovery
    <2>5. ServerOK'
      BY <1>3, <2>4 DEF CreateNewModuleDiscovery, ServerOK
    <2>6. CommandOK'
      BY <1>3, <2>2 DEF CreateNewModuleDiscovery, Rollback, CommandOK, target
    <2>7. ControlOK'
      BY <1>3
      DEF CreateNewModuleDiscovery, Rollback, CommandOK, ControlOK, Deploying, Registering
    <2>8. prior' = prior /\ skip' = skip /\ module' = module /\ cmd' = cmd
      BY <1>3 DEF CreateNewModuleDiscovery
    <2>9. PriorFound' /\ TargetLast' /\ TargetModule'
      BY <2>1, <2>2, <2>8
      DEF NextOK, PriorFound, TargetLast, TargetModule, Exists, Registering
    <2>10. pc' = "tenants" =>
             "application" \in skip \/ "entitlement" \in skip \/ module \in discovered'[app]
      <3>1. "discovery" \in skip => skip \in Flags
        BY DEF CommandOK
      <3> QED BY <2>4, <3>1 DEF FlagsRegister
    <2>11. pc' \in {"tenants", "rollback", "remove"}
      BY <1>3 DEF CreateNewModuleDiscovery, Rollback
    <2>12. NextOK'
      BY <2>1, <2>8, <2>9, <2>10, <2>11
      DEF NextOK, NothingBeyond, TargetDiscovered, MayEntitle
    <2>13. KeepOK'
      <3>1. pc' = "remove" => phase' = "rollback" /\ keep' = prior
        BY <1>3 DEF CreateNewModuleDiscovery, Rollback
      <3>2. cmd \in Deploying
        BY <2>2 DEF ControlOK, Registering
      <3> QED BY <2>1, <2>2, <2>8, <3>1, <3>2
              DEF KeepOK, NextOK, PriorFound, Exists, Registering, Deploying, app
    <2>14. SuccessRepairs' /\ LocalRollback'
      BY <1>3, <2>11, <2>7 DEF SuccessRepairs, Succeeded, LocalRollback, ControlOK
    <2>15. EntitledExists' /\ EntitledIsRoutable'
      BY <2>1, <2>4 DEF EntitledExists, EntitledIsRoutable, Exists, App
    <2> QED BY <2>5, <2>6, <2>7, <2>12, <2>13, <2>14, <2>15
  <1>4. CASE GetTenants
    <2>1. /\ app' = app /\ target' = target /\ UNCHANGED server
          /\ prior' = prior /\ skip' = skip /\ module' = module /\ cmd' = cmd
          /\ result' = result /\ pc \in {"tenants", "entitle"} /\ todo' \subseteq Configured
      BY <1>4 DEF GetTenants, CommandOK, app, target
    <2>2. target \in Version /\ cmd \in Deploying /\ result = "none"
      BY <2>1 DEF CommandOK, ControlOK, Registering
    <2>3. \/ pc' = "entitle" /\ keep' = keep /\ phase' = phase /\ "entitlement" \notin skip
          \/ RemoveSuperseded
          \/ Rollback
      BY <1>4 DEF GetTenants
    <2>4. ServerOK' /\ EntitledExists' /\ EntitledIsRoutable'
      BY <2>1 DEF ServerOK, EntitledExists, EntitledIsRoutable, Exists
    <2>5. CommandOK'
      BY <2>1, <2>2, <2>3 DEF Rollback, RemoveSuperseded, CommandOK, target
    <2>6. ControlOK'
      BY <2>1, <2>2, <2>3 DEF Rollback, RemoveSuperseded, ControlOK, Deploying, Registering
    <2>7. PriorFound' /\ TargetLast' /\ TargetModule'
      BY <2>1 DEF NextOK, PriorFound, TargetLast, TargetModule, Exists, Registering
    <2>8. TargetDiscovered'
      BY <2>1 DEF NextOK, TargetDiscovered
    <2>9. NextOK'
      BY <2>1, <2>3, <2>7, <2>8
      DEF NextOK, NothingBeyond, MayEntitle, Rollback, RemoveSuperseded
    <2>10. KeepOK'
      <3>1. /\ target \in Version
            /\ apps[app][target] = IF "application" \in skip THEN 0 ELSE module
        BY <2>1, <2>2 DEF NextOK, TargetModule, Registering
      <3>2. "application" \notin skip => Exists(app, target)
        <4>1. module # 0
          BY VersionFacts DEF CommandOK
        <4> QED BY <3>1, <4>1 DEF Exists
      <3>3. \/ pc' # "remove"
            \/ phase' = "rollback" /\ keep' = prior
            \/ phase' = "finish" /\ keep' = target
        BY <2>1, <2>3 DEF Rollback, RemoveSuperseded
      <3> QED BY <2>1, <2>2, <3>2, <3>3
              DEF KeepOK, NextOK, PriorFound, Exists, Registering, Deploying, app
    <2>11. SuccessRepairs' /\ LocalRollback'
      BY <2>1, <2>2 DEF SuccessRepairs, Succeeded, LocalRollback
    <2> QED BY <2>4, <2>5, <2>6, <2>9, <2>10, <2>11
  <1>5. ASSUME NEW t \in Tenant, EntitleTenant(t) PROVE IInv'
    <2>1. /\ app' = app /\ target' = target /\ apps' = apps /\ discovered' = discovered
          /\ prior' = prior /\ skip' = skip /\ module' = module /\ cmd' = cmd
          /\ result' = result /\ pc = "entitle"
      BY <1>5 DEF EntitleTenant, app, target
    <2>2. target \in Version /\ cmd \in Deploying /\ result = "none"
      BY <2>1 DEF CommandOK, ControlOK, Registering
    <2>3. \/ pc' = "entitle" /\ keep' = keep /\ phase' = phase
          \/ Rollback
      BY <1>5, <2>1 DEF EntitleTenant
    <2>4. \/ entitled' = entitled
          \/ entitled' = [entitled EXCEPT ![t][app] = target] /\ Exists(app, target)
      BY <1>5 DEF EntitleTenant, Versions, Exists
    <2>5. /\ entitled' \in [Tenant -> [App -> Version \union {0}]]
          /\ \A u \in Tenant, a \in App :
               \/ entitled'[u][a] = entitled[u][a]
               \/ a = app /\ entitled'[u][a] = target /\ Exists(app, target)
      <3>1. CASE entitled' = entitled
        <4>1. entitled \in [Tenant -> [App -> Version \union {0}]]
          BY DEF ServerOK
        <4> QED BY <3>1, <4>1
      <3>2. CASE entitled' = [entitled EXCEPT ![t][app] = target] /\ Exists(app, target)
        <4>1. target \in Version \union {0}
          BY <2>2
        <4>2. /\ entitled' \in [Tenant -> [App -> Version \union {0}]]
              /\ entitled'[t][app] = target
              /\ \A u \in Tenant, b \in App :
                   u # t \/ b # app => entitled'[u][b] = entitled[u][b]
          BY <1>a, <3>2, <4>1, EntitledUpdate
        <4> QED BY <3>2, <4>2
      <3> QED BY <2>4, <3>1, <3>2
    <2>6. ServerOK'
      BY <2>1, <2>5 DEF ServerOK
    <2>7. todo' \subseteq Configured
      BY <1>5 DEF EntitleTenant, CommandOK
    <2>8. CommandOK'
      BY <2>1, <2>2, <2>3, <2>7 DEF Rollback, CommandOK, target
    <2>9. ControlOK'
      BY <2>1, <2>2, <2>3 DEF Rollback, ControlOK, Deploying, Registering
    <2>10. PriorFound' /\ TargetLast' /\ TargetModule' /\ TargetDiscovered' /\ MayEntitle'
      BY <2>1
      DEF NextOK, PriorFound, TargetLast, TargetModule, TargetDiscovered, MayEntitle, Exists,
          Registering
    <2>11. NextOK'
      BY <2>3, <2>10 DEF NextOK, NothingBeyond, Rollback
    <2>12. KeepOK'
      <3>1. pc' = "remove" => phase' = "rollback" /\ keep' = prior
        BY <2>3 DEF Rollback
      <3> QED BY <2>1, <2>2, <3>1
              DEF KeepOK, NextOK, PriorFound, Exists, Registering, Deploying, app
    <2>13. SuccessRepairs' /\ LocalRollback'
      BY <2>1, <2>2 DEF SuccessRepairs, Succeeded, LocalRollback
    <2>14. EntitledExists'
      BY <2>1, <2>5 DEF EntitledExists, Exists
    <2>15. app = "base" /\ Exists(app, target) => apps["base"][target] \in discovered["base"]
      BY <2>1 DEF NextOK, TargetModule, TargetDiscovered, MayEntitle, Exists, Registering
    <2>16. EntitledIsRoutable'
      BY <2>1, <2>5, <2>15 DEF EntitledIsRoutable, App
    <2> QED BY <2>6, <2>8, <2>9, <2>11, <2>12, <2>13, <2>14, <2>16
  <1>6. CASE EntitleEnds
    <2>1. /\ app' = app /\ target' = target /\ UNCHANGED server
          /\ prior' = prior /\ skip' = skip /\ module' = module /\ cmd' = cmd
          /\ result' = result /\ pc \in {"tenants", "entitle"} /\ todo' \subseteq Configured
      BY <1>6 DEF EntitleEnds, CommandOK, app, target
    <2>2. target \in Version /\ cmd \in Deploying /\ result = "none"
      BY <2>1 DEF CommandOK, ControlOK, Registering
    <2>3. RemoveSuperseded \/ Rollback
      BY <1>6 DEF EntitleEnds
    <2>4. ServerOK' /\ EntitledExists' /\ EntitledIsRoutable'
      BY <2>1 DEF ServerOK, EntitledExists, EntitledIsRoutable, Exists
    <2>5. CommandOK'
      BY <2>1, <2>2, <2>3 DEF Rollback, RemoveSuperseded, CommandOK, target
    <2>6. ControlOK'
      BY <2>1, <2>2, <2>3 DEF Rollback, RemoveSuperseded, ControlOK, Deploying, Registering
    <2>7. PriorFound' /\ TargetLast' /\ TargetModule'
      BY <2>1 DEF NextOK, PriorFound, TargetLast, TargetModule, Exists, Registering
    <2>8. TargetDiscovered'
      BY <2>1 DEF NextOK, TargetDiscovered
    <2>9. NextOK'
      BY <2>1, <2>3, <2>7, <2>8
      DEF NextOK, NothingBeyond, MayEntitle, Rollback, RemoveSuperseded
    <2>10. KeepOK'
      <3>1. /\ target \in Version
            /\ apps[app][target] = IF "application" \in skip THEN 0 ELSE module
        BY <2>1, <2>2 DEF NextOK, TargetModule, Registering
      <3>2. "application" \notin skip => Exists(app, target)
        <4>1. module # 0
          BY VersionFacts DEF CommandOK
        <4> QED BY <3>1, <4>1 DEF Exists
      <3>3. \/ pc' # "remove"
            \/ phase' = "rollback" /\ keep' = prior
            \/ phase' = "finish" /\ keep' = target
        BY <2>1, <2>3 DEF Rollback, RemoveSuperseded
      <3> QED BY <2>1, <2>2, <3>2, <3>3
              DEF KeepOK, NextOK, PriorFound, Exists, Registering, Deploying, app
    <2>11. SuccessRepairs' /\ LocalRollback'
      BY <2>1, <2>2 DEF SuccessRepairs, Succeeded, LocalRollback
    <2> QED BY <2>4, <2>5, <2>6, <2>9, <2>10, <2>11
  <1> QED BY <1>1, <1>2, <1>3, <1>4, <1>5, <1>6 DEF Entitle

\* A removal stops at a version somebody is entitled to, and spares the one to keep.
LEMMA RemoveStep ==
  ASSUME FlagsRegister, IInv, CleanUp \/ Remove
  PROVE  IInv'
  <1> USE DEF IInv, Return
  <1>a. app \in App
    BY DEF app, App
  <1>1. CASE RollbackTenants
    <2>1. pc' \in {"returned", "rollbackTenant"} /\ result' \in {"error", result}
          /\ result = "none" /\ UNCHANGED server
      BY <1>1 DEF RollbackTenants, ControlOK
    <2>2. CommandOK'
      BY <1>1 DEF RollbackTenants, CommandOK, target
    <2>3. ControlOK' /\ KeepOK'
      BY <1>1 DEF RollbackTenants, ControlOK, KeepOK, Deploying, Registering
    <2> QED BY <2>1, <2>2, <2>3, Elsewhere, ServerUntouched, NothingClaimed DEF Registering
  <1>2. ASSUME NEW t \in Tenant, RollbackTenant(t) PROVE IInv'
    <2>1. pc' \in {"returned", "remove"} /\ result' \in {"error", result}
          /\ result = "none" /\ UNCHANGED server /\ UNCHANGED <<cmd, phase>>
          /\ cmd = "upgradeModule" /\ phase = "rollback"
      BY <1>2 DEF RollbackTenant, ControlOK
    <2>2. keep' \in Version \union {0}
      <3>1. \A a \in App : entitled[t][a] \in Version \union {0}
        BY Entries
      <3> QED BY <1>2, <3>1 DEF RollbackTenant, CommandOK
    <2>3. CommandOK'
      BY <1>2, <2>1, <2>2 DEF RollbackTenant, CommandOK, target
    <2>4. ControlOK' /\ KeepOK'
      BY <1>2, <2>1 DEF RollbackTenant, ControlOK, KeepOK, Deploying, Registering
    <2> QED BY <2>1, <2>3, <2>4, Elsewhere, ServerUntouched, NothingClaimed DEF Registering
  <1>3. CASE RollbackEnds
    <2>1. pc' = "returned" /\ UNCHANGED server /\ cmd' = "upgradeModule"
          /\ result' = "rolled back"
      BY <1>3 DEF RollbackEnds, ControlOK
    <2>2. CommandOK'
      BY <1>3 DEF RollbackEnds, CommandOK, target
    <2>3. ControlOK' /\ KeepOK'
      BY <1>3 DEF RollbackEnds, ControlOK, KeepOK, Deploying, Registering
    <2>4. SuccessRepairs' /\ LocalRollback'
      BY <2>1 DEF SuccessRepairs, Succeeded, LocalRollback
    <2> QED BY <2>1, <2>2, <2>3, <2>4, Elsewhere, ServerUntouched DEF Registering
  <1>4. ASSUME NEW v \in Version, RemoveVersion(v) PROVE IInv'
    <2>1. /\ app' = app /\ target' = target /\ discovered' = discovered
          /\ entitled' = entitled /\ prior' = prior /\ skip' = skip /\ keep' = keep
          /\ phase' = phase /\ cmd' = cmd /\ v # keep
      BY <1>4 DEF RemoveVersion, app, target
    <2>2. pc' \in {"returned", "remove"} /\ result' \in {"error", result} /\ result = "none"
          /\ (pc' = "remove" => result' = result) /\ pc = "remove"
      BY <1>4 DEF RemoveVersion, ControlOK
    <2>3. \/ apps' = apps
          \/ apps' = [apps EXCEPT ![app][v] = 0] /\ ~Refused(app, v)
      BY <1>4 DEF RemoveVersion
    <2>4. /\ apps' \in [App -> [Version -> ModuleVersion \union {0}]]
          /\ \A b \in App, w \in Version :
               apps'[b][w] = apps[b][w] \/ (b = app /\ w = v /\ ~Refused(app, v))
      <3>1. CASE apps' = apps
        <4>1. apps \in [App -> [Version -> ModuleVersion \union {0}]]
          BY DEF ServerOK
        <4> QED BY <3>1, <4>1
      <3>2. CASE apps' = [apps EXCEPT ![app][v] = 0] /\ ~Refused(app, v)
        <4>1. 0 \in ModuleVersion \union {0}
          OBVIOUS
        <4>2. /\ apps' \in [App -> [Version -> ModuleVersion \union {0}]]
              /\ \A b \in App, w \in Version : b # app \/ w # v => apps'[b][w] = apps[b][w]
          BY <1>a, <3>2, <4>1, AppsUpdate
        <4> QED BY <3>2, <4>2
      <3> QED BY <2>3, <3>1, <3>2
    <2>5. ServerOK'
      BY <2>1, <2>4 DEF ServerOK
    <2>6. CommandOK'
      BY <1>4, <2>1, <2>2 DEF RemoveVersion, CommandOK
    <2>7. ControlOK'
      BY <2>1, <2>2 DEF ControlOK, Registering
    <2>8. KeepOK'
      <3>1. \A w \in Version : w # v /\ Exists(app, w) => apps'[app][w] # 0
        BY <1>a, <2>4 DEF Exists
      <3>2. keep \in Version \union {0} /\ prior \in Version \union {0}
        BY DEF CommandOK
      <3>3. phase = "finish" /\ cmd \in Deploying =>
              keep = target /\ ("application" \notin skip => apps'[app][target] # 0)
        <4>1. target # 0
          <5>1. prior \in Nat
            BY <3>2, VersionFacts
          <5> QED BY <5>1 DEF target
        <4> QED BY <2>1, <2>2, <3>1, <3>2, <4>1 DEF KeepOK
      <3>4. phase = "rollback" /\ cmd = "runLocalModule" =>
              keep = prior /\ (prior = 0 \/ apps'[app][prior] # 0)
        BY <2>1, <2>2, <3>1, <3>2 DEF KeepOK
      <3>5. cmd = "undeployApplication" => keep = 0
        BY <2>2 DEF KeepOK
      <3> QED BY <2>1, <3>3, <3>4, <3>5 DEF KeepOK, Exists
    <2>9. \A t \in Tenant, a \in App :
            entitled[t][a] # 0 => apps'[a][entitled[t][a]] = apps[a][entitled[t][a]]
      BY <2>4, Entries DEF Refused
    <2>10. EntitledExists' /\ EntitledIsRoutable'
      BY <2>1, <2>9 DEF EntitledExists, EntitledIsRoutable, Exists, App
    <2> QED
      BY <2>2, <2>5, <2>6, <2>7, <2>8, <2>10, Elsewhere, NothingClaimed DEF Registering
  <1>5. CASE RemoveEnds
    <2>1. /\ app' = app /\ target' = target /\ UNCHANGED server
          /\ Versions(app)' = Versions(app)
          /\ prior' = prior /\ skip' = skip /\ keep' = keep /\ phase' = phase
          /\ cmd' = cmd /\ pc = "remove" /\ result = "none"
      BY <1>5 DEF RemoveEnds, app, target, Versions, server, ControlOK
    <2>2. \/ result' = "error" /\ pc' = "returned"
          \/ /\ Versions(app) \subseteq {keep}
             /\ \/ phase = "finish" /\ result' = "ok" /\ pc' = "returned"
                \/ /\ phase = "rollback" /\ cmd = "upgradeModule"
                   /\ pc' = "rollbackTenant" /\ result' = result
                \/ /\ phase = "rollback" /\ cmd # "upgradeModule"
                   /\ result' = "rolled back" /\ pc' = "returned"
      BY <1>5 DEF RemoveEnds, CommandOK
    <2>3. CommandOK'
      BY <1>5, <2>1, <2>2 DEF RemoveEnds, CommandOK
    <2>4. ControlOK' /\ KeepOK'
      BY <2>1, <2>2 DEF ControlOK, KeepOK, Registering
    <2>5. /\ \A v \in Versions(app) : v \in Version /\ v # 0
          /\ \A v \in Version : Exists(app, v) => v \in Versions(app)
      BY VersionFacts DEF Versions, Exists
    <2>6. SuccessRepairs'
      <3>1. SUFFICES ASSUME result' = "ok", skip = {}
            PROVE  LET left == IF cmd = "undeployApplication" THEN {} ELSE {target}
                   IN  /\ Versions(app) = left
                       /\ \A t \in Tenant : entitled[t][app] \in left \union {0}
        BY <2>1 DEF SuccessRepairs, Succeeded, server
      <3>2. phase = "finish" /\ Versions(app) \subseteq {keep}
        BY <2>1, <2>2, <3>1
      <3>3. \A t \in Tenant : entitled[t][app] # 0 => entitled[t][app] \in Versions(app)
        BY <1>a, <2>5, Entries DEF EntitledExists
      <3>4. CASE cmd = "undeployApplication"
        BY <2>1, <2>5, <3>2, <3>3, <3>4 DEF KeepOK
      <3>5. CASE cmd # "undeployApplication"
        <4>1. cmd \in Deploying
          BY <2>1, <3>5, LifecycleAssumption DEF CommandOK, ControlOK, Deploying
        <4>2. keep = target /\ Exists(app, target)
          BY <2>1, <3>1, <3>2, <4>1 DEF KeepOK
        <4>3. target \in Version
          <5>1. prior \in Nat /\ keep \in Version \union {0}
            BY VersionFacts DEF CommandOK
          <5>2. target # 0
            BY <5>1 DEF target
          <5> QED BY <4>2, <5>1, <5>2
        <4> QED BY <2>5, <3>2, <3>3, <3>5, <4>2, <4>3
      <3> QED BY <3>4, <3>5
    <2>7. LocalRollback'
      <3>1. SUFFICES ASSUME result' = "rolled back", cmd = "runLocalModule"
            PROVE  Versions(app) = {prior} \ {0}
        BY <2>1 DEF LocalRollback, app
      <3>2. /\ Versions(app) \subseteq {keep}
            /\ keep = prior /\ (prior = 0 \/ Exists(app, prior))
            /\ prior \in Version \union {0}
        BY <2>1, <2>2, <3>1 DEF KeepOK, CommandOK
      <3> QED BY <2>5, <3>2
    <2> QED
      BY <2>1, <2>2, <2>3, <2>4, <2>6, <2>7, Elsewhere, ServerUntouched DEF Registering
  <1> QED BY <1>1, <1>2, <1>3, <1>4, <1>5 DEF CleanUp, Remove

\* Undeploying leaves the base application alone.
LEMMA UndeployStep ==
  ASSUME FlagsRegister, IInv, Undeploy
  PROVE  IInv'
  <1> USE DEF IInv, Return
  <1>1. CASE FindLocal
    <2>1. /\ Latest("local") \in Version \union {0}
          /\ Versions("local") # {} => Latest("local") \in Versions("local")
      BY LatestIsLast DEF App
    <2>2. /\ cmd = "undeployApplication" /\ result = "none" /\ app = "local" /\ app' = app
          /\ cmd' = cmd /\ UNCHANGED server
      BY <1>1 DEF FindLocal, ControlOK, app
    <2>3. module' \in ModuleVersion /\ prior' \in Version \union {0}
      <3>1. Versions("local") # {} => apps["local"][Latest("local")] \in ModuleVersion
        BY <2>1, Entries DEF Versions, App
      <3> QED BY <1>1, <2>1, <3>1 DEF FindLocal, CommandOK
    <2>4. todo' \subseteq Configured /\ pc' \in {"returned", "unentitle"}
      BY <1>1 DEF FindLocal, CommandOK
    <2>5. CommandOK'
      BY <1>1, <2>3, <2>4 DEF FindLocal, CommandOK
    <2>6. ControlOK' /\ KeepOK'
      BY <1>1 DEF FindLocal, ControlOK, KeepOK, Registering
    <2>7. result' \in {"error", "none"} \/ (result' = "ok" /\ Versions("local") = {})
      BY <1>1, <2>2 DEF FindLocal
    <2>8. SuccessRepairs' /\ LocalRollback'
      <3>1. CASE result' \in {"error", "none"}
        BY <3>1, NothingClaimed
      <3>2. CASE result' = "ok" /\ Versions("local") = {}
        <4>1. \A t \in Tenant : entitled[t]["local"] = 0
          BY <3>2, Entries DEF EntitledExists, Exists, Versions, App
        <4>2. Versions(app)' = {} /\ entitled' = entitled
          BY <2>2, <3>2 DEF Versions, server
        <4> QED BY <2>2, <3>2, <4>1, <4>2 DEF SuccessRepairs, LocalRollback
      <3> QED BY <2>7, <3>1, <3>2
    <2> QED BY <2>2, <2>4, <2>5, <2>6, <2>8, Elsewhere, ServerUntouched DEF Registering
  <1>2. ASSUME NEW t \in Tenant, UnentitleTenant(t) PROVE IInv'
    <2>1. /\ apps' = apps /\ discovered' = discovered /\ pc' = "unentitle"
          /\ result' = "none"
      BY <1>2 DEF UnentitleTenant, ControlOK
    <2>2. "local" \in App /\ 0 \in Version \union {0}
      BY DEF App
    <2>3. /\ entitled' \in [Tenant -> [App -> Version \union {0}]]
          /\ \A u \in Tenant, a \in App :
               entitled'[u][a] = entitled[u][a] \/ (a = "local" /\ entitled'[u][a] = 0)
      <3>1. CASE entitled' = entitled
        <4>1. entitled \in [Tenant -> [App -> Version \union {0}]]
          BY DEF ServerOK
        <4> QED BY <3>1, <4>1
      <3>2. CASE entitled' = [entitled EXCEPT ![t]["local"] = 0]
        <4>1. /\ entitled' \in [Tenant -> [App -> Version \union {0}]]
              /\ entitled'[t]["local"] = 0
              /\ \A u \in Tenant, b \in App :
                   u # t \/ b # "local" => entitled'[u][b] = entitled[u][b]
          BY <2>2, <3>2, EntitledUpdate
        <4> QED BY <4>1
      <3> QED BY <1>2, <3>1, <3>2 DEF UnentitleTenant
    <2>4. ServerOK'
      BY <2>1, <2>3 DEF ServerOK
    <2>5. CommandOK'
      BY <1>2 DEF UnentitleTenant, CommandOK
    <2>6. ControlOK' /\ KeepOK'
      BY <1>2 DEF UnentitleTenant, ControlOK, KeepOK, Registering
    <2>7. EntitledExists'
      BY <2>1, <2>3 DEF EntitledExists, Exists
    <2>8. EntitledIsRoutable'
      <3>1. "base" \in App /\ "base" # "local"
        BY DEF App
      <3> QED BY <2>1, <2>3, <3>1 DEF EntitledIsRoutable
    <2> QED BY <2>1, <2>4, <2>5, <2>6, <2>7, <2>8, Elsewhere, NothingClaimed DEF Registering
  <1>3. CASE RemoveModuleDiscovery
    <2>1. /\ apps' = apps /\ entitled' = entitled /\ pc' \in {"returned", "remove"}
          /\ result' \in {"error", "none"} /\ (pc' = "remove" => result' = "none")
          /\ cmd = "undeployApplication" /\ cmd' = cmd
      BY <1>3 DEF RemoveModuleDiscovery, ControlOK
    <2>2. /\ discovered' \in [App -> SUBSET ModuleVersion]
          /\ \A a \in App : a # "local" => discovered'[a] = discovered[a]
      <3>1. CASE discovered' = discovered
        BY <3>1 DEF ServerOK
      <3>2. CASE discovered' = [discovered EXCEPT !["local"] = @ \ {module}]
        <4>1. discovered' = [discovered EXCEPT !["local"] = discovered["local"] \ {module}]
          BY <3>2
        <4>2. discovered["local"] \ {module} \in SUBSET ModuleVersion /\ "local" \in App
          BY Entries DEF App
        <4> QED BY <4>1, <4>2, DiscoveredUpdate
      <3> QED BY <1>3, <3>1, <3>2 DEF RemoveModuleDiscovery
    <2>3. ServerOK'
      BY <2>1, <2>2 DEF ServerOK
    <2>4. CommandOK'
      BY <1>3 DEF RemoveModuleDiscovery, CommandOK
    <2>5. ControlOK' /\ KeepOK'
      BY <1>3, <2>1 DEF RemoveModuleDiscovery, ControlOK, KeepOK, Registering, Deploying
    <2>6. EntitledExists' /\ EntitledIsRoutable'
      BY <2>1, <2>2 DEF EntitledExists, EntitledIsRoutable, Exists, App
    <2> QED BY <2>1, <2>3, <2>4, <2>5, <2>6, Elsewhere, NothingClaimed DEF Registering
  <1> QED BY <1>1, <1>2, <1>3 DEF Undeploy

\* The beginning and the end of a command, and a stutter, leave the server alone.
LEMMA OtherStep ==
  ASSUME FlagsRegister, IInv, ProcessEnds \/ UNCHANGED vars
         \/ \E c \in Commands, flags \in Flags : Start(c, flags)
  PROVE  IInv'
  <1> USE DEF IInv
  <1>1. ASSUME NEW c \in Commands, NEW flags \in Flags, Start(c, flags) PROVE IInv'
    <2>1. pc' \in {"find", "prepare"} /\ result' = "none" /\ UNCHANGED server
      BY <1>1 DEF Start
    <2>2. CommandOK'
      BY <1>1 DEF Start, CommandOK
    <2>3. ControlOK' /\ KeepOK'
      BY <1>1, LifecycleAssumption DEF Start, ControlOK, KeepOK, Deploying, Registering
    <2> QED BY <2>1, <2>2, <2>3, Elsewhere, ServerUntouched, NothingClaimed DEF Registering
  <1>2. CASE ProcessEnds
    <2>1. pc' = "idle" /\ result' = "none" /\ UNCHANGED server
      BY <1>2 DEF ProcessEnds
    <2>2. CommandOK'
      BY <1>2, LifecycleAssumption DEF ProcessEnds, CommandOK
    <2>3. ControlOK' /\ KeepOK'
      BY <1>2 DEF ProcessEnds, ControlOK, KeepOK, Registering
    <2> QED BY <2>1, <2>2, <2>3, Elsewhere, ServerUntouched, NothingClaimed DEF Registering
  <1>3. CASE UNCHANGED vars
    <2>1. /\ UNCHANGED server
          /\ UNCHANGED <<cmd, skip, pc, module, prior, todo, keep, phase, result>>
      BY <1>3 DEF vars, server
    <2>2. CommandOK'
      BY <2>1 DEF CommandOK, target
    <2>3. ControlOK' /\ KeepOK'
      BY <1>3 DEF vars, ControlOK, KeepOK, Exists, app, target
    <2>4. NextOK'
      BY <1>3
      DEF vars, NextOK, PriorFound, NothingBeyond, TargetLast, TargetModule,
          TargetDiscovered, MayEntitle, Exists, app, target
    <2>5. SuccessRepairs' /\ LocalRollback'
      BY <1>3 DEF vars, SuccessRepairs, Succeeded, LocalRollback, Versions, app, target
    <2> QED BY <2>1, <2>2, <2>3, <2>4, <2>5, ServerUntouched
  <1> QED BY <1>1, <1>2, <1>3

\* Every step keeps the invariant.
LEMMA Invariance == FlagsRegister => (IInv /\ [Next]_vars => IInv')
  BY RegisterStep, RemoveStep, UndeployStep, OtherStep DEF Next

\* The invariant holds in every state.
THEOREM InvHolds ==
  ASSUME FlagsRegister
  PROVE  Spec => []IInv
  BY InitHolds, Invariance, PTL DEF Spec

-----------------------------------------------------------------------------
\* Every variable stays in its domain: the versions a command reads, creates and
\* spares are versions (upgradeModule.go:101-145, runLocalModule.go:95-150).
THEOREM TypeCorrect ==
  ASSUME FlagsRegister
  PROVE  Spec => []TypeOK
  <1>1. IInv => TypeOK
    BY DEF IInv, ServerOK, CommandOK, TypeOK
  <1> QED BY <1>1, InvHolds, PTL

\* A run that succeeds leaves one version, or none, and nobody entitled to
\* another one, whatever any number of earlier runs left
\* (management_svc_application.go RemoveApplications).
THEOREM SuccessRepairsHolds ==
  ASSUME FlagsRegister
  PROVE  Spec => []SuccessRepairs
  BY InvHolds, PTL DEF IInv

\* In every state of every run a tenant that is entitled to a version of the base
\* application finds it registered and its module in discovery
\* (upgradeModule.go:118-145).
THEOREM EntitledIsRoutableHolds ==
  ASSUME FlagsRegister
  PROVE  Spec => []EntitledIsRoutable
  BY InvHolds, PTL DEF IInv

\* A rolled back runLocalModule leaves the version it found
\* (runLocalModule.go:142).
THEOREM LocalRollbackHolds ==
  ASSUME FlagsRegister
  PROVE  Spec => []LocalRollback
  BY InvHolds, PTL DEF IInv

\* Only the entitlement of a tenant to a new version changes what it has, and that
\* version is beyond every other.
LEMMA StepLowersNothing == IInv /\ [Next]_vars => NoEntitlementLowered \/ UNCHANGED vars
  <1> SUFFICES ASSUME IInv, Next PROVE NoEntitlementLowered
    OBVIOUS
  <1> USE DEF IInv
  <1>1. \A t \in Tenant, a \in App : entitled[t][a] \in Nat
    BY Entries, VersionFacts
  <1>2. CASE UNCHANGED entitled
    BY <1>1, <1>2 DEF NoEntitlementLowered
  <1>3. ASSUME NEW t \in Tenant, EntitleTenant(t) PROVE NoEntitlementLowered
    <2>1. /\ app \in App
          /\ target \in Version
          /\ \A v \in Version : Exists(app, v) => v <= target
      BY <1>3
      DEF CommandOK, NextOK, TargetLast, EntitleTenant, Registering, app, App
    <2>2. \A u \in Tenant : entitled[u][app] <= target
      <3>1. target \in Nat
        BY <2>1, VersionFacts
      <3> QED BY <1>1, <2>1, <3>1, Entries DEF EntitledExists
    <2>3. CASE entitled' = [entitled EXCEPT ![t][app] = target]
      <3>1. target \in Version \union {0}
        BY <2>1
      <3>2. /\ entitled'[t][app] = target
            /\ \A u \in Tenant, b \in App :
                 u # t \/ b # app => entitled'[u][b] = entitled[u][b]
        BY <2>1, <2>3, <3>1, EntitledUpdate
      <3> QED BY <1>1, <2>2, <3>2 DEF NoEntitlementLowered
    <2> QED BY <1>2, <1>3, <2>3 DEF EntitleTenant
  <1>4. ASSUME NEW t \in Tenant, UnentitleTenant(t) PROVE NoEntitlementLowered
    BY <1>4 DEF UnentitleTenant, NoEntitlementLowered, ControlOK
  <1> QED
    BY <1>2, <1>3, <1>4
    DEF Next, Start, Prepare, CreateNewApplication, CreateNewModuleDiscovery, Entitle,
        GetTenants, EntitleEnds, CleanUp, RollbackTenants, RollbackTenant, RollbackEnds,
        Remove, RemoveVersion, RemoveEnds, Undeploy, FindLocal, RemoveModuleDiscovery,
        ProcessEnds, server

\* Over any sequence of failed, killed and repeated runs of upgradeModule and
\* runLocalModule no tenant goes back to an earlier version
\* (management_svc_entitlement.go:95-180).
THEOREM EntitlementsOnlyGrowHolds ==
  ASSUME FlagsRegister
  PROVE  Spec => EntitlementsOnlyGrow
  BY InvHolds, StepLowersNothing, PTL DEF Spec, EntitlementsOnlyGrow

=============================================================================
