-------------------------- MODULE ModuleVersionsProofs --------------------------
(***************************************************************************)
(* Proofs about ModuleVersions, for every set of modules and applications, *)
(* every number of releases and every release whose descriptors the        *)
(* registry lacks.                                                         *)
(*                                                                         *)
(* The inductive invariant says where a command is (RequestOK), that the   *)
(* goroutines fetch one release (FetchOK), that every list in memory or in *)
(* the file is one release (ListOK), that no sidecar outlives the managers *)
(* (SidecarOK), and follows a deployment from nothing (FreshOK) and an     *)
(* exchange of a pair (ExchangeOK) to their success.                       *)
(***************************************************************************)
EXTENDS ModuleVersions, TLAPS

Exchange == {"intercept", "restore"}
Fetching == {"fetch", "truncate", "write"}
Reading == Fetching \union {"getModules"}

\* The control point fits the command and the place GetModules returns to.  The
\* module of an exchange is registered, and the managers answered.
RequestOK ==
    /\ pc \in Reading => back # "none"
    /\ back \in {"management", "modules"} => cmd = "deploy"
    /\ back = "pair" => cmd \in Exchange /\ registered[target] # 0 /\ ManagersAnswer
    /\ cmd \in Exchange \union {"redirect", "reset"} => target \in Target
    /\ pc = "management" => back = "management"
    /\ pc \in {"modules", "application", "discovery"} => back = "modules"
    /\ pc \in {"pair", "network", "module", "sidecar", "ready"} => back = "pair"
    /\ pc = "lookup" => cmd \in Exchange \union {"redirect", "reset"} /\ back = "none"
    /\ pc = "route" => back = "pair" \/ cmd \in {"redirect", "reset"}
    /\ pc \in {"undeployModules", "undeployManagement", "undeploySystem"} => back = "none"

\* Every goroutine asks for the applications of the descriptor that was read.
FetchOK ==
    /\ snapshot \in 0 .. release
    /\ pc \in Fetching =>
         /\ snapshot # 0
         /\ \A a \in Application : fetched[a] \in {0, snapshot}
    /\ pc \in {"truncate", "write"} => \A a \in Application : fetched[a] = snapshot

OneRelease(l) == \E r \in 1 .. release : l = Listing(r)

ListOK == list = Empty \/ OneRelease(list)

NoSidecar == \A m \in Backend : sidecar[m] = 0

\* Modules with a sidecar go before the managers and come after them.
SidecarOK ==
    /\ NoSidecar \/ ManagersAnswer
    /\ pc \in {"undeployManagement", "undeploySystem"} => NoSidecar
    /\ back = "modules" => ManagersAnswer /\ Management # {}

\* Every pair was created from the list.
PairsListed ==
    /\ OneRelease(list)
    /\ \A m \in Backend : image[m] = list[m] /\ sidecar[m] = list[m]

\* A deployment that began with nothing finds nothing of another version.
FreshOK ==
    /\ fresh = "yes" => cmd = "deploy"
    /\ fresh = "yes" /\ pc \in Reading \union {"management", "modules"} =>
         /\ application = "none"
         /\ \A m \in Backend : image[m] = 0
         /\ Management # {} => NoSidecar
    /\ fresh = "yes" /\ pc = "application" => application = "none" /\ PairsListed
    /\ fresh = "yes" /\ pc = "discovery" =>
         /\ application = "registered"
         /\ PairsListed
         /\ \A m \in Backend : registered[m] = list[m]

\* What an exchange has done of the pair it is about
ExchangeOK ==
    /\ pc \in {"module", "sidecar", "ready"} => (target \in redirected <=> cmd = "intercept")
    /\ pc = "module" => cmd = "restore"
    /\ pc \in {"sidecar", "ready"} /\ cmd = "restore" => image[target] = registered[target]
    /\ pc = "ready" =>
         /\ sidecar[target] = registered[target]
         /\ target \in custom <=> cmd = "intercept"

IInv ==
    /\ TypeOK
    /\ RequestOK
    /\ FetchOK
    /\ FileIsOneRelease
    /\ ListOK
    /\ SidecarOK
    /\ FreshOK
    /\ ExchangeOK
    /\ FreshDeploymentAgrees
    /\ InterceptionRouted

-----------------------------------------------------------------------------
\* The invariant holds initially.
LEMMA InitHolds == Init => IInv
  <1> SUFFICES ASSUME Init PROVE IInv
    OBVIOUS
  <1> USE VersionsAssumption DEF Init
  <1>1. TypeOK
    BY DEF TypeOK, Release, Version, Empty
  <1>2. RequestOK /\ FetchOK /\ SidecarOK
    BY DEF RequestOK, FetchOK, SidecarOK, NoSidecar, Reading, Fetching, Exchange
  <1>3. FileIsOneRelease /\ ListOK
    BY DEF FileIsOneRelease, ListOK
  <1>4. FreshOK /\ ExchangeOK /\ FreshDeploymentAgrees /\ InterceptionRouted
    BY DEF FreshOK, ExchangeOK, FreshDeploymentAgrees, InterceptionRouted, Succeeded
  <1> QED BY <1>1, <1>2, <1>3, <1>4 DEF IInv

\* The newest release only grows: what was one release stays one.
LEMMA OneReleaseStays ==
  ASSUME TypeOK, release' \in Release, release <= release', NEW l, OneRelease(l)
  PROVE  OneRelease(l)'
  BY VersionsAssumption DEF TypeOK, OneRelease, Release

\* What GetModules returns, and keeps, is one release.
LEMMA ReadingStep ==
  ASSUME IInv, GetModules
  PROVE  IInv'
  <1> USE VersionsAssumption DEF IInv, Goto, Return, containers, manager, registry,
         Reading, Fetching, Exchange
  <1>1. CASE ReadModulesLocalFile
    <2>1. pc' # "returned" \/ result' # "ok"
      BY <1>1 DEF ReadModulesLocalFile, RequestOK, TypeOK
    <2>2. TypeOK'
      BY <1>1, <2>1 DEF ReadModulesLocalFile, TypeOK, RequestOK, Release, Version, Module
    <2>3. RequestOK' /\ FetchOK' /\ SidecarOK'
      BY <1>1, <2>1
      DEF ReadModulesLocalFile, RequestOK, FetchOK, SidecarOK, NoSidecar,
          ManagersAnswer, TypeOK
    <2>4. FileIsOneRelease' /\ ListOK'
      BY <1>1, <2>1 DEF ReadModulesLocalFile, FileIsOneRelease, ListOK, OneRelease
    <2>5. FreshOK'
      BY <1>1, <2>1
      DEF ReadModulesLocalFile, FreshOK, TypeOK, Module, PairsListed, NoSidecar,
          OneRelease, RequestOK
    <2>6. ExchangeOK'
      BY <1>1, <2>1 DEF ReadModulesLocalFile, ExchangeOK, RequestOK, TypeOK, Module
    <2>7. FreshDeploymentAgrees'
      BY <1>1, <2>1
      DEF ReadModulesLocalFile, FreshDeploymentAgrees, Succeeded, ManagersAnswer,
          RequestOK
    <2>8. InterceptionRouted'
      BY <1>1, <2>1
      DEF ReadModulesLocalFile, InterceptionRouted, Succeeded, ExchangeOK, RequestOK
    <2> QED BY <2>2, <2>3, <2>4, <2>5, <2>6, <2>7, <2>8
  <1>2. CASE FetchDescriptor
    <2>1. TypeOK'
      BY <1>2 DEF FetchDescriptor, TypeOK, Release, Version
    <2>2. RequestOK'
      BY <1>2 DEF FetchDescriptor, RequestOK, ManagersAnswer, TypeOK, Module
    <2>3. FetchOK'
      BY <1>2 DEF FetchDescriptor, FetchOK, RequestOK, TypeOK, Release, Version
    <2>4. SidecarOK'
      BY <1>2
      DEF FetchDescriptor, SidecarOK, RequestOK, NoSidecar, ManagersAnswer, TypeOK,
          Module
    <2>5. FileIsOneRelease' /\ ListOK'
      BY <1>2 DEF FetchDescriptor, FileIsOneRelease, ListOK, OneRelease
    <2>6. FreshOK' /\ ExchangeOK' /\ FreshDeploymentAgrees' /\ InterceptionRouted'
      BY <1>2
      DEF FetchDescriptor, FreshOK, PairsListed, NoSidecar, OneRelease, ExchangeOK,
          FreshDeploymentAgrees, InterceptionRouted, Succeeded, ManagersAnswer,
          RequestOK
    <2> QED BY <2>1, <2>2, <2>3, <2>4, <2>5, <2>6
  <1>3. ASSUME NEW a \in Application, FetchApplication(a) PROVE IInv'
    <2>1. TypeOK'
      BY <1>3 DEF FetchApplication, TypeOK, Release, Version
    <2>2. RequestOK' /\ FetchOK' /\ SidecarOK'
      BY <1>3
      DEF FetchApplication, RequestOK, FetchOK, SidecarOK, NoSidecar, ManagersAnswer,
          TypeOK
    <2>3. FileIsOneRelease' /\ ListOK'
      BY <1>3 DEF FetchApplication, FileIsOneRelease, ListOK, OneRelease
    <2>4. FreshOK' /\ ExchangeOK' /\ FreshDeploymentAgrees' /\ InterceptionRouted'
      BY <1>3
      DEF FetchApplication, FreshOK, PairsListed, NoSidecar, OneRelease, ExchangeOK,
          FreshDeploymentAgrees, InterceptionRouted, Succeeded, ManagersAnswer,
          RequestOK
    <2> QED BY <2>1, <2>2, <2>3, <2>4
  <1>4. CASE JoinFetches
    <2>1. TypeOK'
      BY <1>4 DEF JoinFetches, TypeOK, Release, Version
    <2>2. RequestOK' /\ FetchOK' /\ SidecarOK'
      BY <1>4
      DEF JoinFetches, RequestOK, FetchOK, SidecarOK, NoSidecar, ManagersAnswer, TypeOK
    <2>3. FileIsOneRelease' /\ ListOK'
      BY <1>4 DEF JoinFetches, FileIsOneRelease, ListOK, OneRelease
    <2>4. FreshOK' /\ ExchangeOK' /\ FreshDeploymentAgrees' /\ InterceptionRouted'
      BY <1>4
      DEF JoinFetches, FreshOK, PairsListed, NoSidecar, OneRelease, ExchangeOK,
          FreshDeploymentAgrees, InterceptionRouted, Succeeded, ManagersAnswer,
          RequestOK
    <2> QED BY <2>1, <2>2, <2>3, <2>4
  <1>5. CASE TruncateFile
    <2>1. TypeOK'
      BY <1>5 DEF TruncateFile, TypeOK, Release, Version, Empty
    <2>2. RequestOK' /\ FetchOK' /\ SidecarOK'
      BY <1>5
      DEF TruncateFile, RequestOK, FetchOK, SidecarOK, NoSidecar, ManagersAnswer,
          TypeOK
    <2>3. FileIsOneRelease' /\ ListOK'
      BY <1>5 DEF TruncateFile, FileIsOneRelease, ListOK, OneRelease
    <2>4. FreshOK' /\ ExchangeOK' /\ FreshDeploymentAgrees' /\ InterceptionRouted'
      BY <1>5
      DEF TruncateFile, FreshOK, PairsListed, NoSidecar, OneRelease, ExchangeOK,
          FreshDeploymentAgrees, InterceptionRouted, Succeeded, ManagersAnswer,
          RequestOK
    <2> QED BY <2>1, <2>2, <2>3, <2>4
  <1>6. CASE WriteFile
    <2>1. OneRelease(Collected)
      <3>1. /\ \A a \in Application : fetched[a] = snapshot
            /\ snapshot # 0 /\ snapshot \in 0 .. release /\ release \in Nat
        BY <1>6 DEF WriteFile, FetchOK, Fetching, TypeOK, Release
      <3>2. \A m \in Backend : m \notin Management /\ Home[m] \in Application
        BY VersionsAssumption
      <3>3. \A m \in Module : m \in Management \/ m \in Backend
        BY DEF Module
      <3>4. Collected = Listing(snapshot)
        BY <3>1, <3>2, <3>3 DEF Collected, Listing
      <3>5. snapshot \in 1 .. release
        BY <3>1
      <3> QED BY <3>4, <3>5 DEF OneRelease
    <2>2. Collected \in [Module -> Version]
      BY <1>6 DEF WriteFile, Collected, FetchOK, TypeOK, Release, Version, Module
    <2>3. pc' # "returned" \/ result' # "ok"
      BY <1>6 DEF WriteFile, RequestOK, TypeOK
    <2>4. TypeOK'
      BY <1>6, <2>1, <2>2, <2>3
      DEF WriteFile, TypeOK, RequestOK, Release, Version, Module, Empty
    <2>5. RequestOK' /\ FetchOK' /\ SidecarOK'
      BY <1>6, <2>1, <2>2, <2>3
      DEF WriteFile, RequestOK, FetchOK, SidecarOK, NoSidecar, ManagersAnswer, TypeOK
    <2>6. FileIsOneRelease' /\ ListOK'
      BY <1>6, <2>1, <2>2, <2>3 DEF WriteFile, FileIsOneRelease, ListOK, OneRelease
    <2>7. FreshOK'
      BY <1>6, <2>1, <2>2, <2>3
      DEF WriteFile, FreshOK, TypeOK, Module, PairsListed, NoSidecar, OneRelease,
          RequestOK
    <2>8. ExchangeOK'
      BY <1>6, <2>1, <2>2, <2>3 DEF WriteFile, ExchangeOK, RequestOK, TypeOK, Module
    <2>9. FreshDeploymentAgrees'
      BY <1>6, <2>1, <2>2, <2>3
      DEF WriteFile, FreshDeploymentAgrees, Succeeded, ManagersAnswer, RequestOK
    <2>10. InterceptionRouted'
      BY <1>6, <2>1, <2>2, <2>3
      DEF WriteFile, InterceptionRouted, Succeeded, ExchangeOK, RequestOK
    <2> QED BY <2>4, <2>5, <2>6, <2>7, <2>8, <2>9, <2>10
  <1> QED BY <1>1, <1>2, <1>3, <1>4, <1>5, <1>6 DEF GetModules

\* A deployment creates from the list, and registers what it created.
LEMMA DeployStep ==
  ASSUME IInv, DeployApplication
  PROVE  IInv'
  <1> USE VersionsAssumption DEF IInv, Goto, Return, containers, manager, registry,
         Reading, Fetching, Exchange
  <1>1. CASE DeployManagement
    <2>1. Matched(Management) # {} => \A m \in Management : list[m] # 0
      BY DEF Matched, ListOK, OneRelease, Listing, Empty, Module, TypeOK, Release
    <2>2. TypeOK'
      BY <1>1, <2>1
      DEF DeployManagement, Deploy, Missing, Matched, TypeOK, RequestOK, Release,
          Version, Module
    <2>3. RequestOK'
      BY <1>1, <2>1
      DEF DeployManagement, Deploy, Missing, Matched, RequestOK, ManagersAnswer,
          TypeOK, Module
    <2>4. FetchOK'
      BY <1>1, <2>1
      DEF DeployManagement, Deploy, Missing, Matched, FetchOK, RequestOK, TypeOK,
          Release, Version
    <2>5. SidecarOK'
      BY <1>1, <2>1
      DEF DeployManagement, Deploy, Missing, Matched, SidecarOK, RequestOK, NoSidecar,
          ManagersAnswer, TypeOK, Module
    <2>6. FileIsOneRelease' /\ ListOK'
      BY <1>1, <2>1
      DEF DeployManagement, Deploy, Missing, Matched, FileIsOneRelease, ListOK,
          OneRelease
    <2>7. FreshOK'
      BY <1>1, <2>1
      DEF DeployManagement, Deploy, Missing, Matched, FreshOK, TypeOK, Module,
          PairsListed, NoSidecar, OneRelease, RequestOK
    <2>8. ExchangeOK'
      BY <1>1, <2>1
      DEF DeployManagement, Deploy, Missing, Matched, ExchangeOK, RequestOK, TypeOK,
          Module
    <2>9. FreshDeploymentAgrees'
      BY <1>1, <2>1
      DEF DeployManagement, Deploy, Missing, Matched, FreshDeploymentAgrees, Succeeded,
          ManagersAnswer, RequestOK
    <2>10. InterceptionRouted'
      BY <1>1, <2>1
      DEF DeployManagement, Deploy, Missing, Matched, InterceptionRouted, Succeeded,
          ExchangeOK, RequestOK
    <2> QED BY <2>2, <2>3, <2>4, <2>5, <2>6, <2>7, <2>8, <2>9, <2>10
  <1>2. CASE DeployModules
    <2>1. Matched(Backend) # {} => OneRelease(list)
      BY DEF Matched, ListOK, Empty, Module
    <2>2. fresh = "yes" => NoSidecar /\ \A m \in Backend : image[m] = 0
      BY <1>2 DEF DeployModules, FreshOK, SidecarOK, RequestOK
    <2>3. TypeOK'
      BY <1>2, <2>1, <2>2
      DEF DeployModules, Deploy, Missing, Matched, TypeOK, RequestOK, Release, Version,
          Module
    <2>4. RequestOK'
      BY <1>2, <2>1, <2>2
      DEF DeployModules, Deploy, Missing, Matched, RequestOK, ManagersAnswer, TypeOK,
          Module
    <2>5. FetchOK'
      BY <1>2, <2>1, <2>2
      DEF DeployModules, Deploy, Missing, Matched, FetchOK, RequestOK, TypeOK, Release,
          Version
    <2>6. SidecarOK'
      BY <1>2, <2>1, <2>2
      DEF DeployModules, Deploy, Missing, Matched, SidecarOK, RequestOK, NoSidecar,
          ManagersAnswer, TypeOK, Module
    <2>7. FileIsOneRelease' /\ ListOK'
      BY <1>2, <2>1, <2>2
      DEF DeployModules, Deploy, Missing, Matched, FileIsOneRelease, ListOK, OneRelease
    <2>8. FreshOK'
      BY <1>2, <2>1, <2>2
      DEF DeployModules, Deploy, Missing, Matched, FreshOK, TypeOK, Module,
          PairsListed, NoSidecar, OneRelease, RequestOK
    <2>9. ExchangeOK'
      BY <1>2, <2>1, <2>2
      DEF DeployModules, Deploy, Missing, Matched, ExchangeOK, RequestOK, TypeOK,
          Module
    <2>10. FreshDeploymentAgrees'
      BY <1>2, <2>1, <2>2
      DEF DeployModules, Deploy, Missing, Matched, FreshDeploymentAgrees, Succeeded,
          ManagersAnswer, RequestOK
    <2>11. InterceptionRouted'
      BY <1>2, <2>1, <2>2
      DEF DeployModules, Deploy, Missing, Matched, InterceptionRouted, Succeeded,
          ExchangeOK, RequestOK
    <2> QED BY <2>3, <2>4, <2>5, <2>6, <2>7, <2>8, <2>9, <2>10, <2>11
  <1>3. CASE CreateApplication
    <2>1. ~(fresh = "yes" /\ Succeeded')
      BY <1>3 DEF CreateApplication, Succeeded, FreshOK
    <2>2. TypeOK'
      BY <1>3, <2>1 DEF CreateApplication, TypeOK, RequestOK, Release, Version, Module
    <2>3. RequestOK' /\ FetchOK' /\ SidecarOK'
      BY <1>3, <2>1
      DEF CreateApplication, RequestOK, FetchOK, SidecarOK, NoSidecar, ManagersAnswer,
          TypeOK
    <2>4. FileIsOneRelease' /\ ListOK'
      BY <1>3, <2>1 DEF CreateApplication, FileIsOneRelease, ListOK, OneRelease
    <2>5. FreshOK'
      BY <1>3, <2>1
      DEF CreateApplication, FreshOK, TypeOK, Module, PairsListed, NoSidecar,
          OneRelease, RequestOK
    <2>6. ExchangeOK'
      BY <1>3, <2>1 DEF CreateApplication, ExchangeOK, RequestOK, TypeOK, Module
    <2>7. FreshDeploymentAgrees'
      BY <1>3, <2>1
      DEF CreateApplication, FreshDeploymentAgrees, Succeeded, ManagersAnswer,
          RequestOK
    <2>8. InterceptionRouted'
      BY <1>3, <2>1
      DEF CreateApplication, InterceptionRouted, Succeeded, ExchangeOK, RequestOK
    <2> QED BY <2>2, <2>3, <2>4, <2>5, <2>6, <2>7, <2>8
  <1>4. CASE CreateDiscovery
    <2>1. fresh = "yes" => \E r \in Release : \A m \in Backend :
           image[m] = Listing(r)[m] /\ sidecar[m] = image[m] /\ registered[m] = image[m]
      BY <1>4 DEF CreateDiscovery, FreshOK, PairsListed, OneRelease, TypeOK, Release
    <2>2. ManagersAnswer
      BY <1>4 DEF CreateDiscovery, RequestOK, SidecarOK
    <2>3. TypeOK'
      BY <1>4, <2>1, <2>2 DEF CreateDiscovery, TypeOK, Release, Version
    <2>4. RequestOK' /\ FetchOK' /\ SidecarOK'
      BY <1>4, <2>1, <2>2
      DEF CreateDiscovery, RequestOK, FetchOK, SidecarOK, NoSidecar, ManagersAnswer,
          TypeOK
    <2>5. FileIsOneRelease' /\ ListOK'
      BY <1>4, <2>1, <2>2 DEF CreateDiscovery, FileIsOneRelease, ListOK, OneRelease
    <2>6. FreshOK'
      BY <1>4, <2>1, <2>2
      DEF CreateDiscovery, FreshOK, TypeOK, Module, PairsListed, NoSidecar, OneRelease,
          RequestOK
    <2>7. ExchangeOK'
      BY <1>4, <2>1, <2>2 DEF CreateDiscovery, ExchangeOK, RequestOK, TypeOK, Module
    <2>8. FreshDeploymentAgrees'
      BY <1>4, <2>1, <2>2
      DEF CreateDiscovery, FreshDeploymentAgrees, Succeeded, ManagersAnswer, RequestOK
    <2>9. InterceptionRouted'
      BY <1>4, <2>1, <2>2
      DEF CreateDiscovery, InterceptionRouted, Succeeded, ExchangeOK, RequestOK
    <2> QED BY <2>3, <2>4, <2>5, <2>6, <2>7, <2>8, <2>9
  <1> QED BY <1>1, <1>2, <1>3, <1>4 DEF DeployApplication

\* The managers go when no sidecar is left.
LEMMA UndeployStep ==
  ASSUME IInv, UndeployApplication
  PROVE  IInv'
  <1> USE VersionsAssumption DEF IInv, Goto, Return, containers, manager, registry,
         Reading, Fetching, Exchange
  <1>1. CASE UndeployModules
    <2>1. TypeOK'
      BY <1>1 DEF UndeployModules, Undeploy, TypeOK, RequestOK, Release, Version, Module
    <2>2. RequestOK'
      BY <1>1 DEF UndeployModules, Undeploy, RequestOK, ManagersAnswer, TypeOK, Module
    <2>3. FetchOK'
      BY <1>1 DEF UndeployModules, Undeploy, FetchOK, RequestOK, TypeOK, Release, Version
    <2>4. SidecarOK'
      BY <1>1
      DEF UndeployModules, Undeploy, SidecarOK, RequestOK, NoSidecar, ManagersAnswer,
          TypeOK, Module
    <2>5. FileIsOneRelease' /\ ListOK'
      BY <1>1 DEF UndeployModules, Undeploy, FileIsOneRelease, ListOK, OneRelease
    <2>6. FreshOK' /\ ExchangeOK' /\ FreshDeploymentAgrees' /\ InterceptionRouted'
      BY <1>1
      DEF UndeployModules, Undeploy, FreshOK, PairsListed, NoSidecar, OneRelease,
          ExchangeOK, FreshDeploymentAgrees, InterceptionRouted, Succeeded,
          ManagersAnswer, RequestOK
    <2> QED BY <2>1, <2>2, <2>3, <2>4, <2>5, <2>6
  <1>2. CASE UndeployManagement
    <2>1. TypeOK'
      BY <1>2
      DEF UndeployManagement, Undeploy, TypeOK, RequestOK, Release, Version, Module
    <2>2. RequestOK'
      BY <1>2 DEF UndeployManagement, Undeploy, RequestOK, ManagersAnswer, TypeOK, Module
    <2>3. FetchOK'
      BY <1>2
      DEF UndeployManagement, Undeploy, FetchOK, RequestOK, TypeOK, Release, Version
    <2>4. SidecarOK'
      BY <1>2
      DEF UndeployManagement, Undeploy, SidecarOK, RequestOK, NoSidecar,
          ManagersAnswer, TypeOK, Module
    <2>5. FileIsOneRelease' /\ ListOK'
      BY <1>2 DEF UndeployManagement, Undeploy, FileIsOneRelease, ListOK, OneRelease
    <2>6. FreshOK' /\ ExchangeOK' /\ FreshDeploymentAgrees' /\ InterceptionRouted'
      BY <1>2
      DEF UndeployManagement, Undeploy, FreshOK, PairsListed, NoSidecar, OneRelease,
          ExchangeOK, FreshDeploymentAgrees, InterceptionRouted, Succeeded,
          ManagersAnswer, RequestOK
    <2> QED BY <2>1, <2>2, <2>3, <2>4, <2>5, <2>6
  <1>3. CASE UndeploySystem
    <2>1. TypeOK'
      BY <1>3 DEF UndeploySystem, TypeOK, Release, Version
    <2>2. RequestOK' /\ FetchOK' /\ SidecarOK'
      BY <1>3
      DEF UndeploySystem, RequestOK, FetchOK, SidecarOK, NoSidecar, ManagersAnswer,
          TypeOK
    <2>3. FileIsOneRelease' /\ ListOK'
      BY <1>3 DEF UndeploySystem, FileIsOneRelease, ListOK, OneRelease
    <2>4. FreshOK' /\ ExchangeOK' /\ FreshDeploymentAgrees' /\ InterceptionRouted'
      BY <1>3
      DEF UndeploySystem, FreshOK, PairsListed, NoSidecar, OneRelease, ExchangeOK,
          FreshDeploymentAgrees, InterceptionRouted, Succeeded, ManagersAnswer,
          RequestOK
    <2> QED BY <2>1, <2>2, <2>3, <2>4
  <1> QED BY <1>1, <1>2, <1>3 DEF UndeployApplication

\* An exchange works on the version discovery names.
LEMMA InterceptStep ==
  ASSUME IInv, InterceptModule
  PROVE  IInv'
  <1> USE VersionsAssumption DEF IInv, Goto, Return, containers, manager, registry,
         Reading, Fetching, Exchange
  <1>1. CASE LookupDiscovery
    <2>1. TypeOK'
      BY <1>1 DEF LookupDiscovery, Discovered, TypeOK, RequestOK, Release, Version, Module
    <2>2. RequestOK'
      BY <1>1 DEF LookupDiscovery, Discovered, RequestOK, ManagersAnswer, TypeOK, Module
    <2>3. FetchOK'
      BY <1>1
      DEF LookupDiscovery, Discovered, FetchOK, RequestOK, TypeOK, Release, Version
    <2>4. SidecarOK'
      BY <1>1
      DEF LookupDiscovery, Discovered, SidecarOK, RequestOK, NoSidecar, ManagersAnswer,
          TypeOK, Module
    <2>5. FileIsOneRelease' /\ ListOK'
      BY <1>1 DEF LookupDiscovery, Discovered, FileIsOneRelease, ListOK, OneRelease
    <2>6. FreshOK' /\ ExchangeOK' /\ FreshDeploymentAgrees' /\ InterceptionRouted'
      BY <1>1
      DEF LookupDiscovery, Discovered, FreshOK, PairsListed, NoSidecar, OneRelease,
          ExchangeOK, FreshDeploymentAgrees, InterceptionRouted, Succeeded,
          ManagersAnswer, RequestOK
    <2> QED BY <2>1, <2>2, <2>3, <2>4, <2>5, <2>6
  <1>2. CASE UndeployPair
    <2>1. TypeOK'
      BY <1>2 DEF UndeployPair, Undeploy, TypeOK, RequestOK, Release, Version, Module
    <2>2. RequestOK'
      BY <1>2 DEF UndeployPair, Undeploy, RequestOK, ManagersAnswer, TypeOK, Module
    <2>3. FetchOK'
      BY <1>2 DEF UndeployPair, Undeploy, FetchOK, RequestOK, TypeOK, Release, Version
    <2>4. SidecarOK'
      BY <1>2
      DEF UndeployPair, Undeploy, SidecarOK, RequestOK, NoSidecar, ManagersAnswer,
          TypeOK, Module
    <2>5. FileIsOneRelease' /\ ListOK'
      BY <1>2 DEF UndeployPair, Undeploy, FileIsOneRelease, ListOK, OneRelease
    <2>6. FreshOK' /\ ExchangeOK' /\ FreshDeploymentAgrees' /\ InterceptionRouted'
      BY <1>2
      DEF UndeployPair, Undeploy, FreshOK, PairsListed, NoSidecar, OneRelease,
          ExchangeOK, FreshDeploymentAgrees, InterceptionRouted, Succeeded,
          ManagersAnswer, RequestOK
    <2> QED BY <2>1, <2>2, <2>3, <2>4, <2>5, <2>6
  <1>3. CASE PrepareNetwork
    <2>1. TypeOK'
      BY <1>3 DEF PrepareNetwork, TypeOK, Release, Version
    <2>2. RequestOK' /\ FetchOK' /\ SidecarOK'
      BY <1>3
      DEF PrepareNetwork, RequestOK, FetchOK, SidecarOK, NoSidecar, ManagersAnswer,
          TypeOK
    <2>3. FileIsOneRelease' /\ ListOK'
      BY <1>3 DEF PrepareNetwork, FileIsOneRelease, ListOK, OneRelease
    <2>4. FreshOK' /\ ExchangeOK' /\ FreshDeploymentAgrees' /\ InterceptionRouted'
      BY <1>3
      DEF PrepareNetwork, FreshOK, PairsListed, NoSidecar, OneRelease, ExchangeOK,
          FreshDeploymentAgrees, InterceptionRouted, Succeeded, ManagersAnswer,
          RequestOK
    <2> QED BY <2>1, <2>2, <2>3, <2>4
  <1>4. CASE UpdateModuleDiscovery
    <2>1. TypeOK'
      BY <1>4
      DEF UpdateModuleDiscovery, Redirect, AfterRoute, TypeOK, RequestOK, Release,
          Version, Module
    <2>2. RequestOK'
      BY <1>4
      DEF UpdateModuleDiscovery, Redirect, AfterRoute, RequestOK, ManagersAnswer,
          TypeOK, Module
    <2>3. FetchOK'
      BY <1>4
      DEF UpdateModuleDiscovery, Redirect, AfterRoute, FetchOK, RequestOK, TypeOK,
          Release, Version
    <2>4. SidecarOK'
      BY <1>4
      DEF UpdateModuleDiscovery, Redirect, AfterRoute, SidecarOK, RequestOK, NoSidecar,
          ManagersAnswer, TypeOK, Module
    <2>5. FileIsOneRelease' /\ ListOK'
      BY <1>4
      DEF UpdateModuleDiscovery, Redirect, AfterRoute, FileIsOneRelease, ListOK,
          OneRelease
    <2>6. FreshOK'
      BY <1>4
      DEF UpdateModuleDiscovery, Redirect, AfterRoute, FreshOK, TypeOK, Module,
          PairsListed, NoSidecar, OneRelease, RequestOK
    <2>7. ExchangeOK'
      BY <1>4
      DEF UpdateModuleDiscovery, Redirect, AfterRoute, ExchangeOK, RequestOK, TypeOK,
          Module
    <2>8. FreshDeploymentAgrees'
      BY <1>4
      DEF UpdateModuleDiscovery, Redirect, AfterRoute, FreshDeploymentAgrees,
          Succeeded, ManagersAnswer, RequestOK
    <2>9. InterceptionRouted'
      BY <1>4
      DEF UpdateModuleDiscovery, Redirect, AfterRoute, InterceptionRouted, Succeeded,
          ExchangeOK, RequestOK
    <2> QED BY <2>1, <2>2, <2>3, <2>4, <2>5, <2>6, <2>7, <2>8, <2>9
  <1>5. CASE DeployCustomModule
    <2>1. TypeOK'
      BY <1>5 DEF DeployCustomModule, TypeOK, Release, Version
    <2>2. RequestOK'
      BY <1>5 DEF DeployCustomModule, RequestOK, ManagersAnswer, TypeOK, Module
    <2>3. FetchOK'
      BY <1>5 DEF DeployCustomModule, FetchOK, RequestOK, TypeOK, Release, Version
    <2>4. SidecarOK'
      BY <1>5
      DEF DeployCustomModule, SidecarOK, RequestOK, NoSidecar, ManagersAnswer, TypeOK,
          Module
    <2>5. FileIsOneRelease' /\ ListOK'
      BY <1>5 DEF DeployCustomModule, FileIsOneRelease, ListOK, OneRelease
    <2>6. FreshOK'
      BY <1>5
      DEF DeployCustomModule, FreshOK, TypeOK, Module, PairsListed, NoSidecar,
          OneRelease, RequestOK
    <2>7. ExchangeOK'
      BY <1>5 DEF DeployCustomModule, ExchangeOK, RequestOK, TypeOK, Module
    <2>8. FreshDeploymentAgrees'
      BY <1>5
      DEF DeployCustomModule, FreshDeploymentAgrees, Succeeded, ManagersAnswer,
          RequestOK
    <2>9. InterceptionRouted'
      BY <1>5 DEF DeployCustomModule, InterceptionRouted, Succeeded, ExchangeOK, RequestOK
    <2> QED BY <2>1, <2>2, <2>3, <2>4, <2>5, <2>6, <2>7, <2>8, <2>9
  <1>6. CASE DeployCustomSidecar
    <2>1. TypeOK'
      BY <1>6 DEF DeployCustomSidecar, TypeOK, RequestOK, Release, Version, Module
    <2>2. RequestOK' /\ FetchOK' /\ SidecarOK'
      BY <1>6
      DEF DeployCustomSidecar, RequestOK, FetchOK, SidecarOK, NoSidecar,
          ManagersAnswer, TypeOK
    <2>3. FileIsOneRelease' /\ ListOK'
      BY <1>6 DEF DeployCustomSidecar, FileIsOneRelease, ListOK, OneRelease
    <2>4. FreshOK'
      BY <1>6
      DEF DeployCustomSidecar, FreshOK, TypeOK, Module, PairsListed, NoSidecar,
          OneRelease, RequestOK
    <2>5. ExchangeOK'
      BY <1>6 DEF DeployCustomSidecar, ExchangeOK, RequestOK, TypeOK, Module
    <2>6. FreshDeploymentAgrees'
      BY <1>6
      DEF DeployCustomSidecar, FreshDeploymentAgrees, Succeeded, ManagersAnswer,
          RequestOK
    <2>7. InterceptionRouted'
      BY <1>6
      DEF DeployCustomSidecar, InterceptionRouted, Succeeded, ExchangeOK, RequestOK
    <2> QED BY <2>1, <2>2, <2>3, <2>4, <2>5, <2>6, <2>7
  <1>7. CASE CheckModuleAndSidecarReadiness
    <2>1. TypeOK'
      BY <1>7 DEF CheckModuleAndSidecarReadiness, TypeOK, Release, Version
    <2>2. RequestOK' /\ FetchOK' /\ SidecarOK'
      BY <1>7
      DEF CheckModuleAndSidecarReadiness, RequestOK, FetchOK, SidecarOK, NoSidecar,
          ManagersAnswer, TypeOK
    <2>3. FileIsOneRelease' /\ ListOK'
      BY <1>7 DEF CheckModuleAndSidecarReadiness, FileIsOneRelease, ListOK, OneRelease
    <2>4. FreshOK' /\ ExchangeOK' /\ FreshDeploymentAgrees' /\ InterceptionRouted'
      BY <1>7
      DEF CheckModuleAndSidecarReadiness, FreshOK, PairsListed, NoSidecar, OneRelease,
          ExchangeOK, FreshDeploymentAgrees, InterceptionRouted, Succeeded,
          ManagersAnswer, RequestOK
    <2> QED BY <2>1, <2>2, <2>3, <2>4
  <1> QED BY <1>1, <1>2, <1>3, <1>4, <1>5, <1>6, <1>7 DEF InterceptModule

\* The registry, the end of a command and a stutter
LEMMA OtherStep ==
  ASSUME IInv, Publish \/ ProcessEnds \/ UNCHANGED vars
  PROVE  IInv'
  <1> USE VersionsAssumption DEF IInv, Goto, Return, containers, manager, registry,
         Reading, Fetching, Exchange
  <1>1. CASE Publish
    <2>1. \A l : OneRelease(l) => OneRelease(l)'
      BY <1>1, OneReleaseStays DEF Publish, TypeOK, Release
    <2>2. TypeOK'
      BY <1>1, <2>1 DEF Publish, TypeOK, Release, Version
    <2>3. RequestOK'
      BY <1>1, <2>1 DEF Publish, RequestOK, ManagersAnswer, TypeOK, Module
    <2>4. FetchOK'
      BY <1>1, <2>1 DEF Publish, FetchOK, RequestOK, TypeOK, Release, Version
    <2>5. SidecarOK'
      BY <1>1, <2>1
      DEF Publish, SidecarOK, RequestOK, NoSidecar, ManagersAnswer, TypeOK, Module
    <2>6. FileIsOneRelease'
      BY <1>1, <2>1 DEF Publish, FileIsOneRelease, OneRelease, Listing, Empty
    <2>7. ListOK'
      BY <1>1, <2>1 DEF Publish, ListOK, OneRelease, Listing
    <2>8. FreshOK'
      BY <1>1, <2>1
      DEF Publish, FreshOK, TypeOK, Module, PairsListed, NoSidecar, OneRelease,
          RequestOK
    <2>9. ExchangeOK'
      BY <1>1, <2>1 DEF Publish, ExchangeOK, RequestOK, TypeOK, Module
    <2>10. FreshDeploymentAgrees'
      BY <1>1, <2>1
      DEF Publish, FreshDeploymentAgrees, Succeeded, ManagersAnswer, RequestOK
    <2>11. InterceptionRouted'
      BY <1>1, <2>1 DEF Publish, InterceptionRouted, Succeeded, ExchangeOK, RequestOK
    <2> QED BY <2>2, <2>3, <2>4, <2>5, <2>6, <2>7, <2>8, <2>9, <2>10, <2>11
  <1>2. CASE ProcessEnds
    <2>1. TypeOK'
      BY <1>2 DEF ProcessEnds, TypeOK, Release, Version, Empty
    <2>2. RequestOK'
      BY <1>2 DEF ProcessEnds, RequestOK, ManagersAnswer, TypeOK, Module
    <2>3. FetchOK'
      BY <1>2 DEF ProcessEnds, FetchOK, RequestOK, TypeOK, Release, Version
    <2>4. SidecarOK'
      BY <1>2
      DEF ProcessEnds, SidecarOK, RequestOK, NoSidecar, ManagersAnswer, TypeOK, Module
    <2>5. FileIsOneRelease' /\ ListOK'
      BY <1>2 DEF ProcessEnds, FileIsOneRelease, ListOK, OneRelease
    <2>6. FreshOK' /\ ExchangeOK' /\ FreshDeploymentAgrees' /\ InterceptionRouted'
      BY <1>2
      DEF ProcessEnds, FreshOK, PairsListed, NoSidecar, OneRelease, ExchangeOK,
          FreshDeploymentAgrees, InterceptionRouted, Succeeded, ManagersAnswer,
          RequestOK
    <2> QED BY <2>1, <2>2, <2>3, <2>4, <2>5, <2>6
  <1>3. CASE UNCHANGED vars
    <2>1. TypeOK'
      BY <1>3 DEF vars, TypeOK, Release, Version
    <2>2. RequestOK' /\ FetchOK' /\ SidecarOK'
      BY <1>3 DEF vars, RequestOK, FetchOK, SidecarOK, NoSidecar, ManagersAnswer, TypeOK
    <2>3. FileIsOneRelease' /\ ListOK'
      BY <1>3 DEF vars, FileIsOneRelease, ListOK, OneRelease
    <2>4. FreshOK' /\ ExchangeOK' /\ FreshDeploymentAgrees' /\ InterceptionRouted'
      BY <1>3
      DEF vars, FreshOK, PairsListed, NoSidecar, OneRelease, ExchangeOK,
          FreshDeploymentAgrees, InterceptionRouted, Succeeded, ManagersAnswer,
          RequestOK
    <2> QED BY <2>1, <2>2, <2>3, <2>4
  <1> QED BY <1>1, <1>2, <1>3

\* A command begins with nothing read.
LEMMA StartStep ==
  ASSUME IInv, Begin
  PROVE  IInv'
  <1> USE VersionsAssumption DEF IInv, Goto, Return, containers, manager, registry,
         Reading, Fetching, Exchange
  <1>1. ASSUME NEW c \in {"deploy", "undeploy", "wipe", "intercept", "restore", "redirect", "reset"},
               NEW f \in {"yes", "no"}, NEW t \in Target \union {NoModule},
               c \notin {"deploy", "undeploy", "wipe"} => t \in Target,
               Start(c, f, t) PROVE IInv'
    <2>1. Fresh => application = "none" /\ \A m \in Module : image[m] = 0
      BY DEF Fresh, Empty
    <2>2. Fresh /\ Management # {} => NoSidecar
      BY <2>1 DEF SidecarOK, ManagersAnswer, Module
    <2>3. TypeOK'
      BY <1>1, <2>1, <2>2
      DEF Start, Fresh, TypeOK, RequestOK, Release, Version, Module, Empty
    <2>4. RequestOK'
      BY <1>1, <2>1, <2>2 DEF Start, Fresh, RequestOK, ManagersAnswer, TypeOK, Module
    <2>5. FetchOK'
      BY <1>1, <2>1, <2>2 DEF Start, Fresh, FetchOK, RequestOK, TypeOK, Release, Version
    <2>6. SidecarOK'
      BY <1>1, <2>1, <2>2
      DEF Start, Fresh, SidecarOK, RequestOK, NoSidecar, ManagersAnswer, TypeOK, Module
    <2>7. FileIsOneRelease' /\ ListOK'
      BY <1>1, <2>1, <2>2 DEF Start, Fresh, FileIsOneRelease, ListOK, OneRelease
    <2>8. FreshOK'
      BY <1>1, <2>1, <2>2
      DEF Start, Fresh, FreshOK, TypeOK, Module, PairsListed, NoSidecar, OneRelease,
          RequestOK
    <2>9. ExchangeOK'
      BY <1>1, <2>1, <2>2 DEF Start, Fresh, ExchangeOK, RequestOK, TypeOK, Module
    <2>10. FreshDeploymentAgrees'
      BY <1>1, <2>1, <2>2
      DEF Start, Fresh, FreshDeploymentAgrees, Succeeded, ManagersAnswer, RequestOK
    <2>11. InterceptionRouted'
      BY <1>1, <2>1, <2>2
      DEF Start, Fresh, InterceptionRouted, Succeeded, ExchangeOK, RequestOK
    <2> QED BY <2>3, <2>4, <2>5, <2>6, <2>7, <2>8, <2>9, <2>10, <2>11
  <1> QED BY <1>1 DEF Begin

\* Every step keeps the invariant.
LEMMA Invariance == IInv /\ [Next]_vars => IInv'
  BY ReadingStep, DeployStep, UndeployStep, InterceptStep, OtherStep, StartStep DEF Next

\* The invariant holds in every state.
THEOREM InvHolds == Spec => []IInv
  BY InitHolds, Invariance, PTL DEF Spec

-----------------------------------------------------------------------------
\* Every variable stays in its domain: versions are those the registry has
\* published, and a custom sidecar is a sidecar.
THEOREM TypeCorrect == Spec => []TypeOK
  BY InvHolds, PTL DEF IInv

\* What modules.json lists is nothing or one release (registry_svc.go:60-190),
\* for every number of applications fetched at once and of releases published
\* meanwhile.
THEOREM FileIsOneReleaseHolds == Spec => []FileIsOneRelease
  BY InvHolds, PTL DEF IInv

\* A deployment from nothing that succeeds runs, registers and routes to one
\* release (deployApplication.go:121-148), though it reads the registry twice.
THEOREM FreshDeploymentAgreesHolds == Spec => []FreshDeploymentAgrees
  BY InvHolds, PTL DEF IInv

\* An interception or a restoration that succeeds leaves a pair of the version
\* that is registered, and a discovery entry that leads to it
\* (interceptModule.go:31-62, intercept_module_svc_default.go:14-80).
THEOREM InterceptionRoutedHolds == Spec => []InterceptionRouted
  BY InvHolds, PTL DEF IInv

=============================================================================
