----------------------- MODULE ApplicationContentsProofs -----------------------
(***************************************************************************)
(* Proofs about ApplicationContents, for any modules, any command lines    *)
(* and any bounds.                                                         *)
(*                                                                         *)
(* The inductive invariant has two halves.  One is about what lasts from   *)
(* command to command: the modules of each application (ModulesOK) and     *)
(* their descriptors (DescribedOK), and the build files Gradle does not    *)
(* write (FilesOK).  The other is what a command can count on at each of   *)
(* its control points: the build (BuildOK), the application (PatchOK,      *)
(* EntryOK), the places the version is named in (PlacesOK), and, in a run  *)
(* that meets no fault, why it is rolled back (RollbackOK).                *)
(***************************************************************************)
EXTENDS ApplicationContents, FiniteSetTheorems, NaturalsInduction, WellFoundedInduction, TLAPS

\* The control points of the two commands that deploy, from the one after
\* the given one on
FromCleanup == {"cleanup"}
FromSuperseded == {"superseded"} \union FromCleanup
FromEntitlement == {"entitlement"} \union FromSuperseded
FromDiscovery == {"discovery"} \union FromEntitlement
FromApplication == {"application"} \union FromDiscovery
FromDeploy == {"deploy"} \union FromApplication
FromDescriptor == {"descriptor"} \union FromDeploy
FromImage == {"image"} \union FromDescriptor
FromArtifact == {"artifact"} \union FromImage

\* A deployment is at one of these control points, or has succeeded.
Reached(S) == Deploys /\ (pc \in S \/ Ended("ok"))

\* The control point fits the command.
ControlOK ==
    /\ pc \in {"idle", "begin", "undeploy", "rollback", "returned"} \union FromArtifact
    /\ pc = "idle" <=> job = NoJob
    /\ pc = "returned" <=> result # "none"
    /\ pc \in FromArtifact \union {"rollback"} => Deploys
    /\ pc = "undeploy" => job.cmd = "undeployApplication"
    /\ pc = "begin" => WithinBounds(job)
    /\ pc \in FromArtifact \union {"rollback"} /\ job.cmd = "runLocalModule" => m \in Private
    /\ pc = "cleanup" => "cleanup" \in job.flags

\* The base application keeps its modules and the local one gains some, none
\* of which is a module of the base; both lasting and as undeployed
ModulesOK ==
    /\ entitled["base"] # 0
    /\ \A p \in DOMAIN apps["base"] : Modules(apps["base"][p]) = Base
    /\ \A p \in DOMAIN apps["local"] : Modules(apps["local"][p]) \subseteq Private
    /\ \A p, q \in DOMAIN apps["local"] :
          p <= q => Modules(apps["local"][p]) \subseteq Modules(apps["local"][q])
    /\ todo \subseteq Private

Described(c) == Named(c.mods) \subseteq c.descs

DescribedOK ==
    \A a \in App : Describing(a) => \A p \in DOMAIN apps[a] : Described(apps[a][p])

\* Only Maven writes the version into the build file.
FilesOK == \A n \in Module : Tool[n] = "gradle" => file[n] = Committed

\* What the build has left
BuildOK ==
    /\ pc \in FromArtifact => version \in Version
    /\ pc \in FromImage /\ shouldBuild /\ "artifact" \notin job.flags => target[m] = version
    /\ pc \in {"descriptor", "deploy"} /\ shouldBuild /\ "image" \notin job.flags =>
          version \in images[m]

\* The version of the application to be created, or created, is the highest.
PatchOK ==
    /\ pc \in {"artifact", "image", "descriptor", "deploy", "application"} =>
          \A p \in DOMAIN apps[app] : p < MaxPatch
    /\ pc \in FromDiscovery \union {"rollback"} =>
          /\ prior < MaxPatch
          /\ \A p \in DOMAIN apps[app] : p <= newPatch
    /\ pc = "discovery" /\ app = "base" => prior \in DOMAIN apps[app]

\* Nothing is named by a module that the application does not have.
Carries == app = "base" => m \in Base

\* The entry of the application that carries the module
EntryOK ==
    /\ Reached(FromDiscovery) /\ "application" \notin job.flags =>
          /\ newPatch \in DOMAIN apps[app]
          /\ Carries => apps[app][newPatch].mods[m] = version
    /\ Reached({"cleanup"}) /\ Whole => DOMAIN apps[app] = {newPatch}

\* The other places that name its version
PlacesOK ==
    /\ Reached(FromApplication) /\ "deployment" \notin job.flags => running[m] = version
    /\ Reached(FromEntitlement) /\ "discovery" \notin job.flags /\ Carries =>
          version \in DOMAIN discovery[m] /\ discovery[m][version] = "sidecar"
    /\ Reached(FromSuperseded) /\ "entitlement" \notin job.flags =>
          entitled[app] = newPatch \/ faulted
    /\ Ended("ok") /\ Deploys /\ "cleanup" \in job.flags =>
          file[m] = Committed /\ target[m] \in {0, Committed}

\* A run that meets no fault is rolled back only where there is nothing to
\* upgrade.
RollbackOK ==
    Whole /\ pc = "rollback" /\ ~faulted => prior # 0 /\ entitled[app] = 0

\* The parts of TypeOK
SourceTyped ==
    /\ file \in [Module -> Version]
    /\ target \in [Module -> 0 .. MaxVersion]
    /\ images \in [Module -> SUBSET Version]
    /\ running \in [Module -> 0 .. MaxVersion]

\* The contents an application may have
ContentsTyped(c) ==
    /\ Modules(c) \subseteq Module
    /\ \A n \in Modules(c) : c.mods[n] \in Version
    /\ c.descs \subseteq Module \X (0 .. MaxVersion)

AppsTyped ==
    /\ DOMAIN apps = App /\ DOMAIN entitled = App
    /\ \A a \in App :
         /\ DOMAIN apps[a] \subseteq Patch
         /\ \A p \in DOMAIN apps[a] : ContentsTyped(apps[a][p])
         /\ entitled[a] \in DOMAIN apps[a] \union {0}

DiscoveryTyped ==
    /\ DOMAIN discovery = Module
    /\ \A n \in Module :
         /\ DOMAIN discovery[n] \subseteq Version
         /\ \A v \in DOMAIN discovery[n] : discovery[n][v] \in {"sidecar", "elsewhere"}

LocalsTyped ==
    /\ job \in Invocation \union {NoJob}
    /\ version \in 0 .. MaxVersion
    /\ prior \in 0 .. MaxPatch
    /\ todo \subseteq Module

FaultsTyped == faulted \in BOOLEAN /\ faults \in 0 .. MaxFaults

IInv ==
    /\ TypeOK
    /\ ControlOK
    /\ ModulesOK
    /\ DescribedOK
    /\ FilesOK
    /\ BuildOK
    /\ PatchOK
    /\ EntryOK
    /\ PlacesOK
    /\ RollbackOK
    /\ RerunSucceeds

-----------------------------------------------------------------------------
(***************************************************************************)
(* The operators of the model                                              *)
(***************************************************************************)
\* TypeOK in parts
LEMMA TypeParts ==
  TypeOK <=> SourceTyped /\ AppsTyped /\ DiscoveryTyped /\ LocalsTyped /\ FaultsTyped
  BY Zenon DEF TypeOK, SourceTyped, AppsTyped, DiscoveryTyped, LocalsTyped, FaultsTyped,
     ContentsTyped

\* And of the state a step leads to
LEMMA TypePartsNext ==
  TypeOK' <=> SourceTyped' /\ AppsTyped' /\ DiscoveryTyped' /\ LocalsTyped' /\ FaultsTyped'
  BY Zenon DEF TypeOK, SourceTyped, AppsTyped, DiscoveryTyped, LocalsTyped, FaultsTyped,
     ContentsTyped

\* What Restrict leaves
LEMMA RestrictKeeps ==
  ASSUME NEW f, NEW S
  PROVE  /\ DOMAIN Restrict(f, S) = S
         /\ \A x \in S : Restrict(f, S)[x] = f[x]
  BY DEF Restrict

\* A set of numbers up to a bound has a greatest one, which Max is.
LEMMA MaxIsGreatest ==
  ASSUME NEW N \in Nat, NEW S \in SUBSET (1 .. N), S # {}
  PROVE  Max(S) \in S /\ \A x \in S : x <= Max(S)
  <1> DEFINE T == {N - x : x \in S}
             R == OpToRel(<, Nat)
  <1>1. T \subseteq Nat /\ T # {}
    <2>1. ASSUME NEW x \in S PROVE N - x \in Nat
      OBVIOUS
    <2> QED BY <2>1
  <1>2. IsWellFoundedOn(R, Nat)
    BY NatLessThanWellFounded
  <1>3. PICK z \in T : \A y \in T : ~ (<<y, z>> \in R)
    <2> HIDE DEF T, R
    <2> QED BY <1>1, <1>2, WFMin
  <1>4. PICK x \in S : z = N - x
    BY DEF T
  <1>5. ASSUME NEW y \in S PROVE x >= y
    <2>1. N - y \in T /\ N - y \in Nat /\ z \in Nat
      BY <1>1
    <2>2. ~ (N - y < z)
      <3>1. ~ (<<N - y, z>> \in R)
        BY <1>3, <2>1
      <3> QED BY <2>1, <3>1 DEF OpToRel
    <2> QED BY <1>4, <2>2
  <1>6. Max(S) \in S /\ \A y \in S : Max(S) >= y
    BY <1>5 DEF Max
  <1> QED BY <1>6

\* Latest is the last version of an application, and 0 only if there is none.
LEMMA LatestIsLast ==
  ASSUME TypeOK, NEW a \in App
  PROVE  /\ Latest(a) \in 0 .. MaxPatch
         /\ Latest(a) = 0 <=> DOMAIN apps[a] = {}
         /\ Latest(a) # 0 => Latest(a) \in DOMAIN apps[a]
         /\ \A p \in DOMAIN apps[a] : p \in Patch /\ p <= Latest(a)
  <1>1. DOMAIN apps[a] \subseteq 1 .. MaxPatch /\ MaxPatch \in Nat
    BY ContentsAssumption DEF TypeOK, Patch
  <1>2. CASE DOMAIN apps[a] = {}
    BY <1>1, <1>2 DEF Latest
  <1>3. CASE DOMAIN apps[a] # {}
    <2>1. /\ Max(DOMAIN apps[a]) \in DOMAIN apps[a]
          /\ \A p \in DOMAIN apps[a] : p <= Max(DOMAIN apps[a])
      BY <1>1, <1>3, MaxIsGreatest
    <2> QED BY <1>1, <1>3, <2>1 DEF Latest, Patch
  <1> QED BY <1>2, <1>3

\* Where a module has entries, HighestDiscovered is one of them.
LEMMA HighestIsEntry ==
  ASSUME TypeOK, m \in Module, DOMAIN discovery[m] # {}
  PROVE  HighestDiscovered \in DOMAIN discovery[m] /\ HighestDiscovered \in Version
  <1>1. DOMAIN discovery[m] \in SUBSET (1 .. MaxVersion) /\ MaxVersion \in Nat
    BY ContentsAssumption DEF TypeOK, Version
  <1> QED BY <1>1, MaxIsGreatest DEF HighestDiscovered, Version

\* The command line of a command that has begun
LEMMA JobIsLine ==
  ASSUME TypeOK, ControlOK, pc # "idle"
  PROVE  /\ job \in Invocation
         /\ m \in Module /\ m \notin Frontend
         /\ job.cmd \in Command /\ job.ver \in 0 .. MaxVersion
         /\ app \in App
         /\ app = "base" <=> job.cmd = "upgradeModule"
  <1>1. job \in Invocation /\ job \in CommandLine
    BY ContentsAssumption DEF TypeOK, ControlOK
  <1> QED BY <1>1, ContentsAssumption DEF CommandLine, app, App, m

\* No command line is the one of an idle process.
LEMMA NoJobIsNoLine == NoJob \notin Invocation
  <1>1. NoJob \notin CommandLine
    BY DEF NoJob, CommandLine, Command
  <1> QED BY <1>1, ContentsAssumption

\* A step may meet a fault, or not.
LEMMA FaultsStayTyped ==
  ASSUME FaultsTyped, Fault \/ NoFault
  PROVE  FaultsTyped'
  <1>1. faulted' \in BOOLEAN
    BY Zenon DEF FaultsTyped, Fault, NoFault
  <1>2. faults' \in 0 .. MaxFaults
    BY ContentsAssumption DEF FaultsTyped, Fault, NoFault
  <1> QED BY <1>1, <1>2 DEF FaultsTyped

\* The modules runLocalModule turns away are those of the base application.
LEMMA BaseProvides ==
  ASSUME TypeOK, ModulesOK
  PROVE  Modules(apps["base"][Latest("base")]) = Base
  <1>1. "base" \in App /\ entitled["base"] \in DOMAIN apps["base"]
    BY DEF TypeOK, ModulesOK, App
  <1>2. Latest("base") \in DOMAIN apps["base"]
    BY <1>1, LatestIsLast
  <1> QED BY <1>2 DEF ModulesOK

-----------------------------------------------------------------------------
(***************************************************************************)
(* How the versions of an application change                               *)
(***************************************************************************)
\* What upgradeModule makes of the contents it finds: the same modules, each
\* described if each was.
LEMMA UpgradedContents ==
  ASSUME NEW c, ContentsTyped(c), m \in Module, m \notin Frontend,
         version \in Version, target[m] \in 0 .. MaxVersion
  PROVE  /\ ContentsTyped(Upgraded(c))
         /\ Modules(Upgraded(c)) = Modules(c)
         /\ m \in Modules(c) => Upgraded(c).mods[m] = version
         /\ /\ Described(c)
            /\ shouldBuild => target[m] = version
            /\ \E n \in Modules(c) \ Frontend : n # m
            => Described(Upgraded(c))
  <1> DEFINE u    == Upgraded(c)
             mods == [n \in Modules(c) |-> IF n = m THEN version ELSE c.mods[n]]
             old  == {<<n, c.mods[n]>> : n \in Modules(c) \intersect {m}}
             rest == {d \in c.descs : d[1] \notin Frontend} \ old
             kept == {d \in c.descs : d[1] \in Frontend}
  <1>1. /\ u.mods = mods
        /\ u.descs = IF ~shouldBuild THEN Named(mods)
                     ELSE IF rest = {} THEN kept
                     ELSE rest \union Descriptor \union kept
    BY DEF Upgraded
  <1>2. DOMAIN mods = Modules(c) /\ \A n \in Modules(c) : mods[n] \in Version
    BY DEF ContentsTyped
  <1>3. /\ Named(mods) \subseteq Module \X (0 .. MaxVersion)
        /\ Descriptor \subseteq Module \X (0 .. MaxVersion)
    BY <1>2 DEF ContentsTyped, Named, Descriptor, Version
  <1>4. ContentsTyped(u)
    <2>1. u.descs \subseteq Module \X (0 .. MaxVersion)
      BY <1>1, <1>3 DEF ContentsTyped
    <2> QED BY <1>1, <1>2, <2>1 DEF ContentsTyped, Modules
  <1>5. ASSUME Described(c), shouldBuild => target[m] = version,
               NEW k \in Modules(c) \ Frontend, k # m
        PROVE  Described(u)
    <2>1. CASE ~shouldBuild
      BY <1>1, <2>1 DEF Described
    <2>2. CASE shouldBuild
      <3>1. ASSUME NEW n \in Modules(c), n # m
            PROVE  <<n, c.mods[n]>> \in rest \union kept
        <4>1. <<n, c.mods[n]>> \in c.descs
          BY <1>5 DEF Described, Named, Modules
        <4>2. <<n, c.mods[n]>> \notin old
          BY <3>1
        <4> QED BY <4>1, <4>2
      <3>2. <<k, c.mods[k]>> \in rest
        BY <1>5, <3>1
      <3>3. u.descs = rest \union Descriptor \union kept
        BY <1>1, <2>2, <3>2
      <3>4. ASSUME NEW n \in Modules(c) PROVE <<n, mods[n]>> \in u.descs
        <4>1. CASE n = m
          BY <1>5, <2>2, <3>3, <4>1 DEF Descriptor
        <4>2. CASE n # m
          BY <3>1, <3>3, <4>2
        <4> QED BY <4>1, <4>2
      <3>5. \A n \in DOMAIN mods : <<n, mods[n]>> \in u.descs
        BY <1>2, <3>4
      <3> HIDE DEF mods, u
      <3> QED BY <1>1, <3>5 DEF Described, Named
    <2> QED BY <2>1, <2>2
  <1> QED BY <1>1, <1>2, <1>4, <1>5 DEF Modules

\* What runLocalModule makes of them: one module more, or the same.
LEMMA MergedContents ==
  ASSUME NEW c, ContentsTyped(c), m \in Module, version \in Version,
         target[m] \in 0 .. MaxVersion
  PROVE  /\ ContentsTyped(Merged(c))
         /\ Modules(Merged(c)) = Modules(c) \union {m}
         /\ Merged(c).mods[m] = version
         /\ Described(c) /\ shouldBuild /\ target[m] = version => Described(Merged(c))
  <1> DEFINE u == Merged(c)
             mods == Put(c.mods, m, version)
  <1>1. /\ u.mods = mods
        /\ u.descs = IF shouldBuild THEN {d \in c.descs : d[1] # m} \union Descriptor ELSE {}
    BY DEF Merged
  <1>2. /\ DOMAIN mods = Modules(c) \union {m}
        /\ mods[m] = version
        /\ \A n \in Modules(c) : n # m => mods[n] = c.mods[n]
    BY DEF Put, Modules
  <1> HIDE DEF mods, u
  <1>3. ContentsTyped(u)
    <2>1. u.descs \subseteq Module \X (0 .. MaxVersion)
      BY <1>1 DEF ContentsTyped, Descriptor
    <2>2. Modules(u) = Modules(c) \union {m}
      BY <1>1, <1>2 DEF Modules
    <2> QED BY <1>1, <1>2, <2>1, <2>2 DEF ContentsTyped
  <1>4. ASSUME Described(c), shouldBuild, target[m] = version
        PROVE  Described(u)
    <2>1. ASSUME NEW n \in DOMAIN mods PROVE <<n, mods[n]>> \in u.descs
      <3>1. CASE n = m
        BY <1>1, <1>2, <1>4, <3>1 DEF Descriptor
      <3>2. CASE n # m
        <4>1. n \in Modules(c) /\ mods[n] = c.mods[n]
          BY <1>2, <2>1, <3>2
        <4>2. <<n, mods[n]>> \in c.descs
          BY <1>4, <4>1 DEF Described, Named, Modules
        <4> QED BY <1>1, <1>4, <3>2, <4>2
      <3> QED BY <3>1, <3>2
    <2> QED BY <1>1, <2>1 DEF Described, Named
  <1> QED BY <1>1, <1>2, <1>3, <1>4 DEF Modules, u

\* The version of a command's application that it creates
LEMMA Registers ==
  ASSUME TypeOK, app \in App, NEW k, k \notin DOMAIN apps[app], NEW c,
         apps' = [apps EXCEPT ![app] = Put(@, k, c)]
  PROVE  /\ DOMAIN apps' = App
         /\ \A a \in App : a # app => apps'[a] = apps[a]
         /\ DOMAIN apps'[app] = DOMAIN apps[app] \union {k}
         /\ apps'[app][k] = c
         /\ \A p \in DOMAIN apps[app] : apps'[app][p] = apps[app][p]
  <1> DEFINE v == Put(apps[app], k, c)
  <1>1. /\ DOMAIN v = DOMAIN apps[app] \union {k}
        /\ v[k] = c
        /\ \A p \in DOMAIN apps[app] : v[p] = apps[app][p]
    BY DEF Put
  <1> HIDE DEF v
  <1>2. apps' = [apps EXCEPT ![app] = v]
    BY DEF v
  <1> QED BY <1>1, <1>2 DEF TypeOK

\* The versions of an application that go
LEMMA Removes ==
  ASSUME TypeOK, NEW a \in App, NEW gone, RemoveVersions(a, gone)
  PROVE  /\ DOMAIN apps' = App
         /\ \A b \in App : b # a => apps'[b] = apps[b]
         /\ DOMAIN apps'[a] = DOMAIN apps[a] \ gone
         /\ \A p \in DOMAIN apps'[a] : apps'[a][p] = apps[a][p]
         /\ entitled[a] \notin gone
  <1> DEFINE v == Restrict(apps[a], DOMAIN apps[a] \ gone)
  <1>1. /\ DOMAIN v = DOMAIN apps[a] \ gone
        /\ \A p \in DOMAIN v : v[p] = apps[a][p]
    BY RestrictKeeps
  <1> HIDE DEF v
  <1>2. apps' = [apps EXCEPT ![a] = v] /\ entitled[a] \notin gone
    BY DEF v, RemoveVersions
  <1> QED BY <1>1, <1>2 DEF TypeOK

\* Contents says what the application of a deployment will hold: the modules it
\* had, with the version of the command's module, and each described if no
\* command leaves one out.
LEMMA ContentsOfCommand ==
  ASSUME IInv, pc = "application"
  PROVE  /\ ContentsTyped(Contents(app))
         /\ app = "base" => Modules(Contents(app)) = Base
         /\ app = "local" =>
               /\ Modules(Contents(app)) \subseteq Private
               /\ \A p \in DOMAIN apps[app] :
                     Modules(apps[app][p]) \subseteq Modules(Contents(app))
         /\ Carries => Contents(app).mods[m] = version
         /\ Describing(app) => Described(Contents(app))
  <1>1. TypeOK /\ ControlOK /\ ModulesOK /\ DescribedOK /\ BuildOK
    BY DEF IInv
  <1>2. /\ job \in Invocation /\ m \in Module /\ m \notin Frontend
        /\ app \in App /\ Deploys /\ version \in Version
        /\ app = "base" <=> job.cmd = "upgradeModule"
        /\ app = "local" => m \in Private
    BY <1>1, JobIsLine DEF ControlOK, BuildOK, Deploys, FromArtifact, FromImage,
       FromDescriptor, FromDeploy, FromApplication, app, App
  <1>3. target[m] \in 0 .. MaxVersion
    BY <1>1, <1>2 DEF TypeOK
  <1>4. ASSUME Describing(app)
        PROVE  /\ shouldBuild => target[m] = version
               /\ app = "local" => shouldBuild
    <2>1. "artifact" \notin job.flags /\ (job.cmd = "runLocalModule" => job.ns = "local")
      <3>1. \A i \in Invocation :
               /\ "artifact" \notin i.flags
               /\ i.cmd = "runLocalModule" => i.ns = "local"
        BY <1>4, Zenon DEF Describing
      <3> QED BY <1>2, <3>1
    <2> QED BY <1>1, <1>2, <2>1 DEF BuildOK, FromImage, FromDescriptor, FromDeploy,
          FromApplication, shouldBuild, Deploys
  <1> DEFINE c == apps[app][Latest(app)]
  <1>5. ASSUME Latest(app) # 0
        PROVE  /\ Latest(app) \in DOMAIN apps[app]
               /\ ContentsTyped(c)
               /\ Describing(app) => Described(c)
    <2>1. Latest(app) \in DOMAIN apps[app]
      BY <1>1, <1>2, <1>5, LatestIsLast
    <2> QED BY <1>1, <1>2, <2>1 DEF TypeOK, ContentsTyped, DescribedOK
  <1>6. CASE app = "base"
    <2>1. Latest(app) # 0
      <3>1. entitled["base"] \in DOMAIN apps["base"]
        BY <1>1 DEF TypeOK, ModulesOK, App
      <3> QED BY <1>1, <1>2, <1>6, <3>1, LatestIsLast
    <2>2. Modules(c) = Base
      BY <1>1, <1>6, BaseProvides
    <2>3. ContentsTyped(c) /\ (Describing(app) => Described(c))
      BY <1>5, <2>1
    <2> HIDE DEF c
    <2>4. /\ ContentsTyped(Upgraded(c))
          /\ Modules(Upgraded(c)) = Modules(c)
          /\ m \in Modules(c) => Upgraded(c).mods[m] = version
          /\ /\ Described(c)
             /\ shouldBuild => target[m] = version
             /\ \E n \in Modules(c) \ Frontend : n # m
             => Described(Upgraded(c))
      BY <1>2, <1>3, <2>3, UpgradedContents
    <2>5. ASSUME Describing(app) PROVE \E n \in Base \ Frontend : n # m
      BY <1>6, <2>5, ContentsAssumption DEF Describing
    <2>6. Contents(app) = Upgraded(c)
      BY <1>6 DEF Contents, c
    <2> QED BY <1>4, <1>6, <2>2, <2>3, <2>4, <2>5, <2>6 DEF Carries
  <1>7. CASE app = "local"
    <2>1. m \in Private
      BY <1>2, <1>7
    <2>2. CASE Latest(app) = 0
      <3>1. DOMAIN apps[app] = {}
        BY <1>1, <1>2, <2>2, LatestIsLast
      <3>2. /\ Contents(app).mods = [n \in {m} |-> version]
            /\ Contents(app).descs = IF shouldBuild THEN Descriptor ELSE {}
        BY <1>7, <2>2 DEF Contents, FirstLocal
      <3>3. Modules(Contents(app)) = {m} /\ Contents(app).mods[m] = version
        BY <3>2 DEF Modules
      <3>4. ContentsTyped(Contents(app))
        BY <1>2, <1>3, <3>2, <3>3 DEF ContentsTyped, Descriptor
      <3>5. Describing(app) => Described(Contents(app))
        BY <1>4, <1>7, <3>2, <3>3 DEF Described, Named, Descriptor
      <3> QED BY <1>7, <2>1, <3>1, <3>3, <3>4, <3>5
    <2>3. CASE Latest(app) # 0
      <3>1. Contents(app) = Merged(c)
        BY <1>7, <2>3 DEF Contents
      <3>2. /\ Latest(app) \in DOMAIN apps[app]
            /\ ContentsTyped(c) /\ (Describing(app) => Described(c))
        BY <1>5, <2>3
      <3>3. Modules(c) \subseteq Private
        BY <1>1, <1>7, <3>2 DEF ModulesOK
      <3>4. ASSUME NEW p \in DOMAIN apps[app] PROVE Modules(apps[app][p]) \subseteq Modules(c)
        <4>1. p <= Latest(app)
          BY <1>1, <1>2, LatestIsLast
        <4> QED BY <1>1, <1>7, <3>2, <4>1 DEF ModulesOK
      <3> HIDE DEF c
      <3>5. /\ ContentsTyped(Merged(c))
            /\ Modules(Merged(c)) = Modules(c) \union {m}
            /\ Merged(c).mods[m] = version
            /\ Described(c) /\ shouldBuild /\ target[m] = version => Described(Merged(c))
        BY <1>2, <1>3, <3>2, MergedContents
      <3> QED BY <1>4, <1>7, <2>1, <3>1, <3>2, <3>3, <3>4, <3>5
    <2> QED BY <2>2, <2>3
  <1> QED BY <1>2, <1>6, <1>7 DEF App

-----------------------------------------------------------------------------
(***************************************************************************)
(* The steps that create and remove versions of an application             *)
(***************************************************************************)
\* What the manager accepts depends on the applications, the command and what it
\* has built.
LEMMA AcceptedStays ==
  ASSUME UNCHANGED <<apps, job, version, target>>
  PROVE  Accepted(app)' <=> Accepted(app)
  BY DEF Accepted, Contents, Upgraded, Merged, FirstLocal, Latest, Descriptor, shouldBuild,
     app, m, Put, Modules, Named

\* The application gets its version, the highest one, with the module in it.
LEMMA CreateNewApplicationKeeps ==
  ASSUME IInv, CreateNewApplication
  PROVE  IInv'
  <1>1. /\ TypeOK /\ ControlOK /\ ModulesOK /\ DescribedOK /\ FilesOK /\ BuildOK /\ PatchOK
        /\ PlacesOK /\ pc = "application"
    BY DEF IInv, CreateNewApplication
  <1>2. /\ UNCHANGED <<source, running, discovery, entitled, job, version, todo>>
        /\ \/ pc' = "discovery" /\ result' = result /\ prior' = Latest(app)
           \/ pc' = "returned" /\ result' = "error"
        /\ prior' \in {prior, Latest(app)}
        /\ Fault \/ NoFault
    BY DEF CreateNewApplication, GoTo, Fails, Return
  <1>3. /\ job \in Invocation /\ m \in Module
        /\ app \in App /\ Deploys /\ version \in Version
        /\ app = "base" <=> job.cmd = "upgradeModule"
        /\ app = "local" => m \in Private
    BY <1>1, JobIsLine DEF ControlOK, BuildOK, Deploys, FromArtifact, FromImage,
       FromDescriptor, FromDeploy, FromApplication, app, App
  <1>4. app' = app /\ m' = m /\ Deploys' /\ (shouldBuild' <=> shouldBuild)
    BY <1>2, <1>3 DEF app, m, Deploys, shouldBuild
  <1> DEFINE k == Latest(app) + 1
  <1>5. /\ Latest(app) \in 0 .. MaxPatch /\ k \in Patch /\ Latest(app) < MaxPatch
        /\ \A p \in DOMAIN apps[app] : p \in Patch /\ p < k
    <2>1. /\ Latest(app) \in 0 .. MaxPatch
          /\ Latest(app) # 0 => Latest(app) \in DOMAIN apps[app]
          /\ \A p \in DOMAIN apps[app] : p \in Patch /\ p <= Latest(app)
      BY <1>1, <1>3, LatestIsLast
    <2>2. \A p \in DOMAIN apps[app] : p < MaxPatch
      BY <1>1 DEF PatchOK
    <2> QED BY <2>1, <2>2, ContentsAssumption DEF Patch
  <1>6. app = "base" => Latest(app) \in DOMAIN apps[app]
    <2>1. "base" \in App /\ entitled["base"] \in DOMAIN apps["base"]
      BY <1>1 DEF TypeOK, ModulesOK, App
    <2> QED BY <2>1, <1>1, LatestIsLast
  <1> DEFINE c == Contents(app)
  <1>7. \/ UNCHANGED apps /\ (pc' = "discovery" => "application" \in job.flags)
        \/ apps' = [apps EXCEPT ![app] = Put(@, k, c)] /\ prior' = Latest(app)
    BY DEF CreateNewApplication, newPatch, Fails, Return, GoTo
  <1>8. /\ ContentsTyped(c)
        /\ app = "base" => Modules(c) = Base
        /\ app = "local" =>
              /\ Modules(c) \subseteq Private
              /\ \A p \in DOMAIN apps[app] : Modules(apps[app][p]) \subseteq Modules(c)
        /\ Carries => c.mods[m] = version
        /\ Describing(app) => Described(c)
    BY <1>1, ContentsOfCommand DEF IInv
  <1> HIDE DEF c
  <1>9. ASSUME apps' = [apps EXCEPT ![app] = Put(@, k, c)]
        PROVE  /\ DOMAIN apps' = App
               /\ \A a \in App : a # app => apps'[a] = apps[a]
               /\ DOMAIN apps'[app] = DOMAIN apps[app] \union {k}
               /\ apps'[app][k] = c
               /\ \A p \in DOMAIN apps[app] : apps'[app][p] = apps[app][p]
    <2>1. k \notin DOMAIN apps[app]
      BY <1>5 DEF Patch
    <2> HIDE DEF k
    <2> QED BY <1>1, <1>3, <1>9, <2>1, Registers
  <1>10. AppsTyped' /\ ModulesOK' /\ DescribedOK'
    <2>1. AppsTyped
      BY <1>1, TypeParts
    <2>2. CASE UNCHANGED apps
      BY <1>1, <1>2, <2>1, <2>2 DEF AppsTyped, ModulesOK, DescribedOK, Modules, Described,
         Named, ContentsTyped, Describing
    <2>3. CASE apps' = [apps EXCEPT ![app] = Put(@, k, c)]
      <3>1. AppsTyped'
        BY <1>2, <1>5, <1>8, <1>9, <2>1, <2>3 DEF AppsTyped, ContentsTyped, Modules
      <3>2. ModulesOK'
        <4>1. \A p \in DOMAIN apps'["base"] : Modules(apps'["base"][p]) = Base
          BY <1>1, <1>3, <1>8, <1>9, <2>3 DEF ModulesOK, Modules, App
        <4>2. \A p \in DOMAIN apps'["local"] : Modules(apps'["local"][p]) \subseteq Private
          BY <1>1, <1>3, <1>8, <1>9, <2>3 DEF ModulesOK, Modules, App
        <4>3. ASSUME NEW p \in DOMAIN apps'["local"], NEW q \in DOMAIN apps'["local"], p <= q
              PROVE  Modules(apps'["local"][p]) \subseteq Modules(apps'["local"][q])
          <5>1. CASE app # "local"
            BY <1>1, <1>9, <2>3, <4>3, <5>1 DEF ModulesOK, App
          <5>2. CASE app = "local"
            <6>1. CASE q = k
              BY <1>8, <1>9, <2>3, <4>3, <5>2, <6>1
            <6>2. CASE q # k
              <7>1. q \in DOMAIN apps[app] /\ p # k
                BY <1>5, <1>9, <2>3, <4>3, <5>2, <6>2 DEF Patch
              <7> QED BY <1>1, <1>9, <2>3, <4>3, <5>2, <7>1 DEF ModulesOK
            <6> QED BY <6>1, <6>2
          <5> QED BY <5>1, <5>2
        <4> QED BY <1>1, <1>2, <4>1, <4>2, <4>3 DEF ModulesOK
      <3>3. DescribedOK'
        <4>1. ASSUME NEW a \in App, Describing(a), NEW p \in DOMAIN apps'[a]
              PROVE  Described(apps'[a][p])
          <5>1. CASE a = app /\ p = k
            BY <1>8, <1>9, <2>3, <4>1, <5>1
          <5>2. CASE ~ (a = app /\ p = k)
            <6>1. p \in DOMAIN apps[a] /\ apps'[a][p] = apps[a][p]
              BY <1>9, <2>3, <4>1, <5>2
            <6> QED BY <1>1, <4>1, <6>1 DEF DescribedOK
          <5> QED BY <5>1, <5>2
        <4> QED BY <4>1 DEF DescribedOK, Describing, Described, Named
      <3> QED BY <3>1, <3>2, <3>3
    <2> QED BY <1>7, <2>2, <2>3
  <1>11. TypeOK'
    <2>1. SourceTyped' /\ DiscoveryTyped'
      BY <1>1, <1>2 DEF TypeOK, SourceTyped, DiscoveryTyped, source
    <2>2. LocalsTyped'
      BY <1>1, <1>2, <1>5 DEF TypeOK, LocalsTyped
    <2>3. FaultsTyped'
      BY <1>1, <1>2, TypeParts, FaultsStayTyped
    <2> QED BY <1>10, <2>1, <2>2, <2>3, TypePartsNext
  <1>12. ControlOK' /\ FilesOK' /\ BuildOK'
    BY <1>1, <1>2, <1>3, <1>4 DEF ControlOK, FilesOK, BuildOK, source, FromArtifact, FromImage,
       FromDescriptor, FromDeploy, FromApplication, FromDiscovery, FromEntitlement,
       FromSuperseded, FromCleanup, Deploys, NoJob
  <1>13. PatchOK' /\ EntryOK'
    <2>1. CASE pc' = "returned"
      BY <1>2, <2>1 DEF PatchOK, EntryOK, Reached, Ended, FromDiscovery, FromEntitlement,
         FromSuperseded, FromCleanup
    <2>2. CASE pc' = "discovery"
      <3>1. prior' = Latest(app) /\ newPatch' = k /\ result' # "ok"
        BY <1>1, <1>2, <2>2 DEF newPatch, ControlOK
      <3>2. /\ app = "base" => prior' \in DOMAIN apps'[app]
            /\ \A p \in DOMAIN apps'[app] : p <= k
            /\ "application" \notin job.flags =>
                  /\ k \in DOMAIN apps'[app]
                  /\ Carries => apps'[app][k].mods[m] = version
        BY <1>5, <1>6, <1>7, <1>8, <1>9, <2>2, <3>1 DEF Patch
      <3>3. Carries' <=> Carries
        BY <1>4 DEF Carries
      <3>4. prior' < MaxPatch
        BY <1>5, <3>1
      <3> HIDE DEF k
      <3>5. PatchOK'
        BY <1>4, <2>2, <3>1, <3>2, <3>4 DEF PatchOK, FromDiscovery, FromEntitlement,
           FromSuperseded, FromCleanup
      <3>6. EntryOK'
        BY <1>2, <1>4, <2>2, <3>1, <3>2, <3>3 DEF EntryOK, Reached, Ended
      <3> QED BY <3>5, <3>6
    <2> QED BY <1>2, <2>1, <2>2
  <1>14. PlacesOK' /\ RollbackOK'
    BY <1>1, <1>2, <1>3, <1>4 DEF PlacesOK, RollbackOK, ControlOK, Reached, Ended,
       FromApplication, FromDiscovery, FromEntitlement, FromSuperseded, FromCleanup
  <1>15. RerunSucceeds'
    <2>1. ASSUME pc' = "returned", ~faulted' PROVE ~Accepted(app) /\ UNCHANGED apps
      BY <1>1, <2>1 DEF CreateNewApplication, Fails, Fault, GoTo, Return
    <2>2. UNCHANGED apps => (Accepted(app)' <=> Accepted(app))
      BY <1>2, AcceptedStays DEF source
    <2> QED BY <1>4, <2>1, <2>2 DEF RerunSucceeds, Ended
  <1> QED BY <1>10, <1>11, <1>12, <1>13, <1>14, <1>15 DEF IInv

\* A rollback, the removal of the versions that are superseded, and of the local
\* application: whatever versions go, those the invariant is about stay.
LEMMA RemoveApplicationsKeeps ==
  ASSUME IInv, NEW a \in App, NEW gone, RemoveVersions(a, gone),
         UNCHANGED <<source, running, discovery, entitled, locals>>
  PROVE  /\ AppsTyped' /\ SourceTyped' /\ DiscoveryTyped' /\ LocalsTyped'
         /\ ModulesOK' /\ DescribedOK' /\ FilesOK'
  <1>1. TypeOK /\ ModulesOK /\ DescribedOK /\ FilesOK
    BY DEF IInv
  <1>2. /\ DOMAIN apps' = App
        /\ \A b \in App : b # a => apps'[b] = apps[b]
        /\ DOMAIN apps'[a] = DOMAIN apps[a] \ gone
        /\ \A p \in DOMAIN apps'[a] : apps'[a][p] = apps[a][p]
        /\ entitled[a] \notin gone
    BY <1>1, Removes
  <1>3. /\ \A b \in App : DOMAIN apps'[b] \subseteq DOMAIN apps[b]
        /\ \A b \in App : \A p \in DOMAIN apps'[b] : apps'[b][p] = apps[b][p]
    BY <1>2
  <1>4. \A b \in App : entitled[b] \in DOMAIN apps[b] => entitled[b] \in DOMAIN apps'[b]
    BY <1>2
  <1>5. AppsTyped'
    BY <1>1, <1>2, <1>3, <1>4 DEF TypeOK, AppsTyped, ContentsTyped, Modules
  <1>6. SourceTyped' /\ DiscoveryTyped' /\ LocalsTyped' /\ FilesOK'
    BY <1>1 DEF TypeOK, SourceTyped, DiscoveryTyped, LocalsTyped, FilesOK, source, locals
  <1>7. ModulesOK'
    BY <1>1, <1>3 DEF ModulesOK, locals, App, Modules
  <1>8. DescribedOK'
    BY <1>1, <1>3 DEF DescribedOK, Described, Named, Describing
  <1> QED BY <1>5, <1>6, <1>7, <1>8

\* Only the version the command has created, and entitled the tenant to, is left.
LEMMA RemoveSupersededKeeps ==
  ASSUME IInv, RemoveSuperseded
  PROVE  IInv'
  <1>1. /\ TypeOK /\ ControlOK /\ PatchOK /\ EntryOK /\ PlacesOK /\ BuildOK
        /\ pc = "superseded"
    BY DEF IInv, RemoveSuperseded
  <1>2. /\ job \in Invocation /\ m \in Module /\ app \in App /\ Deploys /\ version \in Version
        /\ app = "local" => m \in Private
    BY <1>1, JobIsLine DEF ControlOK, BuildOK, Deploys, FromArtifact, FromImage,
       FromDescriptor, FromDeploy, FromApplication, FromDiscovery, FromEntitlement,
       FromSuperseded, app, App
  <1>3. PICK gone \in SUBSET Others(app, newPatch) :
           /\ RemoveVersions(app, gone)
           /\ \/ /\ gone = Others(app, newPatch)
                 /\ IF "cleanup" \in job.flags THEN GoTo("cleanup") ELSE Return("ok")
                 /\ NoFault
              \/ entitled[app] \in Others(app, newPatch) /\ Return("error") /\ NoFault
              \/ Fails
    BY DEF RemoveSuperseded, RemoveApplications
  <1>4. UNCHANGED <<source, running, discovery, entitled, locals>>
    BY DEF RemoveSuperseded
  <1>5. /\ app' = app /\ m' = m /\ newPatch' = newPatch /\ (shouldBuild' <=> shouldBuild)
        /\ (Deploys' <=> Deploys) /\ (Whole' <=> Whole) /\ (Carries' <=> Carries)
    BY <1>4 DEF app, m, newPatch, shouldBuild, Deploys, Whole, Carries, locals
  <1>6. /\ AppsTyped' /\ SourceTyped' /\ DiscoveryTyped' /\ LocalsTyped'
        /\ ModulesOK' /\ DescribedOK' /\ FilesOK'
    BY <1>2, <1>3, <1>4, RemoveApplicationsKeeps
  <1>7. TypeOK'
    <2>1. FaultsTyped'
      BY <1>1, <1>3, TypeParts, FaultsStayTyped DEF Fails
    <2> QED BY <1>6, <2>1, TypePartsNext
  <1>8. /\ pc' \in {"cleanup", "returned"}
        /\ pc' = "cleanup" => "cleanup" \in job.flags /\ result' = result
        /\ pc' = "returned" => result' \in {"ok", "error"}
        /\ Ended("ok")' => "cleanup" \notin job.flags
        /\ Ended("ok")' \/ pc' = "cleanup" => gone = Others(app, newPatch) /\ faulted' = faulted
        /\ faulted => faulted'
    BY <1>3 DEF Fails, GoTo, Return, Ended, Fault, NoFault
  <1>9. ControlOK' /\ BuildOK'
    BY <1>1, <1>2, <1>4, <1>5, <1>8 DEF ControlOK, BuildOK, FromArtifact, FromImage,
       FromDescriptor, FromDeploy, FromApplication, FromDiscovery, FromEntitlement,
       FromSuperseded, FromCleanup, Deploys, NoJob, locals, source
  <1>10. /\ DOMAIN apps'[app] = DOMAIN apps[app] \ gone
         /\ \A p \in DOMAIN apps'[app] : apps'[app][p] = apps[app][p]
    BY <1>1, <1>2, <1>3, Removes
  <1>11. PatchOK'
    BY <1>1, <1>4, <1>5, <1>8, <1>10 DEF PatchOK, FromDiscovery, FromEntitlement,
       FromSuperseded, FromCleanup, locals
  <1>12. EntryOK'
    <2>1. "application" \notin job.flags =>
             /\ newPatch \in DOMAIN apps[app]
             /\ Carries => apps[app][newPatch].mods[m] = version
      BY <1>1, <1>2 DEF EntryOK, Reached, FromDiscovery, FromEntitlement, FromSuperseded
    <2>2. newPatch \notin gone
      BY <1>3 DEF Others
    <2>3. "application" \notin job.flags =>
             /\ newPatch \in DOMAIN apps'[app]
             /\ Carries => apps'[app][newPatch].mods[m] = version
      BY <1>10, <2>1, <2>2
    <2>4. Whole /\ (Ended("ok")' \/ pc' = "cleanup") => DOMAIN apps'[app] = {newPatch}
      BY <1>8, <1>10, <2>3 DEF Others, Whole
    <2>5. UNCHANGED <<job, version>>
      BY <1>4 DEF locals
    <2>6. Reached({"cleanup"})' => Ended("ok")' \/ pc' = "cleanup"
      BY DEF Reached, Ended
    <2> QED BY <1>5, <2>3, <2>4, <2>5, <2>6 DEF EntryOK
  <1>13. PlacesOK'
    BY <1>1, <1>2, <1>4, <1>5, <1>8 DEF PlacesOK, Reached, Ended, FromApplication,
       FromDiscovery, FromEntitlement, FromSuperseded, FromCleanup, locals, source
  <1>14. RollbackOK'
    BY <1>8 DEF RollbackOK
  <1>15. RerunSucceeds'
    <2>1. ASSUME Ended("error")', ~faulted', Whole PROVE FALSE
      <3>1. entitled[app] \in Others(app, newPatch)
        BY <1>3, <2>1 DEF Ended, Fails, Fault, GoTo, Return
      <3>2. entitled[app] = newPatch
        BY <1>1, <1>2, <1>8, <2>1 DEF PlacesOK, Reached, FromSuperseded, Whole
      <3> QED BY <3>1, <3>2 DEF Others
    <2> QED BY <1>5, <2>1 DEF RerunSucceeds
  <1> QED BY <1>6, <1>7, <1>9, <1>11, <1>12, <1>13, <1>14, <1>15 DEF IInv

\* A rollback ends in an error, and counts on nothing that goes.
LEMMA CleanupOnFailureKeeps ==
  ASSUME IInv, CleanupOnFailure
  PROVE  IInv'
  <1>1. TypeOK /\ ControlOK /\ PatchOK /\ RollbackOK /\ pc = "rollback"
    BY DEF IInv, CleanupOnFailure
  <1>2. job \in Invocation /\ m \in Module /\ app \in App /\ Deploys
    BY <1>1, JobIsLine DEF ControlOK
  <1>3. PICK keep, gone :
           /\ RemoveVersions(app, gone)
           /\ pc' = "returned" /\ result' = "error" /\ (Fault \/ NoFault)
           /\ ~Fault => NoFault
    BY DEF CleanupOnFailure, RemoveApplications, Return, Fails
  <1>4. UNCHANGED <<source, running, discovery, entitled, locals>>
    BY DEF CleanupOnFailure
  <1>5. /\ AppsTyped' /\ SourceTyped' /\ DiscoveryTyped' /\ LocalsTyped'
        /\ ModulesOK' /\ DescribedOK' /\ FilesOK'
    BY <1>2, <1>3, <1>4, RemoveApplicationsKeeps
  <1>6. TypeOK'
    <2>1. FaultsTyped'
      BY <1>1, <1>3, TypeParts, FaultsStayTyped
    <2> QED BY <1>5, <2>1, TypePartsNext
  <1>7. ControlOK' /\ BuildOK' /\ PatchOK' /\ EntryOK' /\ PlacesOK' /\ RollbackOK'
    BY <1>1, <1>3, <1>4, <1>5 DEF ControlOK, BuildOK, PatchOK, EntryOK, PlacesOK, RollbackOK,
       Reached, Ended, FromArtifact, FromImage, FromDescriptor, FromDeploy, FromApplication,
       FromDiscovery, FromEntitlement, FromSuperseded, FromCleanup, Deploys, NoJob, locals
  <1>8. RerunSucceeds'
    <2>1. Whole' /\ ~faulted' => prior' # 0 /\ entitled'[app'] = 0
      BY <1>1, <1>3, <1>4 DEF RollbackOK, Whole, Deploys, Fault, NoFault, locals, app
    <2> QED BY <2>1 DEF RerunSucceeds
  <1> QED BY <1>5, <1>6, <1>7, <1>8 DEF IInv

\* undeployApplication ends with the versions of the local application gone.
LEMMA RemoveLocalApplicationsKeeps ==
  ASSUME IInv, RemoveLocalApplications
  PROVE  IInv'
  <1>1. TypeOK /\ ControlOK /\ pc = "undeploy" /\ job.cmd = "undeployApplication"
    BY DEF IInv, RemoveLocalApplications, ControlOK
  <1>2. job \in Invocation /\ "local" \in App /\ ~Deploys
    BY <1>1, JobIsLine DEF Deploys, App
  <1>3. PICK gone :
           /\ RemoveVersions("local", gone)
           /\ pc' = "returned" /\ result' \in {"ok", "error"} /\ (Fault \/ NoFault)
    BY DEF RemoveLocalApplications, RemoveApplications, Return, Fails
  <1>4. UNCHANGED <<source, running, discovery, entitled, locals>>
    BY DEF RemoveLocalApplications
  <1>5. /\ AppsTyped' /\ SourceTyped' /\ DiscoveryTyped' /\ LocalsTyped'
        /\ ModulesOK' /\ DescribedOK' /\ FilesOK'
    BY <1>2, <1>3, <1>4, RemoveApplicationsKeeps
  <1>6. TypeOK'
    <2>1. FaultsTyped'
      BY <1>1, <1>3, TypeParts, FaultsStayTyped
    <2> QED BY <1>5, <2>1, TypePartsNext
  <1>7. /\ ControlOK' /\ BuildOK' /\ PatchOK' /\ EntryOK' /\ PlacesOK' /\ RollbackOK'
        /\ RerunSucceeds'
    BY <1>1, <1>2, <1>3, <1>4 DEF ControlOK, BuildOK, PatchOK, EntryOK, PlacesOK, RollbackOK,
       RerunSucceeds, Whole, Reached, Ended, FromArtifact, FromImage, FromDescriptor,
       FromDeploy, FromApplication, FromDiscovery, FromEntitlement,
       FromSuperseded, FromCleanup, Deploys, NoJob, locals
  <1> QED BY <1>5, <1>6, <1>7 DEF IInv

-----------------------------------------------------------------------------
(***************************************************************************)
(* The other steps                                                         *)
(***************************************************************************)
\* What the steps are made of: the proofs from here on may look through these.
USE DEF
    app, m, newPatch, shouldBuild, GoTo, Return, NoFault, Fault, Fails, Rollback,
    Reached, Deploys, Whole, Ended, Carries, FromCleanup, FromSuperseded,
    FromEntitlement, FromDiscovery, FromApplication, FromDeploy, FromDescriptor,
    FromImage, FromArtifact, source, server, locals, control

\* The version after the highest one is within the bound.
LEMMA SetNewModuleVersionBuilds ==
  ASSUME IInv, SetNewModuleVersion
  PROVE  BuildOK' /\ PatchOK'
  <1>1. TypeOK /\ ControlOK /\ pc = "begin"
    BY DEF IInv, SetNewModuleVersion
  <1>2. /\ m \in Module /\ job.ver \in 0 .. MaxVersion
        /\ app = "base" /\ job.cmd = "upgradeModule"
    BY <1>1, JobIsLine DEF SetNewModuleVersion
  <1>3. ASSUME pc' = "artifact" PROVE version' \in Version
    <2>1. CASE job.ver # 0
      BY <1>2, <1>3, <2>1, ContentsAssumption DEF SetNewModuleVersion, Version
    <2>2. CASE job.ver = 0
      <3>1. DOMAIN discovery[m] # {} /\ version' = HighestDiscovered + 1
        BY <1>3, <2>2 DEF SetNewModuleVersion, NextVersion
      <3>2. HighestDiscovered \in DOMAIN discovery[m] /\ HighestDiscovered \in Version
        BY <1>1, <1>2, <3>1, HighestIsEntry
      <3>3. \A v \in DOMAIN discovery[m] : v < MaxVersion
        BY <1>1, <1>2, <2>2 DEF ControlOK, WithinBounds
      <3> QED BY <3>1, <3>2, <3>3, ContentsAssumption DEF Version
    <2> QED BY <2>1, <2>2
  <1>4. \A p \in DOMAIN apps["base"] : p < MaxPatch
    <2>1. Latest("base") < MaxPatch
      BY <1>1, <1>2 DEF ControlOK, WithinBounds
    <2>2. /\ Latest("base") \in 0 .. MaxPatch
          /\ \A p \in DOMAIN apps["base"] : p \in Patch /\ p <= Latest("base")
      BY <1>1, LatestIsLast DEF App
    <2> QED BY <2>1, <2>2, ContentsAssumption DEF Patch
  <1>5. BuildOK'
    BY <1>3 DEF SetNewModuleVersion, BuildOK
  <1>6. PatchOK'
    BY <1>2, <1>4 DEF SetNewModuleVersion, PatchOK
  <1> QED BY <1>5, <1>6

\* A command begins within the bounds.
LEMMA BeginKeeps ==
  ASSUME IInv, NEW i \in Invocation, Begin(i)
  PROVE  IInv'
  <1>1. IInv /\ TypeOK /\ ControlOK
    BY DEF IInv
  <1>2. SourceTyped' /\ AppsTyped' /\ DiscoveryTyped' /\ LocalsTyped'
    BY <1>1 DEF IInv, SourceTyped, TypeOK, Begin, AppsTyped, ContentsTyped, DiscoveryTyped,
       LocalsTyped
  <1>3. FaultsTyped'
    BY <1>1, TypeParts, FaultsStayTyped DEF Begin, Fails
  <1>4. ModulesOK' /\ DescribedOK' /\ FilesOK'
    BY <1>1 DEF IInv, ModulesOK, DescribedOK, FilesOK, Begin
  <1>5. ControlOK' /\ BuildOK' /\ PatchOK' /\ EntryOK' /\ PlacesOK'
    BY <1>1, NoJobIsNoLine DEF IInv, ControlOK, WithinBounds, Latest, Begin, BuildOK, PatchOK,
       EntryOK, PlacesOK
  <1>6. RollbackOK' /\ RerunSucceeds'
    BY <1>1 DEF IInv, RollbackOK, RerunSucceeds, Begin
  <1> QED BY <1>2, <1>3, <1>4, <1>5, <1>6, TypePartsNext DEF IInv

\* upgradeModule finds a version above those that have an entry.
LEMMA SetNewModuleVersionKeeps ==
  ASSUME IInv, SetNewModuleVersion
  PROVE  IInv'
  <1>1. IInv /\ TypeOK /\ ControlOK
    BY DEF IInv
  <1>2. SourceTyped' /\ AppsTyped' /\ DiscoveryTyped' /\ LocalsTyped'
    BY <1>1, ContentsAssumption, JobIsLine, HighestIsEntry DEF IInv, SourceTyped, TypeOK,
       ControlOK, Version, SetNewModuleVersion, NextVersion, AppsTyped, ContentsTyped,
       DiscoveryTyped, LocalsTyped, WithinBounds
  <1>3. FaultsTyped'
    BY <1>1, TypeParts, FaultsStayTyped DEF SetNewModuleVersion, Fails
  <1>4. ModulesOK' /\ DescribedOK' /\ FilesOK'
    BY <1>1 DEF IInv, ModulesOK, DescribedOK, FilesOK, SetNewModuleVersion
  <1>5. ControlOK'
    BY <1>1 DEF IInv, ControlOK, SetNewModuleVersion
  <1>6. BuildOK' /\ PatchOK'
    BY SetNewModuleVersionBuilds
  <1>7. EntryOK' /\ PlacesOK'
    BY <1>1 DEF IInv, EntryOK, PlacesOK, SetNewModuleVersion
  <1>8. RollbackOK' /\ RerunSucceeds'
    BY <1>1 DEF IInv, RollbackOK, RerunSucceeds, SetNewModuleVersion
  <1> QED BY <1>2, <1>3, <1>4, <1>5, <1>6, <1>7, <1>8, TypePartsNext DEF IInv

\* runLocalModule goes on with a private module only.
LEMMA ResolveModuleIdentityKeeps ==
  ASSUME IInv, ResolveModuleIdentity
  PROVE  IInv'
  <1>1. IInv /\ TypeOK /\ ControlOK
    BY DEF IInv
  <1>2. SourceTyped' /\ AppsTyped' /\ DiscoveryTyped' /\ LocalsTyped'
    BY <1>1, ContentsAssumption, JobIsLine DEF IInv, SourceTyped, TypeOK, ControlOK, Version,
       ResolveModuleIdentity, NextVersion, BuildFileVersion, AppsTyped, ContentsTyped,
       DiscoveryTyped, LocalsTyped, WithinBounds
  <1>3. FaultsTyped'
    BY <1>1, TypeParts, FaultsStayTyped DEF ResolveModuleIdentity, Fails
  <1>4. ModulesOK' /\ DescribedOK' /\ FilesOK'
    BY <1>1 DEF IInv, ModulesOK, DescribedOK, FilesOK, ResolveModuleIdentity
  <1>5. ControlOK' /\ BuildOK' /\ PatchOK' /\ EntryOK' /\ PlacesOK'
    BY <1>1, ContentsAssumption, JobIsLine, LatestIsLast DEF IInv, ControlOK, Module,
       ResolveModuleIdentity, NextVersion, InBase, BuildFileVersion, BuildOK, TypeOK, Version,
       WithinBounds, PatchOK, App, Patch, EntryOK, PlacesOK, ModulesOK
  <1>6. RollbackOK' /\ RerunSucceeds'
    BY <1>1, BaseProvides DEF IInv, RollbackOK, RerunSucceeds, ResolveModuleIdentity, InBase
  <1> QED BY <1>2, <1>3, <1>4, <1>5, <1>6, TypePartsNext DEF IInv

\* The descriptor has the version of the build, and Gradle leaves the build file.
LEMMA BuildModuleArtifactKeeps ==
  ASSUME IInv, BuildModuleArtifact
  PROVE  IInv'
  <1>1. IInv /\ TypeOK /\ ControlOK
    BY DEF IInv
  <1>2. SourceTyped' /\ AppsTyped' /\ DiscoveryTyped' /\ LocalsTyped'
    BY <1>1, ContentsAssumption DEF IInv, SourceTyped, TypeOK, BuildOK, BuildModuleArtifact,
       AppsTyped, ContentsTyped, DiscoveryTyped, LocalsTyped
  <1>3. FaultsTyped'
    BY <1>1, TypeParts, FaultsStayTyped DEF BuildModuleArtifact, Fails
  <1>4. ModulesOK' /\ DescribedOK' /\ FilesOK'
    BY <1>1 DEF IInv, ModulesOK, TypeOK, App, DescribedOK, FilesOK, BuildModuleArtifact
  <1>5. ControlOK' /\ BuildOK' /\ PatchOK' /\ EntryOK' /\ PlacesOK'
    BY <1>1, JobIsLine DEF IInv, ControlOK, TypeOK, BuildModuleArtifact, BuildOK, PatchOK,
       EntryOK, PlacesOK
  <1>6. RollbackOK' /\ RerunSucceeds'
    BY <1>1 DEF IInv, RollbackOK, RerunSucceeds, BuildModuleArtifact
  <1> QED BY <1>2, <1>3, <1>4, <1>5, <1>6, TypePartsNext DEF IInv

\* The version has an image.
LEMMA BuildModuleImageKeeps ==
  ASSUME IInv, BuildModuleImage
  PROVE  IInv'
  <1>1. IInv /\ TypeOK /\ ControlOK
    BY DEF IInv
  <1>2. SourceTyped' /\ AppsTyped' /\ DiscoveryTyped' /\ LocalsTyped'
    BY <1>1 DEF IInv, SourceTyped, TypeOK, BuildOK, BuildModuleImage, AppsTyped, ContentsTyped,
       DiscoveryTyped, LocalsTyped
  <1>3. FaultsTyped'
    BY <1>1, TypeParts, FaultsStayTyped DEF BuildModuleImage, Fails
  <1>4. ModulesOK' /\ DescribedOK' /\ FilesOK'
    BY <1>1 DEF IInv, ModulesOK, DescribedOK, FilesOK, BuildModuleImage
  <1>5. ControlOK' /\ BuildOK' /\ PatchOK' /\ EntryOK' /\ PlacesOK'
    BY <1>1, JobIsLine DEF IInv, ControlOK, TypeOK, BuildModuleImage, BuildOK, PatchOK,
       EntryOK, PlacesOK
  <1>6. RollbackOK' /\ RerunSucceeds'
    BY <1>1 DEF IInv, RollbackOK, RerunSucceeds, BuildModuleImage
  <1> QED BY <1>2, <1>3, <1>4, <1>5, <1>6, TypePartsNext DEF IInv

\* A descriptor that is missing is one of a build that failed.
LEMMA ReadModuleDescriptorKeeps ==
  ASSUME IInv, ReadModuleDescriptor
  PROVE  IInv'
  <1>1. IInv /\ TypeOK /\ ControlOK
    BY DEF IInv
  <1>2. SourceTyped' /\ AppsTyped' /\ DiscoveryTyped' /\ LocalsTyped'
    BY <1>1 DEF IInv, SourceTyped, TypeOK, ReadModuleDescriptor, AppsTyped, ContentsTyped,
       DiscoveryTyped, LocalsTyped
  <1>3. FaultsTyped'
    BY <1>1, TypeParts, FaultsStayTyped DEF ReadModuleDescriptor, Fails
  <1>4. ModulesOK' /\ DescribedOK' /\ FilesOK'
    BY <1>1 DEF IInv, ModulesOK, DescribedOK, FilesOK, ReadModuleDescriptor
  <1>5. ControlOK' /\ BuildOK' /\ PatchOK' /\ EntryOK' /\ PlacesOK'
    BY <1>1 DEF IInv, ControlOK, ReadModuleDescriptor, BuildOK, PatchOK, EntryOK, PlacesOK
  <1>6. RollbackOK' /\ RerunSucceeds'
    BY <1>1 DEF IInv, RollbackOK, RerunSucceeds, BuildOK, Version, ReadModuleDescriptor
  <1> QED BY <1>2, <1>3, <1>4, <1>5, <1>6, TypePartsNext DEF IInv

\* The container runs the version.
LEMMA DeployModuleAndSidecarPairKeeps ==
  ASSUME IInv, DeployModuleAndSidecarPair
  PROVE  IInv'
  <1>1. IInv /\ TypeOK /\ ControlOK
    BY DEF IInv
  <1>2. SourceTyped' /\ AppsTyped' /\ DiscoveryTyped' /\ LocalsTyped'
    BY <1>1, ContentsAssumption DEF IInv, SourceTyped, TypeOK, DeployModuleAndSidecarPair,
       AppsTyped, ContentsTyped, DiscoveryTyped, LocalsTyped
  <1>3. FaultsTyped'
    BY <1>1, TypeParts, FaultsStayTyped DEF DeployModuleAndSidecarPair, Fails
  <1>4. ModulesOK' /\ DescribedOK' /\ FilesOK'
    BY <1>1 DEF IInv, ModulesOK, DescribedOK, FilesOK, DeployModuleAndSidecarPair
  <1>5. ControlOK' /\ BuildOK' /\ PatchOK' /\ EntryOK' /\ PlacesOK'
    BY <1>1, JobIsLine DEF IInv, ControlOK, TypeOK, DeployModuleAndSidecarPair, BuildOK,
       PatchOK, EntryOK, PlacesOK
  <1>6. RollbackOK' /\ RerunSucceeds'
    BY <1>1 DEF IInv, RollbackOK, RerunSucceeds, BuildOK, DeployModuleAndSidecarPair,
       Available, Deployable, HasBackendModule
  <1> QED BY <1>2, <1>3, <1>4, <1>5, <1>6, TypePartsNext DEF IInv

\* The entry of the version leads to the sidecar.
LEMMA CreateNewModuleDiscoveryKeeps ==
  ASSUME IInv, CreateNewModuleDiscovery
  PROVE  IInv'
  <1>1. IInv /\ TypeOK /\ ControlOK
    BY DEF IInv
  <1>2. SourceTyped' /\ AppsTyped' /\ DiscoveryTyped' /\ LocalsTyped'
    BY <1>1 DEF IInv, SourceTyped, TypeOK, BuildOK, CreateNewModuleDiscovery, Discovered, Put,
       AppsTyped, ContentsTyped, DiscoveryTyped, LocalsTyped
  <1>3. FaultsTyped'
    BY <1>1, TypeParts, FaultsStayTyped DEF CreateNewModuleDiscovery, Fails
  <1>4. ModulesOK' /\ DescribedOK' /\ FilesOK'
    BY <1>1 DEF IInv, ModulesOK, DescribedOK, FilesOK, CreateNewModuleDiscovery
  <1>5. ControlOK' /\ BuildOK' /\ PatchOK' /\ EntryOK' /\ PlacesOK'
    BY <1>1 DEF IInv, ControlOK, TypeOK, ModulesOK, Module, CreateNewModuleDiscovery,
       Discovered, Put, BuildOK, PatchOK, EntryOK, PlacesOK
  <1>6. RollbackOK' /\ RerunSucceeds'
    BY <1>1 DEF IInv, RollbackOK, RerunSucceeds, CreateNewModuleDiscovery
  <1> QED BY <1>2, <1>3, <1>4, <1>5, <1>6, TypePartsNext DEF IInv

\* The tenant gets the version that was created, or is left as it was.
LEMMA EntitleTenantsKeeps ==
  ASSUME IInv, EntitleTenants
  PROVE  IInv'
  <1>1. IInv /\ TypeOK /\ ControlOK
    BY DEF IInv
  <1>2. SourceTyped' /\ AppsTyped' /\ DiscoveryTyped' /\ LocalsTyped'
    BY <1>1 DEF IInv, SourceTyped, TypeOK, EntitleTenants, AppsTyped, ContentsTyped,
       DiscoveryTyped, LocalsTyped
  <1>3. FaultsTyped'
    BY <1>1, TypeParts, FaultsStayTyped DEF EntitleTenants, Fails
  <1>4. ModulesOK' /\ DescribedOK' /\ FilesOK'
    BY <1>1 DEF IInv, ModulesOK, TypeOK, App, DescribedOK, FilesOK, EntitleTenants
  <1>5. ControlOK' /\ BuildOK' /\ PatchOK' /\ EntryOK' /\ PlacesOK'
    BY <1>1 DEF IInv, ControlOK, TypeOK, EntitleTenants, BuildOK, PatchOK, App, EntryOK,
       PlacesOK, Fault, NoFault
  <1>6. RollbackOK' /\ RerunSucceeds'
    BY <1>1 DEF IInv, RollbackOK, RerunSucceeds, EntryOK, EntitleTenants
  <1> QED BY <1>2, <1>3, <1>4, <1>5, <1>6, TypePartsNext DEF IInv

\* The build file has the repository's version again.
LEMMA CleanModuleArtifactKeeps ==
  ASSUME IInv, CleanModuleArtifact
  PROVE  IInv'
  <1>1. IInv /\ TypeOK /\ ControlOK
    BY DEF IInv
  <1>2. SourceTyped' /\ AppsTyped' /\ DiscoveryTyped' /\ LocalsTyped'
    BY <1>1, ContentsAssumption DEF IInv, SourceTyped, TypeOK, Version, Committed,
       CleanModuleArtifact, AppsTyped, ContentsTyped, DiscoveryTyped, LocalsTyped
  <1>3. FaultsTyped'
    BY <1>1, TypeParts, FaultsStayTyped DEF CleanModuleArtifact, Fails
  <1>4. ModulesOK' /\ DescribedOK' /\ FilesOK'
    BY <1>1 DEF IInv, ModulesOK, TypeOK, App, DescribedOK, FilesOK, CleanModuleArtifact
  <1>5. ControlOK' /\ BuildOK' /\ PatchOK' /\ EntryOK' /\ PlacesOK'
    BY <1>1, ContentsAssumption, JobIsLine DEF IInv, ControlOK, TypeOK, CleanModuleArtifact,
       BuildOK, FilesOK, PatchOK, EntryOK, PlacesOK
  <1>6. RollbackOK' /\ RerunSucceeds'
    BY <1>1 DEF IInv, RollbackOK, RerunSucceeds, CleanModuleArtifact
  <1> QED BY <1>2, <1>3, <1>4, <1>5, <1>6, TypePartsNext DEF IInv

\* The modules to visit are private ones.
LEMMA UndeployLocalApplicationKeeps ==
  ASSUME IInv, UndeployLocalApplication
  PROVE  IInv'
  <1>1. IInv /\ TypeOK /\ ControlOK
    BY DEF IInv
  <1>2. SourceTyped' /\ AppsTyped' /\ DiscoveryTyped' /\ LocalsTyped'
    BY <1>1, LatestIsLast DEF IInv, SourceTyped, TypeOK, UndeployLocalApplication,
       EntitlementRemoved, AppsTyped, ContentsTyped, App, DiscoveryTyped, LocalsTyped
  <1>3. FaultsTyped'
    BY <1>1, TypeParts, FaultsStayTyped DEF UndeployLocalApplication, Fails
  <1>4. ModulesOK' /\ DescribedOK' /\ FilesOK'
    BY <1>1, LatestIsLast DEF IInv, ModulesOK, DescribedOK, FilesOK, TypeOK, App,
       UndeployLocalApplication, EntitlementRemoved
  <1>5. ControlOK' /\ BuildOK' /\ PatchOK' /\ EntryOK' /\ PlacesOK'
    BY <1>1 DEF IInv, ControlOK, UndeployLocalApplication, BuildOK, PatchOK, EntryOK, PlacesOK
  <1>6. RollbackOK' /\ RerunSucceeds'
    BY <1>1 DEF IInv, RollbackOK, RerunSucceeds, UndeployLocalApplication
  <1> QED BY <1>2, <1>3, <1>4, <1>5, <1>6, TypePartsNext DEF IInv

\* A visit takes the entry and the container of a private module.
LEMMA UndeployLocalModuleKeeps ==
  ASSUME IInv, NEW n \in Private, UndeployLocalModule(n)
  PROVE  IInv'
  <1>1. IInv /\ TypeOK /\ ControlOK
    BY DEF IInv
  <1>2. SourceTyped' /\ AppsTyped' /\ DiscoveryTyped' /\ LocalsTyped'
    BY <1>1, ContentsAssumption DEF IInv, SourceTyped, TypeOK, UndeployLocalModule, Restrict,
       AppsTyped, ContentsTyped, DiscoveryTyped, LocalsTyped
  <1>3. FaultsTyped'
    BY <1>1, TypeParts, FaultsStayTyped DEF UndeployLocalModule, Fails
  <1>4. ModulesOK' /\ DescribedOK' /\ FilesOK'
    BY <1>1 DEF IInv, ModulesOK, DescribedOK, FilesOK, UndeployLocalModule
  <1>5. ControlOK' /\ BuildOK' /\ PatchOK' /\ EntryOK' /\ PlacesOK'
    BY <1>1 DEF IInv, ControlOK, UndeployLocalModule, BuildOK, PatchOK, EntryOK, PlacesOK
  <1>6. RollbackOK' /\ RerunSucceeds'
    BY <1>1 DEF IInv, RollbackOK, RerunSucceeds, UndeployLocalModule
  <1> QED BY <1>2, <1>3, <1>4, <1>5, <1>6, TypePartsNext DEF IInv

\* The entry that moves is one there is.
LEMMA UpdateModuleDiscoveryKeeps ==
  ASSUME IInv, UpdateModuleDiscovery
  PROVE  IInv'
  <1>1. IInv /\ TypeOK /\ ControlOK
    BY DEF IInv
  <1>2. SourceTyped' /\ AppsTyped' /\ DiscoveryTyped' /\ LocalsTyped'
    BY <1>1 DEF IInv, SourceTyped, TypeOK, UpdateModuleDiscovery, AppsTyped, ContentsTyped,
       DiscoveryTyped, LocalsTyped
  <1>3. FaultsTyped'
    BY <1>1, TypeParts, FaultsStayTyped DEF UpdateModuleDiscovery, Fails
  <1>4. ModulesOK' /\ DescribedOK' /\ FilesOK'
    BY <1>1 DEF IInv, ModulesOK, DescribedOK, FilesOK, UpdateModuleDiscovery
  <1>5. ControlOK' /\ BuildOK' /\ PatchOK' /\ EntryOK' /\ PlacesOK'
    BY <1>1 DEF IInv, ControlOK, UpdateModuleDiscovery, BuildOK, PatchOK, EntryOK, PlacesOK
  <1>6. RollbackOK' /\ RerunSucceeds'
    BY <1>1 DEF IInv, RollbackOK, RerunSucceeds, UpdateModuleDiscovery
  <1> QED BY <1>2, <1>3, <1>4, <1>5, <1>6, TypePartsNext DEF IInv

\* Nothing of a command is left when its process ends.
LEMMA ProcessEndsKeeps ==
  ASSUME IInv, ProcessEnds
  PROVE  IInv'
  <1>1. IInv /\ TypeOK /\ ControlOK
    BY DEF IInv
  <1>2. SourceTyped' /\ AppsTyped' /\ DiscoveryTyped' /\ LocalsTyped'
    BY <1>1, ContentsAssumption DEF IInv, SourceTyped, TypeOK, ProcessEnds, AppsTyped,
       ContentsTyped, DiscoveryTyped, LocalsTyped
  <1>3. FaultsTyped'
    <2>1. FaultsTyped /\ faulted' \in BOOLEAN
      BY <1>1, TypeParts, Zenon DEF FaultsTyped, ProcessEnds
    <2>2. faults' \in 0 .. MaxFaults
      BY <2>1, ContentsAssumption DEF FaultsTyped, ProcessEnds
    <2> QED BY <2>1, <2>2 DEF FaultsTyped
  <1>4. ModulesOK' /\ DescribedOK' /\ FilesOK'
    BY <1>1 DEF IInv, ModulesOK, DescribedOK, FilesOK, ProcessEnds
  <1>5. ControlOK' /\ BuildOK' /\ PatchOK' /\ EntryOK' /\ PlacesOK'
    BY <1>1 DEF IInv, ControlOK, ProcessEnds, BuildOK, PatchOK, EntryOK, PlacesOK
  <1>6. RollbackOK' /\ RerunSucceeds'
    BY <1>1 DEF IInv, RollbackOK, RerunSucceeds, ProcessEnds
  <1> QED BY <1>2, <1>3, <1>4, <1>5, <1>6, TypePartsNext DEF IInv

\* A step that changes nothing.
LEMMA StutterKeeps ==
  ASSUME IInv, UNCHANGED vars
  PROVE  IInv'
  <1>1. IInv /\ TypeOK /\ ControlOK
    BY DEF IInv
  <1>2. SourceTyped' /\ AppsTyped' /\ DiscoveryTyped' /\ LocalsTyped'
    BY <1>1 DEF IInv, SourceTyped, TypeOK, vars, AppsTyped, ContentsTyped, DiscoveryTyped,
       LocalsTyped
  <1>3. FaultsTyped'
    <2>1. FaultsTyped /\ faulted' \in BOOLEAN
      BY <1>1, TypeParts, Zenon DEF FaultsTyped, vars
    <2> QED BY <2>1 DEF FaultsTyped, vars
  <1>4. ModulesOK' /\ DescribedOK' /\ FilesOK'
    BY <1>1 DEF IInv, ModulesOK, DescribedOK, FilesOK, vars
  <1>5. ControlOK' /\ BuildOK' /\ PatchOK' /\ EntryOK' /\ PlacesOK'
    BY <1>1 DEF IInv, ControlOK, WithinBounds, Latest, vars, BuildOK, PatchOK, EntryOK,
       PlacesOK
  <1>6. RollbackOK' /\ RerunSucceeds'
    BY <1>1 DEF IInv, RollbackOK, RerunSucceeds, Accepted, Available, Contents, Upgraded,
       Latest, vars
  <1> QED BY <1>2, <1>3, <1>4, <1>5, <1>6, TypePartsNext DEF IInv

\* No command has begun, and every module of the base is described.
LEMMA InitHolds == Init => IInv
  <1> SUFFICES ASSUME Init PROVE IInv
    OBVIOUS
  <1>1. /\ DOMAIN apps = App /\ DOMAIN apps["local"] = {}
        /\ DOMAIN apps["base"] = {1}
        /\ apps["base"][1] = [mods |-> [n \in Base |-> 1], descs |-> Base \X {1}]
    BY DEF Init, App
  <1>2. Modules(apps["base"][1]) = Base /\ Described(apps["base"][1])
    BY <1>1 DEF Modules, Described, Named
  <1>3. TypeOK
    <2>1. SourceTyped
      BY ContentsAssumption DEF Init, SourceTyped, Module, Version, Committed
    <2>2. AppsTyped
      <3>1. ContentsTyped(apps["base"][1])
        BY <1>1, ContentsAssumption DEF ContentsTyped, Modules, Module, Version
      <3>2. /\ 1 \in Patch /\ DOMAIN entitled = App
            /\ entitled["base"] = 1 /\ entitled["local"] = 0
        BY ContentsAssumption DEF Init, App, Patch
      <3> QED BY <1>1, <3>1, <3>2 DEF AppsTyped, App
    <2>3. DiscoveryTyped
      BY ContentsAssumption DEF Init, DiscoveryTyped, Module, Version
    <2>4. LocalsTyped
      BY ContentsAssumption DEF Init, LocalsTyped
    <2>5. FaultsTyped
      <3>1. faulted \in BOOLEAN
        BY Zenon DEF Init
      <3> QED BY <3>1, ContentsAssumption DEF Init, FaultsTyped
    <2> QED BY <2>1, <2>2, <2>3, <2>4, <2>5, TypeParts
  <1>4. ModulesOK
    BY <1>1, <1>2 DEF Init, ModulesOK, App
  <1>5. DescribedOK
    BY <1>1, <1>2 DEF DescribedOK, App
  <1>6. /\ ControlOK /\ FilesOK /\ BuildOK /\ PatchOK /\ EntryOK /\ PlacesOK /\ RollbackOK
        /\ RerunSucceeds
    BY DEF Init, ControlOK, FilesOK, BuildOK, PatchOK, EntryOK, PlacesOK, RollbackOK,
       RerunSucceeds, NoJob
  <1> QED BY <1>3, <1>4, <1>5, <1>6 DEF IInv

\* Every step keeps the invariant.
LEMMA NextStep == IInv /\ [Next]_vars => IInv'
  <1> SUFFICES ASSUME IInv, [Next]_vars PROVE IInv'
    OBVIOUS
  <1>1. CASE \E i \in Invocation : Begin(i)
    BY <1>1, BeginKeeps
  <1>2. CASE Identify
    BY <1>2, SetNewModuleVersionKeeps, ResolveModuleIdentityKeeps DEF Identify
  <1>3. CASE Build
    BY <1>3, BuildModuleArtifactKeeps, BuildModuleImageKeeps, ReadModuleDescriptorKeeps
       DEF Build
  <1>4. CASE DeployModuleAndSidecarPair
    BY <1>4, DeployModuleAndSidecarPairKeeps
  <1>5. CASE Register
    BY <1>5, CreateNewApplicationKeeps, CreateNewModuleDiscoveryKeeps, EntitleTenantsKeeps
       DEF Register
  <1>6. CASE Finish
    BY <1>6, RemoveSupersededKeeps, CleanupOnFailureKeeps, CleanModuleArtifactKeeps DEF Finish
  <1>7. CASE Undeploy
    BY <1>7, UndeployLocalApplicationKeeps, UndeployLocalModuleKeeps,
       RemoveLocalApplicationsKeeps DEF Undeploy
  <1>8. CASE UpdateModuleDiscovery \/ ProcessEnds
    BY <1>8, UpdateModuleDiscoveryKeeps, ProcessEndsKeeps
  <1>9. CASE UNCHANGED vars
    BY <1>9, StutterKeeps
  <1> QED BY <1>1, <1>2, <1>3, <1>4, <1>5, <1>6, <1>7, <1>8, <1>9 DEF Next

-----------------------------------------------------------------------------
(***************************************************************************)
(* What follows from the invariant                                         *)
(***************************************************************************)
\* At its end, a deployment finds the version in every place it counts on.
LEMMA Agrees == IInv => SuccessAgrees
  <1> SUFFICES ASSUME IInv, Ended("ok"), Whole, Carries PROVE SuccessAgrees
    BY DEF SuccessAgrees
  <1>1. /\ TypeOK /\ ControlOK /\ DescribedOK /\ EntryOK /\ PlacesOK
        /\ app \in App
    BY JobIsLine DEF IInv
  <1>2. /\ DOMAIN apps[app] = {newPatch}
        /\ apps[app][newPatch].mods[m] = version
    BY <1>1 DEF EntryOK
  <1>3. /\ running[m] = version
        /\ version \in DOMAIN discovery[m] /\ discovery[m][version] = "sidecar"
        /\ entitled[app] = newPatch \/ faulted
        /\ "cleanup" \in job.flags => file[m] = Committed /\ target[m] \in {0, Committed}
    BY <1>1 DEF PlacesOK
  <1>4. entitled[app] \in {newPatch, 0}
    BY <1>1, <1>2 DEF TypeOK
  <1>5. Describing(app) => Named(apps[app][newPatch].mods) \subseteq apps[app][newPatch].descs
    BY <1>1, <1>2, Zenon DEF DescribedOK, Described
  <1> QED BY <1>2, <1>3, <1>4, <1>5 DEF SuccessAgrees

\* What belongs to the base is the same if its application, its entitlement and,
\* for each of its modules, the container, the entries and the build file are.
LEMMA BaseStays ==
  ASSUME apps'["base"] = apps["base"], entitled'["base"] = entitled["base"],
         \A n \in Base : /\ running'[n] = running[n]
                         /\ discovery'[n] = discovery[n]
                         /\ file'[n] = file[n]
  PROVE  BaseState' = BaseState
  BY DEF BaseState

\* No step of a command about the local application changes what belongs to the
\* base: its module is a private one.
LEMMA BaseKept == IInv /\ [Next]_vars => [LocalKeepsBase]_vars
  <1> SUFFICES ASSUME IInv, [Next]_vars, job.cmd \in {"runLocalModule", "undeployApplication"}
               PROVE  BaseState' = BaseState
    BY DEF LocalKeepsBase
  <1>1. TypeOK /\ ControlOK /\ ModulesOK
    BY DEF IInv
  <1>2. pc # "idle" /\ app = "local"
    BY <1>1 DEF ControlOK, NoJob
  <1>3. Base \subseteq Module /\ Base \intersect Private = {}
    BY ContentsAssumption DEF Module
  <1>4. pc \in FromArtifact \union {"rollback"} => m \in Private /\ m \notin Base
    BY <1>1, <1>3 DEF ControlOK, Deploys
  <1>5. CASE \/ Identify \/ ReadModuleDescriptor \/ BuildModuleImage \/ ProcessEnds
             \/ UNCHANGED vars
    BY <1>5 DEF Identify, SetNewModuleVersion, ResolveModuleIdentity, ReadModuleDescriptor,
       BuildModuleImage, ProcessEnds, vars, BaseState
  <1>6. CASE BuildModuleArtifact \/ CleanModuleArtifact
    <2>1. \A n \in Base : file'[n] = file[n]
      BY <1>1, <1>3, <1>4, <1>6 DEF BuildModuleArtifact, CleanModuleArtifact, TypeOK
    <2> QED BY <1>6, <2>1, BaseStays DEF BuildModuleArtifact, CleanModuleArtifact
  <1>7. CASE DeployModuleAndSidecarPair
    <2>1. \A n \in Base : running'[n] = running[n]
      BY <1>1, <1>3, <1>4, <1>7 DEF DeployModuleAndSidecarPair, TypeOK
    <2> QED BY <1>7, <2>1, BaseStays DEF DeployModuleAndSidecarPair
  <1>8. CASE CreateNewApplication
    <2>1. apps'["base"] = apps["base"]
      BY <1>1, <1>2, <1>8 DEF CreateNewApplication, TypeOK, App
    <2> QED BY <1>8, <2>1, BaseStays DEF CreateNewApplication
  <1>9. CASE CreateNewModuleDiscovery
    <2>1. \A n \in Base : discovery'[n] = discovery[n]
      BY <1>1, <1>3, <1>4, <1>9 DEF CreateNewModuleDiscovery, Discovered, TypeOK
    <2> QED BY <1>9, <2>1, BaseStays DEF CreateNewModuleDiscovery
  <1>10. CASE EntitleTenants \/ UndeployLocalApplication
    <2>1. entitled'["base"] = entitled["base"]
      BY <1>1, <1>2, <1>10 DEF EntitleTenants, UndeployLocalApplication,
         EntitlementRemoved, TypeOK, App
    <2> QED BY <1>10, <2>1, BaseStays DEF EntitleTenants, UndeployLocalApplication
  <1>11. CASE RemoveSuperseded \/ CleanupOnFailure \/ RemoveLocalApplications
    <2>1. PICK gone : RemoveVersions("local", gone)
      BY <1>2, <1>11 DEF RemoveSuperseded, CleanupOnFailure, RemoveLocalApplications,
         RemoveApplications
    <2>2. apps'["base"] = apps["base"]
      BY <1>1, <2>1, Removes DEF App
    <2> QED BY <1>11, <2>2, BaseStays DEF RemoveSuperseded, CleanupOnFailure,
          RemoveLocalApplications
  <1>12. CASE \E n \in Private : UndeployLocalModule(n)
    <2>1. PICK n \in Private : UndeployLocalModule(n)
      BY <1>12
    <2>2. \A k \in Base : running'[k] = running[k] /\ discovery'[k] = discovery[k]
      BY <1>1, <1>3, <2>1 DEF UndeployLocalModule, TypeOK
    <2> QED BY <2>1, <2>2, BaseStays DEF UndeployLocalModule
  <1>13. ~ UpdateModuleDiscovery /\ ~ \E i \in Invocation : Begin(i)
    BY <1>2 DEF UpdateModuleDiscovery, Begin
  <1> QED BY <1>5, <1>6, <1>7, <1>8, <1>9, <1>10, <1>11, <1>12, <1>13
        DEF Next, Identify, Build, Register, Finish, Undeploy

\* No step changes the contents of a version of an application: they are made
\* with it and go with it.
LEMMA VersionsStay ==
  ASSUME IInv, [Next]_vars
  PROVE  \A p \in DOMAIN apps["local"] \intersect DOMAIN apps'["local"] :
            apps'["local"][p] = apps["local"][p]
  <1>1. TypeOK /\ ControlOK /\ "local" \in App
    BY DEF IInv, App
  <1>2. CASE CreateNewApplication
    <2>1. app \in App
      BY <1>1, <1>2, JobIsLine DEF CreateNewApplication
    <2>2. CASE UNCHANGED apps
      BY <2>2
    <2>3. CASE apps' = [apps EXCEPT ![app] = Put(@, Latest(app) + 1, Contents(app))]
      <3>1. Latest(app) + 1 \notin DOMAIN apps[app]
        <4>1. \A p \in DOMAIN apps[app] : p \in Patch /\ p <= Latest(app)
          BY <1>1, <2>1, LatestIsLast
        <4>2. Latest(app) \in 0 .. MaxPatch /\ MaxPatch \in Nat
          BY <1>1, <2>1, LatestIsLast, ContentsAssumption
        <4> QED BY <4>1, <4>2 DEF Patch
      <3> DEFINE k == Latest(app) + 1
                 c == Contents(app)
      <3>2. apps' = [apps EXCEPT ![app] = Put(@, k, c)] /\ k \notin DOMAIN apps[app]
        BY <2>3, <3>1
      <3> HIDE DEF k, c
      <3>3. /\ \A a \in App : a # app => apps'[a] = apps[a]
            /\ \A p \in DOMAIN apps[app] : apps'[app][p] = apps[app][p]
        BY <1>1, <2>1, <3>2, Registers
      <3> QED BY <1>1, <3>3
    <2> QED BY <1>2, <2>2, <2>3 DEF CreateNewApplication
  <1>3. CASE RemoveSuperseded \/ CleanupOnFailure \/ RemoveLocalApplications
    <2>1. PICK a, gone : a \in App /\ RemoveVersions(a, gone)
      BY <1>1, <1>3, JobIsLine DEF RemoveSuperseded, CleanupOnFailure, RemoveLocalApplications,
         RemoveApplications
    <2>2. /\ \A b \in App : b # a => apps'[b] = apps[b]
          /\ \A p \in DOMAIN apps'[a] : apps'[a][p] = apps[a][p]
      BY <1>1, <2>1, Removes
    <2> QED BY <1>1, <2>2
  <1>4. ASSUME UNCHANGED apps
        PROVE  \A p \in DOMAIN apps["local"] : apps'["local"][p] = apps["local"][p]
    BY <1>4
  <1>5. \/ CreateNewApplication
        \/ RemoveSuperseded \/ CleanupOnFailure \/ RemoveLocalApplications
        \/ UNCHANGED apps
    BY DEF Next, Begin, Identify, SetNewModuleVersion, ResolveModuleIdentity, Build,
       BuildModuleArtifact, BuildModuleImage, ReadModuleDescriptor, DeployModuleAndSidecarPair,
       Register, CreateNewModuleDiscovery, EntitleTenants, Finish, CleanModuleArtifact,
       Undeploy, UndeployLocalApplication, UndeployLocalModule, UpdateModuleDiscovery,
       ProcessEnds, vars
  <1> QED BY <1>2, <1>3, <1>4, <1>5

\* The tenant moves on to a version that was made from the one it has, or from
\* one that was.
LEMMA LocalEntitlementRises ==
  ASSUME IInv, [Next]_vars, entitled["local"] # 0, entitled'["local"] # 0
  PROVE  \/ entitled'["local"] = entitled["local"]
         \/ /\ entitled["local"] <= entitled'["local"]
            /\ entitled'["local"] \in DOMAIN apps["local"]
            /\ UNCHANGED apps
  <1>1. TypeOK /\ PatchOK /\ ControlOK
    BY DEF IInv
  <1>2. CASE EntitleTenants
    <2>1. UNCHANGED apps /\ pc = "entitlement"
      BY <1>2 DEF EntitleTenants
    <2>2. CASE entitled' = [entitled EXCEPT ![app] = newPatch] /\ newPatch \in DOMAIN apps[app]
      <3>1. CASE app = "local"
        <4>1. entitled["local"] \in DOMAIN apps["local"]
          BY <1>1 DEF TypeOK, App
        <4>2. entitled["local"] <= newPatch
          BY <1>1, <2>1, <3>1, <4>1 DEF PatchOK
        <4> QED BY <1>1, <2>1, <2>2, <3>1, <4>2 DEF TypeOK, App
      <3>2. CASE app # "local"
        BY <1>1, <2>2, <3>2 DEF TypeOK, App
      <3> QED BY <3>1, <3>2
    <2> QED BY <1>2, <2>2 DEF EntitleTenants
  <1>3. CASE UndeployLocalApplication
    BY <1>1, <1>3 DEF UndeployLocalApplication, EntitlementRemoved, TypeOK, App
  <1>4. EntitleTenants \/ UndeployLocalApplication \/ UNCHANGED entitled
    BY DEF Next, Begin, Identify, SetNewModuleVersion, ResolveModuleIdentity, Build,
       BuildModuleArtifact, BuildModuleImage, ReadModuleDescriptor, DeployModuleAndSidecarPair,
       Register, CreateNewApplication, CreateNewModuleDiscovery, Finish, RemoveSuperseded,
       CleanupOnFailure, CleanModuleArtifact, Undeploy, RemoveLocalApplications,
       UndeployLocalModule, UpdateModuleDiscovery, ProcessEnds, vars
  <1> QED BY <1>2, <1>3, <1>4

\* So no step takes a module from the local application of a tenant.
LEMMA ModulesCoexist == IInv /\ [Next]_vars => [NoneLeftOut]_vars
  <1> SUFFICES ASSUME IInv, [Next]_vars, entitled["local"] # 0, entitled'["local"] # 0
               PROVE  ModulesOfEntitled("local") \subseteq ModulesOfEntitled("local")'
    BY DEF NoneLeftOut, ModulesOfEntitled
  <1>1. TypeOK /\ ModulesOK /\ TypeOK'
    BY NextStep DEF IInv
  <1>2. /\ entitled["local"] \in DOMAIN apps["local"]
        /\ entitled'["local"] \in DOMAIN apps'["local"]
    BY <1>1 DEF TypeOK, App
  <1>3. CASE entitled'["local"] = entitled["local"]
    <2>1. apps'["local"][entitled["local"]] = apps["local"][entitled["local"]]
      BY <1>2, <1>3, VersionsStay
    <2> QED BY <1>3, <2>1 DEF ModulesOfEntitled, Modules
  <1>4. CASE /\ entitled["local"] <= entitled'["local"]
             /\ entitled'["local"] \in DOMAIN apps["local"]
             /\ UNCHANGED apps
    <2>1. Modules(apps["local"][entitled["local"]])
             \subseteq Modules(apps["local"][entitled'["local"]])
      BY <1>1, <1>2, <1>4 DEF ModulesOK
    <2> QED BY <1>4, <2>1 DEF ModulesOfEntitled, Modules
  <1> QED BY <1>3, <1>4, LocalEntitlementRises

-----------------------------------------------------------------------------
(***************************************************************************)
(* The theorems                                                            *)
(***************************************************************************)
\* What lasts from command to command, and what a command counts on at each
\* control point, holds in every reachable state, for any modules, command
\* lines and bounds.
THEOREM Invariance == Spec => []IInv
  BY InitHolds, NextStep, PTL DEF Spec

\* Every variable stays in its domain; in particular a tenant is never entitled
\* to a version that has been removed (upgradeModule.go:158,
\* runLocalModule.go:150).
THEOREM TypeCorrect == Spec => []TypeOK
  <1>1. IInv => TypeOK
    BY DEF IInv
  <1> QED BY <1>1, Invariance, PTL

\* The version a successful upgradeModule or runLocalModule deploys is the one
\* that the container, the application, its descriptors and the discovery entry
\* name, whatever failed or killed runs came before; so does the entitlement, or
\* there is none, after a failing query for the tenants (runLocalModule.go:57-170,
\* upgradeModule.go:50-176).
THEOREM SuccessAgreesHolds == Spec => []SuccessAgrees
  BY Agrees, Invariance, PTL

\* A run that meets no fault is turned away only for the reasons RerunSucceeds
\* names: of all that failed and killed runs may leave behind only one is among
\* them, a local application nobody is entitled to (README.md:570).
THEOREM RerunSucceedsHolds == Spec => []RerunSucceeds
  <1>1. IInv => RerunSucceeds
    BY DEF IInv
  <1> QED BY <1>1, Invariance, PTL

\* No step of runLocalModule or undeployApplication --applicationName changes
\* the base application, its entitlement, or a container, a discovery entry or a
\* build file of one of its modules (README.md:566, 572).
THEOREM BaseUntouchedHolds == Spec => BaseUntouched
  BY Invariance, BaseKept, PTL DEF Spec, BaseUntouched

\* No step takes a module from the local application a tenant has, however many
\* local modules are run and fail in between (README.md:562).
THEOREM LocalModulesCoexistHolds == Spec => LocalModulesCoexist
  BY Invariance, ModulesCoexist, PTL DEF Spec, LocalModulesCoexist

================================================================================
