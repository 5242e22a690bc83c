--------------------------- MODULE HostPortsProofs ---------------------------
(***************************************************************************)
(* Proofs about HostPorts, for every set of modules, every range of ports  *)
(* and every bound.                                                        *)
(*                                                                         *)
(* The inductive invariant has two halves.  The plans of a command: they   *)
(* are made of ports it reserved and of configured ones, two of them never *)
(* share a port, and nobody holds a port of a plan that was not taken      *)
(* meanwhile, save another process a configured one.  And its budget: what *)
(* it has reserved so far is no more than the modules it has read ask for. *)
(***************************************************************************)
EXTENDS HostPorts, TLAPS, FiniteSetTheorems, FunctionTheorems,
        NaturalsInduction, WellFoundedInduction

\* What is configured for a container
PinnedAt(c) ==
    IF c[2] = "module" /\ c[1] \in DOMAIN Pinned THEN {Pinned[c[1]]} ELSE {}

\* The modules ReadBackendModules reads, and those the command has read
Grouped(g) == {m \in Backend : (g = "management") <=> (m \in Management)}

Visited ==
    IF cmd = "deploy" /\ group = "modules"
    THEN Backend \ todo
    ELSE Grouped(group) \ todo

-----------------------------------------------------------------------------
\* The control point fits the command; a process that has not begun, or has
\* ended, has reserved nothing.
ControlOK ==
    /\ pc \in {"idle", "used"} => reserved = {} /\ plan = NoPorts
    /\ pc \in {"idle", "used", "read", "local"} => starts = {}
    /\ pc \in {"used", "local"} => cmd = "local"
    /\ pc = "read" =>
          /\ cmd # "none" /\ group # "none" /\ (cmd # "deploy" => group = "modules")
          /\ todo \subseteq Grouped(group)
    /\ pc \in {"undeploy", "network"} => cmd \in {"exchange", "local"} /\ group = "modules"
    /\ pc = "local" => group = "modules"
    /\ pc = "start" => cmd # "none" /\ (cmd = "deploy" => group # "none")

\* A container has ports of the range and the one that is configured for it;
\* those of the range it is planned with are reserved.
PortsOK ==
    \A c \in Container :
        /\ binding[c] \subseteq PortRange \union PinnedAt(c)
        /\ plan[c] \subseteq (PortRange \intersect reserved) \union PinnedAt(c)

\* No two containers are planned with the same port.
PlansApart == \A c, d \in Container : c # d => plan[c] \intersect plan[d] = {}

\* A planned port that another container holds was taken since it was reserved;
\* so was one that another process holds, or it is a configured one.
PlansFree ==
    \A c \in Container :
        /\ plan[c] \intersect foreign \subseteq stolen \union Fixed
        /\ \A d \in running \ {c} : plan[c] \intersect binding[d] \subseteq stolen

\* What is to be started has ports, and so has what was read.
PlansMade ==
    /\ \A c \in starts : plan[c] # {}
    /\ pc = "read" => \A m \in Deployable(group) \ todo : plan[ModuleOf(m)] # {}

\* No container has more than its server port and its debug port.
TwoPorts ==
    \A c \in Container : Cardinality(binding[c]) <= 2 /\ Cardinality(plan[c]) <= 2

\* What was reserved so far, and by a local run beyond what containers hold
BudgetOK ==
    /\ cmd = "deploy" /\ pc \in {"read", "start"} =>
          Cardinality(reserved) <= Needs(Visited)
    /\ cmd = "exchange" /\ pc \in {"read", "undeploy", "network"} =>
          Cardinality(reserved) <= Needs(Visited)
    /\ cmd = "local" =>
          /\ pc \in {"read", "local"} => Cardinality(reserved \ Bound) <= Needs(Visited)
          /\ pc = "undeploy" => Cardinality(reserved \ Bound) <= Needs(Visited) + 4
          /\ pc = "network" => Cardinality(reserved \ Bound) <= Needs(Visited) + 8

IInv ==
    /\ TypeOK
    /\ ControlOK
    /\ PortsOK
    /\ PlansApart
    /\ PlansFree
    /\ PlansMade
    /\ TwoPorts
    /\ BudgetOK

-----------------------------------------------------------------------------
\* The ports are finitely many numbers, and so are those of the range.
LEMMA PortsFinite ==
  /\ PortRange \subseteq Nat /\ IsFiniteSet(PortRange)
  /\ IsFiniteSet(Port) /\ PortRange \subseteq Port
  /\ \A c : PinnedAt(c) \subseteq Port
  <1>1. PortRange \subseteq Nat /\ IsFiniteSet(PortRange)
    BY PortsAssumption, FS_Interval DEF PortRange
  <1>2. IsFiniteSet(Fixed)
    <2> DEFINE f == [m \in DOMAIN Pinned |-> Pinned[m]]
    <2>1. IsFiniteSet(DOMAIN Pinned)
      BY PortsAssumption, FS_Subset
    <2>2. f \in Surjection(DOMAIN Pinned, Fixed)
      BY Fun_IsSurj DEF Fixed
    <2> QED BY <2>1, <2>2, FS_Surjection
  <1>3. IsFiniteSet(Port)
    BY <1>1, <1>2, FS_Union DEF Port
  <1> QED BY <1>1, <1>3 DEF Port, Fixed, PinnedAt

\* A set of numbers has a least one.
LEMMA LeastPort ==
  ASSUME NEW S \in SUBSET Nat, S # {}
  PROVE  \E x \in S : \A y \in S : x <= y
  <1> DEFINE R == OpToRel(<, Nat)
  <1>1. IsWellFoundedOn(R, Nat)
    BY NatLessThanWellFounded
  <1>2. PICK x \in S : \A y \in S : ~ (<<y, x>> \in R)
    <2> HIDE DEF R
    <2> QED BY <1>1, WFMin
  <1>3. ASSUME NEW y \in S PROVE x <= y
    <2>1. ~ (y < x)
      BY <1>2 DEF OpToRel
    <2> QED BY <2>1
  <1> QED BY <1>3

\* A finite set of numbers that is not empty has a greatest one.
LEMMA GreatestPort ==
  ASSUME NEW S \in SUBSET PortRange, S # {}
  PROVE  \E x \in S : \A y \in S : y <= x
  <1> DEFINE T == {Last - x : x \in S}
  <1>1. \A x \in S : x \in Nat /\ x <= Last /\ Last \in Nat
    BY PortsAssumption DEF PortRange
  <1>2. T \in SUBSET Nat /\ T # {}
    BY <1>1
  <1>3. PICK z \in T : \A y \in T : z <= y
    <2> HIDE DEF T
    <2> QED BY <1>2, LeastPort
  <1>4. PICK x \in S : z = Last - x
    OBVIOUS
  <1>5. ASSUME NEW y \in S PROVE y <= x
    <2>1. Last - y \in T
      OBVIOUS
    <2>2. z <= Last - y
      BY <1>3, <2>1
    <2> QED BY <1>1, <1>4, <2>2
  <1> QED BY <1>5

\* The n lowest ports of a set that has as many are n (GetPreReservedPortSet).
LEMMA LowestCount ==
  ASSUME NEW S \in SUBSET PortRange, NEW n \in Nat, Cardinality(S) >= n
  PROVE  /\ Lowest(S, n) \subseteq S /\ IsFiniteSet(Lowest(S, n))
         /\ Cardinality(Lowest(S, n)) = n
  <1> DEFINE L == Lowest(S, n)
             Below(p) == {q \in S : q < p}
  <1>1. S \subseteq Nat /\ IsFiniteSet(S) /\ Cardinality(S) \in Nat
    BY PortsFinite, FS_Subset, FS_CardinalityType
  <1>2. L \in SUBSET S
    BY DEF Lowest
  <1>3. IsFiniteSet(L) /\ Cardinality(L) \in Nat
    BY <1>1, <1>2, FS_Subset, FS_CardinalityType
  <1>4. \A p \in S : p \in L <=> Cardinality(Below(p)) < n
    BY DEF Lowest
  <1>5. \A p \in S : IsFiniteSet(Below(p)) /\ Cardinality(Below(p)) \in Nat
    <2> TAKE p \in S
    <2>1. Below(p) \in SUBSET S
      OBVIOUS
    <2> HIDE DEF Below
    <2> QED BY <1>1, <2>1, FS_Subset, FS_CardinalityType
  <1>6. ASSUME Cardinality(L) > n PROVE FALSE
    <2>1. L # {}
      BY <1>6, FS_EmptySet
    <2>2. PICK x \in L : \A y \in L : y <= x
      <3> HIDE DEF L
      <3> QED BY <1>2, <2>1, GreatestPort
    <2>3. L \ {x} \in SUBSET Below(x)
      <3>1. ASSUME NEW y \in L \ {x} PROVE y \in Below(x)
        <4>1. y \in S /\ x \in S /\ y \in Nat /\ x \in Nat /\ y <= x /\ y # x
          <5> HIDE DEF L
          <5> QED BY <1>1, <1>2, <2>2
        <4>2. y < x
          BY <4>1
        <4> QED BY <4>1, <4>2
      <3> QED BY <3>1
    <2>4. Cardinality(L \ {x}) = Cardinality(L) - 1 /\ IsFiniteSet(L \ {x})
      <3> HIDE DEF L
      <3> QED BY <1>3, <2>2, FS_RemoveElement
    <2>5. x \in S /\ IsFiniteSet(Below(x)) /\ Cardinality(Below(x)) < n
      BY <1>2, <1>4, <1>5, <2>2
    <2>6. Cardinality(L \ {x}) <= Cardinality(Below(x))
      <3> HIDE DEF L, Below
      <3> QED BY <2>3, <2>5, FS_Subset
    <2>7. Cardinality(Below(x)) \in Nat
      BY <1>5, <2>5
    <2> HIDE DEF L, Below
    <2> QED BY <1>3, <1>6, <2>4, <2>5, <2>6, <2>7
  <1>7. ASSUME Cardinality(L) < n PROVE FALSE
    <2>1. S \ L # {}
      BY <1>1, <1>2, <1>7
    <2>2. PICK x \in S \ L : \A y \in S \ L : x <= y
      <3> HIDE DEF L
      <3> QED BY <1>1, <2>1, LeastPort
    <2>3. Below(x) \in SUBSET L
      <3>1. ASSUME NEW y \in S, y < x PROVE y \in L
        <4>1. ~ (x <= y)
          BY <1>1, <2>2, <3>1
        <4> HIDE DEF L
        <4> QED BY <2>2, <4>1
      <3> QED BY <3>1
    <2>4. Cardinality(Below(x)) <= Cardinality(L)
      <3> HIDE DEF L, Below
      <3> QED BY <1>3, <2>3, FS_Subset
    <2>5. Cardinality(Below(x)) \in Nat
      BY <1>5, <2>2
    <2>6. Cardinality(Below(x)) < n
      <3> HIDE DEF L, Below
      <3> QED BY <1>3, <1>7, <2>4, <2>5
    <2>7. x \in L
      BY <1>4, <2>2, <2>6
    <2> QED BY <2>2, <2>7
  <1> HIDE DEF L
  <1>8. Cardinality(L) = n
    BY <1>3, <1>6, <1>7
  <1> QED BY <1>2, <1>3, <1>8 DEF L

-----------------------------------------------------------------------------
\* What a module asks for when it is read is the number of the ports its
\* containers have a use for (ReadBackendModules, NewBackendModule and
\* NewBackendModuleWithSidecar).
LEMMA OwnCount ==
  ASSUME NEW m \in Backend
  PROVE  /\ IsFiniteSet(Own(m))
         /\ Cardinality(Own(m)) = ModuleNeeds(m) + SidecarNeeds(m)
  <1> DEFINE a == <<ModuleOf(m), "server">>
             b == <<ModuleOf(m), "debug">>
             c == <<SidecarOf(m), "server">>
             d == <<SidecarOf(m), "debug">>
             X == IF m \in DOMAIN Pinned THEN {b} ELSE {b} \union {a}
  <1>1. a # b /\ a # c /\ a # d /\ b # c /\ b # d /\ c # d
    BY DEF ModuleOf, SidecarOf
  <1>2. CASE m \in Undeployed
    <2>1. Own(m) = IF m \in Paired THEN {} ELSE {b}
      BY <1>2 DEF Own
    <2>2. ModuleNeeds(m) + SidecarNeeds(m) = IF m \in Paired THEN 0 ELSE 1
      BY <1>2 DEF ModuleNeeds, SidecarNeeds
    <2> HIDE DEF b
    <2> QED BY <2>1, <2>2, FS_EmptySet, FS_Singleton
  <1>3. CASE m \notin Undeployed
    <2>1. Own(m) = IF m \in Paired THEN X \union {c} \union {d} ELSE X
      <3>1. {m} \intersect Paired = IF m \in Paired THEN {m} ELSE {}
        OBVIOUS
      <3>2. {m} \intersect DOMAIN Pinned = IF m \in DOMAIN Pinned THEN {m} ELSE {}
        OBVIOUS
      <3>3. {ModuleOf(m)} \X Use = {a, b} /\ {SidecarOf(m)} \X Use = {c, d}
        BY DEF Use
      <3>4. {a, b} \ {<<ModuleOf(n), "server">> : n \in {m} \intersect DOMAIN Pinned} = X
        BY <1>1, <3>2
      <3>5. {SidecarOf(n) : n \in {m} \intersect Paired} =
                IF m \in Paired THEN {SidecarOf(m)} ELSE {}
        BY <3>1
      <3>6. {} \X Use = {}
        OBVIOUS
      <3> HIDE DEF a, b, c, d, X
      <3> QED BY <1>3, <3>3, <3>4, <3>5, <3>6 DEF Own
    <2>2. IsFiniteSet(X) /\ Cardinality(X) = IF m \in DOMAIN Pinned THEN 1 ELSE 2
      <3>1. IsFiniteSet({b}) /\ Cardinality({b}) = 1
        <4> HIDE DEF b
        <4> QED BY FS_Singleton
      <3>2. IsFiniteSet({b} \union {a}) /\ Cardinality({b} \union {a}) = 2
        <4> HIDE DEF a, b
        <4> QED BY <1>1, <3>1, FS_AddElement
      <3> QED BY <3>1, <3>2
    <2>3. c \notin X /\ d \notin X \union {c}
      BY <1>1
    <2> HIDE DEF a, b, c, d, X
    <2>4. /\ IsFiniteSet(X \union {c})
          /\ Cardinality(X \union {c}) = IF m \in DOMAIN Pinned THEN 2 ELSE 3
      BY <2>2, <2>3, FS_AddElement
    <2> DEFINE Y == X \union {c}
    <2>5. /\ IsFiniteSet(X \union {c} \union {d})
          /\ Cardinality(X \union {c} \union {d}) = IF m \in DOMAIN Pinned THEN 3 ELSE 4
      <3>1. /\ IsFiniteSet(Y) /\ d \notin Y
            /\ Cardinality(Y) = IF m \in DOMAIN Pinned THEN 2 ELSE 3
        BY <2>3, <2>4
      <3>2. /\ IsFiniteSet(Y \union {d})
            /\ Cardinality(Y \union {d}) = IF m \in DOMAIN Pinned THEN 3 ELSE 4
        <4> HIDE DEF Y
        <4> QED BY <3>1, FS_AddElement
      <3> QED BY <3>2
    <2>6. ModuleNeeds(m) + SidecarNeeds(m) =
             (IF m \in DOMAIN Pinned THEN 1 ELSE 2) + (IF m \in Paired THEN 2 ELSE 0)
      BY <1>3 DEF ModuleNeeds, SidecarNeeds
    <2> QED BY <2>1, <2>2, <2>5, <2>6
  <1> QED BY <1>2, <1>3

\* The uses of finitely many modules are finitely many; more modules have
\* no fewer, and one module more adds its own.
LEMMA NeedsCount ==
  /\ \A S \in SUBSET Backend : Needs(S) \in Nat
  /\ \A S, T \in SUBSET Backend : S \subseteq T => Needs(S) <= Needs(T)
  /\ \A S \in SUBSET Backend : \A m \in Backend \ S :
        Needs(S \union {m}) = Needs(S) + ModuleNeeds(m) + SidecarNeeds(m)
  <1> DEFINE All(S) == UNION {Own(m) : m \in S}
  <1>1. ASSUME NEW m \in Backend, NEW u \in Own(m)
        PROVE  \E k \in {"module", "sidecar"}, e \in Use : u = <<<<m, k>>, e>>
    <2>1. CASE m \in Undeployed
      BY <1>1, <2>1 DEF Own, Use, ModuleOf
    <2>2. CASE m \notin Undeployed
      <3>1. u \in {ModuleOf(m), SidecarOf(m)} \X Use
        BY <1>1, <2>2 DEF Own
      <3> QED BY <3>1 DEF ModuleOf, SidecarOf
    <2> QED BY <2>1, <2>2
  <1>2. IsFiniteSet(All(Backend))
    <2> DEFINE At(k, e) == {<<<<m, k>>, e>> : m \in Backend}
    <2>1. ASSUME NEW k, NEW e PROVE IsFiniteSet(At(k, e))
      <3> DEFINE f == [m \in Backend |-> <<<<m, k>>, e>>]
      <3>1. f \in Surjection(Backend, At(k, e))
        BY Fun_IsSurj
      <3> HIDE DEF f, At
      <3> QED BY <3>1, FS_Surjection, PortsAssumption
    <2> DEFINE U == At("module", "server") \union At("module", "debug")
                      \union At("sidecar", "server") \union At("sidecar", "debug")
    <2>2. IsFiniteSet(U)
      <3> HIDE DEF At
      <3>1. IsFiniteSet(At("module", "server") \union At("module", "debug"))
        BY <2>1, FS_Union
      <3>2. IsFiniteSet(At("module", "server") \union At("module", "debug")
                           \union At("sidecar", "server"))
        BY <2>1, <3>1, FS_Union
      <3> QED BY <2>1, <3>2, FS_Union
    <2>3. All(Backend) \in SUBSET U
      BY <1>1 DEF Use
    <2> HIDE DEF U, All
    <2> QED BY <2>2, <2>3, FS_Subset
  <1>3. ASSUME NEW S \in SUBSET Backend
        PROVE  IsFiniteSet(All(S)) /\ Cardinality(All(S)) \in Nat
    <2>1. All(S) \in SUBSET All(Backend)
      OBVIOUS
    <2> HIDE DEF All
    <2> QED BY <1>2, <2>1, FS_Subset, FS_CardinalityType
  <1>4. ASSUME NEW S \in SUBSET Backend, NEW T \in SUBSET Backend, S \subseteq T
        PROVE  Cardinality(All(S)) <= Cardinality(All(T))
    <2>1. All(S) \in SUBSET All(T)
      BY <1>4
    <2> HIDE DEF All
    <2> QED BY <1>3, <2>1, FS_Subset
  <1>5. ASSUME NEW S \in SUBSET Backend, NEW m \in Backend \ S
        PROVE  Cardinality(All(S \union {m})) =
                  Cardinality(All(S)) + ModuleNeeds(m) + SidecarNeeds(m)
    <2>1. All(S \union {m}) = All(S) \union Own(m)
      OBVIOUS
    <2>2. All(S) \intersect Own(m) = {}
      <3>1. ASSUME NEW u, u \in All(S), u \in Own(m) PROVE FALSE
        <4>1. PICK n \in S : u \in Own(n)
          BY <3>1
        <4>2. u[1][1] = n
          BY <1>1, <4>1
        <4>3. u[1][1] = m
          BY <1>1, <3>1
        <4> QED BY <4>2, <4>3
      <3> QED BY <3>1
    <2> HIDE DEF All
    <2>3. Cardinality(All(S) \union Own(m)) =
             Cardinality(All(S)) + Cardinality(Own(m)) - 0
      BY <1>3, <2>2, OwnCount, FS_Union, FS_EmptySet
    <2>4. ModuleNeeds(m) \in Nat /\ SidecarNeeds(m) \in Nat
      BY DEF ModuleNeeds, SidecarNeeds
    <2>5. Cardinality(Own(m)) = ModuleNeeds(m) + SidecarNeeds(m)
      BY OwnCount
    <2>6. Cardinality(All(S)) \in Nat
      BY <1>3
    <2>7. Cardinality(All(S) \union Own(m)) = Cardinality(All(S)) + ModuleNeeds(m) + SidecarNeeds(m)
      BY <2>3, <2>4, <2>5, <2>6
    <2> QED BY <2>1, <2>7
  <1>6. \A S : Needs(S) = Cardinality(All(S))
    BY DEF Needs
  <1> HIDE DEF All
  <1> QED BY <1>3, <1>4, <1>5, <1>6

-----------------------------------------------------------------------------
\* The two containers of a module are two, and no other module has them.
LEMMA Pairs ==
  /\ \A m \in Module : ModuleOf(m) \in Container /\ SidecarOf(m) \in Container
  /\ \A m, n \in Module : ModuleOf(m) # SidecarOf(n)
  /\ \A m, n \in Module : ModuleOf(m) = ModuleOf(n) \/ SidecarOf(m) = SidecarOf(n) => m = n
  /\ \A c \in Container : \E m \in Module : c \in PairOf(m)
  /\ \A m \in Backend : m \in Module /\ m # Local
  /\ Local \in Module
  /\ \A m \in Module : PinnedAt(SidecarOf(m)) = {}
  BY PortsAssumption DEF Module, Container, ModuleOf, SidecarOf, PairOf, PinnedAt

\* Configured ports lie outside the range and differ, so that no other
\* container has the one of a module.
LEMMA PinnedApart ==
  \A c, d : /\ PinnedAt(c) \intersect PortRange = {}
            /\ c \in Container /\ d \in Container /\ c # d
                 => PinnedAt(c) \intersect PinnedAt(d) = {}
            /\ PinnedAt(c) \subseteq Fixed
  BY PortsAssumption DEF PinnedAt, Container, Fixed

\* A reservation hands out ports that were free and not handed out before,
\* as many as asked for, to the one container or the other
\* (GetPreReservedPortSet, GetPreReservedPort).
LEMMA Reserved ==
  ASSUME NEW m \in Module, NEW f \in Nat, NEW s \in Nat, NEW fixed,
         Reserve(m, f, s, fixed)
  PROVE  \E own, side \in SUBSET Candidates :
            /\ own \intersect side = {}
            /\ IsFiniteSet(own) /\ Cardinality(own) = f
            /\ IsFiniteSet(side) /\ Cardinality(side) = s
            /\ reserved' = reserved \union own \union side
            /\ plan' = [plan EXCEPT ![ModuleOf(m)] = own \union fixed,
                                    ![SidecarOf(m)] = side]
  <1> DEFINE all == Lowest(Candidates, f + s)
             own == Lowest(all, f)
  <1>1. /\ Cardinality(Candidates) >= f + s
        /\ reserved' = reserved \union all
        /\ plan' = [plan EXCEPT ![ModuleOf(m)] = own \union fixed,
                                ![SidecarOf(m)] = all \ own]
    BY DEF Reserve
  <1>2. Candidates \in SUBSET PortRange
    BY DEF Candidates
  <1>3. all \subseteq Candidates /\ IsFiniteSet(all) /\ Cardinality(all) = f + s
    BY <1>1, <1>2, LowestCount
  <1> HIDE DEF all
  <1>4. own \subseteq all /\ IsFiniteSet(own) /\ Cardinality(own) = f
    BY <1>2, <1>3, LowestCount
  <1> HIDE DEF own
  <1>5. IsFiniteSet(all \ own) /\ Cardinality(all \ own) = s
    <2>1. all = own \union (all \ own) /\ own \intersect (all \ own) = {}
      BY <1>4
    <2>2. all \ own \in SUBSET all
      OBVIOUS
    <2>3. IsFiniteSet(all \ own) /\ Cardinality(all \ own) \in Nat
      BY <1>3, <2>2, FS_Subset, FS_CardinalityType
    <2>4. Cardinality(own \union (all \ own)) = Cardinality(own) + Cardinality(all \ own) - Cardinality({})
      BY <1>4, <2>1, <2>3, FS_Union
    <2>5. Cardinality(all) = Cardinality(own) + Cardinality(all \ own) - 0
      BY <2>1, <2>4, FS_EmptySet
    <2> QED BY <1>3, <1>4, <2>3, <2>5
  <1>6. own \in SUBSET Candidates /\ all \ own \in SUBSET Candidates
    BY <1>3, <1>4
  <1>7. own \intersect (all \ own) = {} /\ reserved' = reserved \union own \union (all \ own)
    BY <1>1, <1>4
  <1> QED BY <1>1, <1>4, <1>5, <1>6, <1>7

\* What a reservation keeps and adds, whoever makes it.
LEMMA ReserveStep ==
  ASSUME IInv, NEW m \in Module, NEW f \in Nat, NEW s \in Nat,
         NEW fixed \in SUBSET PinnedAt(ModuleOf(m)),
         Reserve(m, f, s, fixed),
         f + Cardinality(fixed) <= 2, s <= 2,
         UNCHANGED <<docker, foreign, stolen>>
  PROVE  /\ plan' \in [Container -> SUBSET Port] /\ reserved' \subseteq Port
         /\ stolen' \subseteq reserved'
         /\ PortsOK' /\ PlansApart' /\ PlansFree' /\ TwoPorts'
         /\ \A c \in Container : c \notin PairOf(m) => plan'[c] = plan[c]
         /\ f > 0 => plan'[ModuleOf(m)] # {}
         /\ Cardinality(reserved') <= Cardinality(reserved) + f + s
         /\ Cardinality(reserved' \ Bound') <= Cardinality(reserved \ Bound) + f + s
  <1>1. PICK own \in SUBSET Candidates, side \in SUBSET Candidates :
            /\ own \intersect side = {}
            /\ IsFiniteSet(own) /\ Cardinality(own) = f
            /\ IsFiniteSet(side) /\ Cardinality(side) = s
            /\ reserved' = reserved \union own \union side
            /\ plan' = [plan EXCEPT ![ModuleOf(m)] = own \union fixed,
                                    ![SidecarOf(m)] = side]
    BY Reserved
  <1>2. /\ TypeOK /\ PortsOK /\ PlansApart /\ PlansFree /\ TwoPorts
        /\ binding' = binding /\ running' = running /\ foreign' = foreign /\ stolen' = stolen
    BY DEF IInv, docker
  <1>3. /\ own \subseteq PortRange \ (Held \union foreign \union reserved)
        /\ side \subseteq PortRange \ (Held \union foreign \union reserved)
    BY DEF Candidates
  <1>4. /\ ModuleOf(m) \in Container /\ SidecarOf(m) \in Container /\ ModuleOf(m) # SidecarOf(m)
        /\ PinnedAt(SidecarOf(m)) = {}
    BY Pairs
  <1>5. /\ plan'[ModuleOf(m)] = own \union fixed /\ plan'[SidecarOf(m)] = side
        /\ \A c \in Container : c # ModuleOf(m) /\ c # SidecarOf(m) => plan'[c] = plan[c]
        /\ DOMAIN plan' = Container
    BY <1>1, <1>2, <1>4 DEF TypeOK
  <1>6. own \subseteq Port /\ side \subseteq Port /\ fixed \subseteq Port
    BY <1>3, PortsFinite
  <1>7. plan' \in [Container -> SUBSET Port] /\ reserved' \subseteq Port /\ stolen' \subseteq reserved'
    BY <1>1, <1>2, <1>6 DEF TypeOK
  <1>8. PortsOK'
    <2> SUFFICES ASSUME NEW c \in Container
                 PROVE  plan'[c] \subseteq (PortRange \intersect reserved') \union PinnedAt(c)
      BY <1>2 DEF PortsOK
    <2>1. CASE c = ModuleOf(m)
      BY <1>1, <1>3, <1>5, <2>1
    <2>2. CASE c = SidecarOf(m)
      BY <1>1, <1>3, <1>4, <1>5, <2>2
    <2>3. CASE c # ModuleOf(m) /\ c # SidecarOf(m)
      BY <1>1, <1>2, <1>5, <2>3 DEF PortsOK
    <2> QED BY <2>1, <2>2, <2>3
  <1>9. ASSUME NEW c \in Container, c # ModuleOf(m), c # SidecarOf(m)
        PROVE  plan[c] \intersect (own \union side \union fixed) = {}
    <2>1. plan[c] \subseteq (PortRange \intersect reserved) \union PinnedAt(c)
      BY <1>2 DEF PortsOK
    <2>2. PinnedAt(c) \intersect PortRange = {} /\ PinnedAt(c) \intersect fixed = {}
      BY <1>4, <1>9, PinnedApart
    <2>3. fixed \intersect PortRange = {}
      BY PinnedApart
    <2> QED BY <1>3, <2>1, <2>2, <2>3
  <1>10. PlansApart'
    <2>1. fixed \intersect side = {}
      BY <1>3, PinnedApart
    <2> SUFFICES ASSUME NEW c \in Container, NEW d \in Container, c # d
                 PROVE  plan'[c] \intersect plan'[d] = {}
      BY DEF PlansApart
    <2>2. CASE c = ModuleOf(m)
      BY <1>1, <1>5, <1>9, <2>1, <2>2
    <2>3. CASE c = SidecarOf(m)
      BY <1>1, <1>5, <1>9, <2>1, <2>3
    <2>4. CASE c # ModuleOf(m) /\ c # SidecarOf(m)
      BY <1>2, <1>5, <1>9, <2>4 DEF PlansApart
    <2> QED BY <2>2, <2>3, <2>4
  <1>11. PlansFree'
    <2> SUFFICES ASSUME NEW c \in Container
                 PROVE  /\ plan'[c] \intersect foreign \subseteq stolen \union Fixed
                        /\ \A d \in running \ {c} : plan'[c] \intersect binding[d] \subseteq stolen
      BY <1>2 DEF PlansFree
    <2>1. \A d \in running : d \in Container /\ binding[d] \subseteq Held
      BY <1>2 DEF TypeOK, Held
    <2>2. CASE c = ModuleOf(m)
      <3>1. fixed \subseteq Fixed
        BY PinnedApart
      <3>2. ASSUME NEW d \in running \ {c} PROVE fixed \intersect binding[d] = {}
        <4>1. binding[d] \subseteq PortRange \union PinnedAt(d)
          BY <1>2, <2>1 DEF PortsOK
        <4> QED BY <1>4, <2>1, <2>2, <4>1, PinnedApart
      <3> QED BY <1>3, <1>5, <2>1, <2>2, <3>1, <3>2
    <2>3. CASE c = SidecarOf(m)
      BY <1>3, <1>5, <2>1, <2>3
    <2>4. CASE c # ModuleOf(m) /\ c # SidecarOf(m)
      BY <1>2, <1>5, <2>4 DEF PlansFree
    <2> QED BY <2>2, <2>3, <2>4
  <1>12. TwoPorts'
    <2>1. IsFiniteSet(fixed) /\ Cardinality(fixed) \in Nat
      BY PortsFinite, <1>6, FS_Subset, FS_CardinalityType
    <2>2. Cardinality(own \union fixed) <= 2
      <3>1. own \intersect fixed = {}
        BY <1>3, PinnedApart
      <3>2. Cardinality(own \union fixed) = Cardinality(own) + Cardinality(fixed) - 0
        BY <1>1, <2>1, <3>1, FS_Union, FS_EmptySet
      <3> QED BY <1>1, <2>1, <3>2
    <2> QED BY <1>1, <1>2, <1>5, <2>2 DEF TwoPorts
  <1>13. f > 0 => plan'[ModuleOf(m)] # {}
    <2>1. f > 0 => own # {}
      BY <1>1, FS_EmptySet
    <2> QED BY <1>5, <2>1
  <1>14. ASSUME NEW S, IsFiniteSet(S)
         PROVE  /\ IsFiniteSet(S \union own \union side)
                /\ Cardinality(S \union own \union side) <= Cardinality(S) + f + s
    <2>1. /\ IsFiniteSet(S \union own)
          /\ Cardinality(S \union own) = Cardinality(S) + f - Cardinality(S \intersect own)
      BY <1>1, <1>14, FS_Union
    <2>2. /\ IsFiniteSet((S \union own) \union side)
          /\ Cardinality((S \union own) \union side) =
                Cardinality(S \union own) + s - Cardinality((S \union own) \intersect side)
      BY <1>1, <2>1, FS_Union
    <2>3. Cardinality(S \intersect own) \in Nat
      <3>1. S \intersect own \in SUBSET own
        OBVIOUS
      <3> QED BY <1>1, <3>1, FS_Subset, FS_CardinalityType
    <2>4. Cardinality((S \union own) \intersect side) \in Nat
      <3>1. (S \union own) \intersect side \in SUBSET side
        OBVIOUS
      <3> QED BY <1>1, <3>1, FS_Subset, FS_CardinalityType
    <2>5. Cardinality(S) \in Nat /\ Cardinality(S \union own) \in Nat
      BY <1>14, <2>1, FS_CardinalityType
    <2> QED BY <2>1, <2>2, <2>3, <2>4, <2>5
  <1>15. IsFiniteSet(reserved) /\ IsFiniteSet(reserved \ Bound)
    <2>1. reserved \in SUBSET Port /\ reserved \ Bound \in SUBSET Port
      BY <1>2 DEF TypeOK
    <2> QED BY <2>1, PortsFinite, FS_Subset
  <1>16. Cardinality(reserved') <= Cardinality(reserved) + f + s
    BY <1>1, <1>14, <1>15
  <1>17. Cardinality(reserved' \ Bound') <= Cardinality(reserved \ Bound) + f + s
    <2> DEFINE S == (reserved \ Bound) \union own \union side
    <2>1. IsFiniteSet(S) /\ Cardinality(S) <= Cardinality(reserved \ Bound) + f + s
      BY <1>14, <1>15
    <2>2. Bound' = Bound
      BY <1>2 DEF Bound
    <2>3. reserved' \ Bound' \in SUBSET S
      BY <1>1, <2>2
    <2>4. Cardinality(reserved' \ Bound') <= Cardinality(S) /\ IsFiniteSet(reserved' \ Bound')
      <3> HIDE DEF S
      <3> QED BY <2>1, <2>3, FS_Subset
    <2>5. /\ Cardinality(reserved' \ Bound') \in Nat /\ Cardinality(S) \in Nat
          /\ Cardinality(reserved \ Bound) \in Nat
      <3> HIDE DEF S
      <3> QED BY <1>15, <2>1, <2>4, FS_CardinalityType
    <2> HIDE DEF S
    <2> QED BY <2>1, <2>4, <2>5
  <1>18. \A c \in Container : c \notin PairOf(m) => plan'[c] = plan[c]
    BY <1>5 DEF PairOf
  <1> QED BY <1>7, <1>8, <1>10, <1>11, <1>12, <1>13, <1>16, <1>17, <1>18

-----------------------------------------------------------------------------
\* One more event or command below the bound is within it.
LEMMA Counted ==
  /\ \A e \in 0 .. MaxEvents : e < MaxEvents => e + 1 \in 0 .. MaxEvents
  /\ \A e \in 0 .. MaxCommands : e < MaxCommands => e + 1 \in 0 .. MaxCommands
  BY PortsAssumption

\* The modules read so far are modules.
LEMMA VisitedModules == Visited \in SUBSET Backend
  BY DEF Visited, Grouped

\* The budget concerns only what the command has read and reserved, and the
\* containers.
LEMMA BudgetStays ==
  ASSUME BudgetOK, UNCHANGED <<binding, cmd, pc, group, todo, reserved>>
  PROVE  BudgetOK'
  <1>1. Bound' = Bound /\ Visited' = Visited
    BY DEF Bound, Visited
  <1> QED BY <1>1 DEF BudgetOK

\* The invariant holds initially.
LEMMA InitHolds == Init => IInv
  <1> SUFFICES ASSUME Init PROVE IInv
    OBVIOUS
  <1>1. NoPorts \in [Container -> SUBSET Port] /\ \A c \in Container : NoPorts[c] = {}
    BY DEF NoPorts
  <1>2. TypeOK
    BY <1>1, PortsAssumption DEF Init, TypeOK, Module
  <1>3. TwoPorts
    BY <1>1, FS_EmptySet DEF Init, TwoPorts
  <1>4. BudgetOK
    BY DEF Init, BudgetOK
  <1> QED BY <1>1, <1>2, <1>3, <1>4
     DEF Init, IInv, ControlOK, PortsOK, PlansApart, PlansFree, PlansMade

\* What happens outside the program keeps the invariant: a planned port that
\* is taken was reserved, and is counted as stolen.
LEMMA EnvironmentStep ==
  ASSUME IInv, Environment
  PROVE  IInv'
  <1> USE DEF IInv
  <1>1. ASSUME NEW p \in Outside, OtherTakes(p) PROVE IInv'
    <2>1. TypeOK'
      <3>1. events' \in 0 .. MaxEvents
        BY <1>1, Counted DEF TypeOK, OtherTakes
      <3> QED BY <1>1, <3>1 DEF TypeOK, OtherTakes, docker
    <2>2. PlansFree'
      <3> SUFFICES ASSUME NEW c \in Container
                   PROVE  plan[c] \intersect {p} \subseteq stolen' \union Fixed
        BY <1>1 DEF PlansFree, OtherTakes, docker
      <3>1. plan[c] \subseteq reserved \union Fixed
        BY PinnedApart DEF PortsOK
      <3> QED BY <1>1, <3>1 DEF OtherTakes
    <2>3. BudgetOK'
      BY <1>1, BudgetStays DEF OtherTakes, docker
    <2> QED BY <1>1, <2>1, <2>2, <2>3
       DEF OtherTakes, docker, ControlOK, PortsOK, PlansApart, PlansMade, TwoPorts
  <1>2. ASSUME NEW p \in Outside, OtherReleases(p) PROVE IInv'
    <2>1. TypeOK'
      BY <1>2 DEF TypeOK, OtherReleases, docker, bounds
    <2>2. BudgetOK'
      BY <1>2, BudgetStays DEF OtherReleases, docker
    <2> QED BY <1>2, <2>1, <2>2
       DEF OtherReleases, docker, ControlOK, PortsOK, PlansApart, PlansFree, PlansMade,
              TwoPorts
  <1>3. ASSUME NEW c \in Container, ContainerStops(c) PROVE IInv'
    <2>1. TypeOK'
      <3>1. events' \in 0 .. MaxEvents
        BY <1>3, Counted DEF TypeOK, ContainerStops
      <3> QED BY <1>3, <3>1 DEF TypeOK, ContainerStops
    <2>2. BudgetOK'
      BY <1>3, BudgetStays DEF ContainerStops
    <2> QED BY <1>3, <2>1, <2>2
       DEF ContainerStops, ControlOK, PortsOK, PlansApart, PlansFree, PlansMade, TwoPorts
  <1>4. ASSUME NEW d \in Container, ContainerRestarts(d) PROVE IInv'
    <2>1. TypeOK'
      BY <1>4 DEF TypeOK, ContainerRestarts, bounds
    <2>2. PlansFree'
      <3>1. stolen' = stolen \union (binding[d] \intersect reserved)
        BY <1>4 DEF ContainerRestarts
      <3> SUFFICES ASSUME NEW c \in Container, NEW e \in running' \ {c}
                   PROVE  plan[c] \intersect binding[e] \subseteq stolen'
        BY <1>4, <3>1 DEF PlansFree, ContainerRestarts
      <3>2. CASE e = d
        <4>1. /\ plan[c] \subseteq (PortRange \intersect reserved) \union PinnedAt(c)
              /\ binding[d] \subseteq PortRange \union PinnedAt(d)
          BY DEF PortsOK
        <4>2. PinnedAt(c) \intersect PinnedAt(d) = {} /\ PinnedAt(c) \intersect PortRange = {}
          BY <3>2, PinnedApart
        <4> QED BY <3>1, <3>2, <4>1, <4>2
      <3>3. CASE e # d
        BY <1>4, <3>1, <3>3 DEF PlansFree, ContainerRestarts
      <3> QED BY <3>2, <3>3
    <2>3. BudgetOK'
      BY <1>4, BudgetStays DEF ContainerRestarts
    <2> QED BY <1>4, <2>1, <2>2, <2>3
       DEF ContainerRestarts, ControlOK, PortsOK, PlansApart, PlansMade, TwoPorts
  <1> QED BY <1>1, <1>2, <1>3, <1>4 DEF Environment

\* A command begins with nothing reserved.
LEMMA BeginStep ==
  ASSUME IInv, Begin
  PROVE  IInv'
  <1> USE DEF IInv
  <1>1. PICK c \in {"deploy", "exchange", "local"}, m \in Module : Start(c, m)
    BY PortsAssumption DEF Begin, Module
  <1>2. /\ reserved = {} /\ plan = NoPorts /\ starts = {}
        /\ UNCHANGED <<docker, foreign, reserved, plan, starts, stolen>> /\ cmd' = c /\ result' = "none"
        /\ \/ pc' = "used" /\ c = "local"
           \/ /\ pc' = "read" /\ c # "local" /\ group' \in {"management", "modules"}
              /\ (c # "deploy" => group' = "modules")
              /\ (c = "deploy" => group' = "management")
              /\ todo' = Grouped(group')
    BY <1>1 DEF Start, CallRead, ControlOK, Grouped
  <1>3. TypeOK'
    <2>1. commands' \in 0 .. MaxCommands
      BY <1>1, Counted DEF TypeOK, Start
    <2> QED BY <1>1, <1>2, <2>1 DEF TypeOK, Start, Grouped, docker
  <1>4. ControlOK'
    BY <1>2 DEF ControlOK
  <1>5. BudgetOK'
    <2>1. Needs(Visited') \in Nat
      <3>1. Visited' \in SUBSET Backend
        BY DEF Visited, Grouped
      <3> QED BY <3>1, NeedsCount
    <2>2. Cardinality(reserved') = 0 /\ reserved' \ Bound' = {}
      BY <1>2, FS_EmptySet
    <2>3. pc' \in {"used", "read"}
      BY <1>2
    <2> QED BY <2>1, <2>2, <2>3, FS_EmptySet DEF BudgetOK
  <1>6. PlansMade'
    BY <1>2 DEF PlansMade, Deployable, Grouped
  <1> QED BY <1>2, <1>3, <1>4, <1>5, <1>6
     DEF docker, PortsOK, PlansApart, PlansFree, TwoPorts

\* A process that ends takes its reservations with it.
LEMMA ProcessEndsStep ==
  ASSUME IInv, ProcessEnds
  PROVE  IInv'
  <1> USE DEF IInv
  <1>1. NoPorts \in [Container -> SUBSET Port] /\ \A c \in Container : NoPorts[c] = {}
    BY DEF NoPorts
  <1>2. TypeOK'
    BY <1>1, PortsAssumption DEF TypeOK, ProcessEnds, docker, bounds, Module
  <1>3. TwoPorts'
    BY <1>1, FS_EmptySet DEF TwoPorts, ProcessEnds, docker
  <1> QED BY <1>1, <1>2, <1>3
     DEF ProcessEnds, docker, ControlOK, PortsOK, PlansApart, PlansFree, PlansMade, BudgetOK

-----------------------------------------------------------------------------
\* What is published when a local run begins is held by a container.
LEMMA ReserveUsedHostPortsStep ==
  ASSUME IInv, ReserveUsedHostPorts
  PROVE  IInv'
  <1> USE DEF IInv
  <1>1. /\ reserved = {} /\ plan = NoPorts /\ starts = {} /\ cmd = "local"
        /\ reserved' = Held /\ pc' = "read" /\ group' = "modules" /\ todo' = Grouped("modules")
        /\ UNCHANGED <<docker, foreign, cmd, plan, starts, target, stolen, result, bounds>>
    BY DEF ReserveUsedHostPorts, CallRead, ControlOK, Grouped
  <1>2. Held \subseteq Port /\ Held \subseteq Bound
    BY DEF TypeOK, Held, Bound
  <1>3. TypeOK'
    BY <1>1, <1>2 DEF TypeOK, docker, bounds, Grouped
  <1>4. BudgetOK'
    <2>1. Needs(Visited') \in Nat
      <3>1. Visited' \in SUBSET Backend
        BY DEF Visited, Grouped
      <3> QED BY <3>1, NeedsCount
    <2>2. reserved' \ Bound' = {}
      BY <1>1, <1>2 DEF Bound, docker
    <2> QED BY <1>1, <2>1, <2>2, FS_EmptySet DEF BudgetOK
  <1>5. ControlOK' /\ PlansMade'
    BY <1>1 DEF ControlOK, PlansMade, Deployable, Grouped
  <1>6. PortsOK' /\ PlansApart' /\ PlansFree'
    BY <1>1 DEF docker, PortsOK, PlansApart, PlansFree, NoPorts
  <1> QED BY <1>1, <1>3, <1>4, <1>5, <1>6 DEF docker, TwoPorts

\* Reserving for a module that is read spends what it asks for.
LEMMA ReadModuleStep ==
  ASSUME IInv, NEW m \in Backend, ReadModule(m)
  PROVE  IInv'
  <1> USE DEF IInv
  <1>1. /\ pc = "read" /\ m \in todo /\ todo' = todo \ {m}
        /\ UNCHANGED <<docker, foreign, cmd, group, starts, target, stolen, bounds>>
    BY DEF ReadModule
  <1>2. Visited \in SUBSET Backend /\ m \notin Visited /\ Visited' = Visited \union {m}
    BY <1>1 DEF Visited, Grouped, ControlOK
  <1>3. CASE /\ Reserve(m, ModuleNeeds(m), SidecarNeeds(m), Configured(m))
             /\ UNCHANGED <<pc, result>>
    <2>1. /\ ModuleNeeds(m) \in Nat /\ SidecarNeeds(m) \in Nat /\ m \in Module
          /\ Configured(m) \in SUBSET PinnedAt(ModuleOf(m))
          /\ SidecarNeeds(m) <= 2
      BY DEF ModuleNeeds, SidecarNeeds, Configured, PinnedAt, ModuleOf, Module
    <2>2. ModuleNeeds(m) + Cardinality(Configured(m)) <= 2
      <3>1. CASE m \in DOMAIN Pinned \ Undeployed
        BY <3>1, FS_Singleton DEF Configured, ModuleNeeds
      <3>2. CASE m \notin DOMAIN Pinned \ Undeployed
        BY <3>2, FS_EmptySet DEF Configured, ModuleNeeds
      <3> QED BY <3>1, <3>2
    <2>3. /\ plan' \in [Container -> SUBSET Port] /\ reserved' \subseteq Port
          /\ stolen' \subseteq reserved'
          /\ PortsOK' /\ PlansApart' /\ PlansFree' /\ TwoPorts'
          /\ \A c \in Container : c \notin PairOf(m) => plan'[c] = plan[c]
          /\ ModuleNeeds(m) > 0 => plan'[ModuleOf(m)] # {}
          /\ Cardinality(reserved') <= Cardinality(reserved) + ModuleNeeds(m) + SidecarNeeds(m)
          /\ Cardinality(reserved' \ Bound')
                <= Cardinality(reserved \ Bound) + ModuleNeeds(m) + SidecarNeeds(m)
      BY <1>1, <1>3, <2>1, <2>2, ReserveStep
    <2>4. TypeOK'
      BY <1>1, <1>3, <2>3 DEF TypeOK, docker, bounds
    <2>5. PlansMade'
      <3>1. starts = {}
        BY <1>1 DEF ControlOK
      <3> SUFFICES ASSUME NEW n \in Deployable(group), n \notin todo \/ n = m
                   PROVE  plan'[ModuleOf(n)] # {}
        BY <1>1, <1>3, <3>1 DEF PlansMade, Deployable
      <3>2. CASE n = m
        BY <2>3, <3>2 DEF Deployable, ModuleNeeds
      <3>3. CASE n # m
        <4>1. ModuleOf(n) \in Container /\ ModuleOf(n) \notin PairOf(m)
          BY <3>3, Pairs DEF Deployable, PairOf
        <4> QED BY <1>1, <2>3, <3>3, <4>1 DEF PlansMade
      <3> QED BY <3>2, <3>3
    <2>6. BudgetOK'
      <3>1. /\ Needs(Visited') = Needs(Visited) + ModuleNeeds(m) + SidecarNeeds(m)
            /\ Needs(Visited) \in Nat
        BY <1>2, NeedsCount
      <3>2. /\ Cardinality(reserved) \in Nat /\ Cardinality(reserved \ Bound) \in Nat
            /\ Cardinality(reserved') \in Nat /\ Cardinality(reserved' \ Bound') \in Nat
        <4>1. /\ reserved \in SUBSET Port /\ reserved \ Bound \in SUBSET Port
              /\ reserved' \in SUBSET Port /\ reserved' \ Bound' \in SUBSET Port
          BY <2>3 DEF TypeOK
        <4> QED BY <4>1, PortsFinite, FS_Subset, FS_CardinalityType
      <3>3. cmd' = cmd /\ pc' = "read"
        BY <1>1, <1>3
      <3> QED BY <1>1, <2>1, <2>3, <3>1, <3>2, <3>3 DEF BudgetOK
    <2> QED BY <1>1, <1>3, <2>3, <2>4, <2>5, <2>6 DEF ControlOK
  <1>4. CASE NoFreeTCPPort(ModuleNeeds(m) + SidecarNeeds(m)) /\ UNCHANGED <<reserved, plan>>
    <2>1. TypeOK'
      BY <1>1, <1>4 DEF TypeOK, NoFreeTCPPort, Return, docker, bounds
    <2> QED BY <1>1, <1>4, <2>1
       DEF NoFreeTCPPort, Return, docker, ControlOK, PortsOK, PlansApart, PlansFree, PlansMade,
           TwoPorts, BudgetOK
  <1> QED BY <1>3, <1>4 DEF ReadModule

\* What was read is there when the containers are to be started.
LEMMA ReadEndsStep ==
  ASSUME IInv, ReadEnds
  PROVE  IInv'
  <1> USE DEF IInv
  <1>1. /\ pc = "read" /\ todo = {}
        /\ UNCHANGED <<docker, foreign, cmd, group, todo, reserved, plan, target, stolen, result,
                       bounds>>
        /\ \/ /\ cmd = "deploy" /\ pc' = "start"
              /\ starts' = {ModuleOf(m) : m \in Deployable(group)}
           \/ cmd = "local" /\ pc' = "local" /\ starts' = starts
           \/ cmd = "exchange" /\ pc' = "undeploy" /\ starts' = starts
    BY DEF ReadEnds, ControlOK, TypeOK
  <1>2. TypeOK'
    BY <1>1, Pairs DEF TypeOK, docker, bounds, Deployable
  <1>3. BudgetOK'
    <2>1. Bound' = Bound /\ Visited' = Visited
      BY <1>1 DEF Bound, Visited, docker
    <2> QED BY <1>1, <2>1 DEF BudgetOK
  <1>4. PlansMade'
    BY <1>1 DEF PlansMade
  <1>5. ControlOK'
    BY <1>1 DEF ControlOK
  <1> QED BY <1>1, <1>2, <1>3, <1>4, <1>5
     DEF docker, PortsOK, PlansApart, PlansFree, TwoPorts

\* The local module takes four ports more.
LEMMA NewLocalBackendModuleStep ==
  ASSUME IInv, NewLocalBackendModule
  PROVE  IInv'
  <1> USE DEF IInv
  <1>1. /\ pc = "local"
        /\ UNCHANGED <<docker, foreign, cmd, group, todo, starts, target, stolen, bounds>>
    BY DEF NewLocalBackendModule
  <1>2. CASE Reserve(Local, 2, 2, {}) /\ pc' = "undeploy" /\ UNCHANGED result
    <2>1. /\ plan' \in [Container -> SUBSET Port] /\ reserved' \subseteq Port
          /\ stolen' \subseteq reserved'
          /\ PortsOK' /\ PlansApart' /\ PlansFree' /\ TwoPorts'
          /\ Cardinality(reserved' \ Bound') <= Cardinality(reserved \ Bound) + 2 + 2
          /\ \A c \in Container : c \notin PairOf(Local) => plan'[c] = plan[c]
          /\ plan'[ModuleOf(Local)] # {}
      <3>1. /\ 2 + Cardinality({}) <= 2 /\ 2 \in Nat /\ 2 <= 2 /\ 2 > 0 /\ Local \in Module
            /\ {} \in SUBSET PinnedAt(ModuleOf(Local))
        BY FS_EmptySet, Pairs
      <3>2. UNCHANGED <<docker, foreign, stolen>> /\ Reserve(Local, 2, 2, {})
        BY <1>1, <1>2
      <3> HIDE DEF IInv
      <3> QED BY <3>1, <3>2, ReserveStep
    <2>2. TypeOK'
      BY <1>1, <1>2, <2>1 DEF TypeOK, docker, bounds
    <2>3. BudgetOK'
      <3>1. Visited' = Visited /\ Needs(Visited) \in Nat
        BY <1>1, VisitedModules, NeedsCount DEF Visited
      <3>2. Cardinality(reserved \ Bound) \in Nat /\ Cardinality(reserved' \ Bound') \in Nat
        <4>1. reserved \ Bound \in SUBSET Port /\ reserved' \ Bound' \in SUBSET Port
          BY <2>1 DEF TypeOK
        <4> QED BY <4>1, PortsFinite, FS_Subset, FS_CardinalityType
      <3>3. cmd' = "local" /\ cmd = "local"
        BY <1>1 DEF ControlOK
      <3> QED BY <1>1, <1>2, <2>1, <3>1, <3>2, <3>3 DEF BudgetOK
    <2>4. PlansMade' /\ ControlOK'
      <3>1. starts = {} /\ cmd = "local" /\ group = "modules"
        BY <1>1 DEF ControlOK
      <3> QED BY <1>1, <1>2, <3>1 DEF PlansMade, ControlOK
    <2> QED BY <1>1, <1>2, <2>1, <2>2, <2>3, <2>4
  <1>3. CASE NoFreeTCPPort(4) /\ UNCHANGED <<reserved, plan>>
    <2>1. TypeOK'
      BY <1>1, <1>3 DEF TypeOK, NoFreeTCPPort, Return, docker, bounds
    <2> QED BY <1>1, <1>3, <2>1
       DEF NoFreeTCPPort, Return, docker, ControlOK, PortsOK, PlansApart, PlansFree, PlansMade,
           TwoPorts, BudgetOK
  <1> QED BY <1>2, <1>3 DEF NewLocalBackendModule

-----------------------------------------------------------------------------
\* The old pair goes; what a local run had counted as taken on its account is
\* four ports at most.
LEMMA UndeployStep ==
  ASSUME IInv, UndeployModuleAndSidecarPair
  PROVE  IInv'
  <1> USE DEF IInv
  <1>1. /\ pc = "undeploy" /\ pc' = "network"
        /\ binding' = [c \in Container |-> IF c \in PairOf(target) THEN {} ELSE binding[c]]
        /\ running' = running \ PairOf(target)
        /\ UNCHANGED <<foreign, cmd, group, todo, reserved, plan, starts, target, stolen, result,
                       bounds>>
    BY DEF UndeployModuleAndSidecarPair
  <1>2. TypeOK'
    BY <1>1 DEF TypeOK, bounds
  <1>3. PortsOK' /\ PlansApart' /\ PlansFree'
    <2>1. PortsOK' /\ PlansApart'
      BY <1>1 DEF PortsOK, PlansApart
    <2>2. \A d \in running' : d \in Container /\ d \in running /\ binding'[d] = binding[d]
      BY <1>1 DEF TypeOK
    <2> QED BY <1>1, <2>1, <2>2 DEF PlansFree
  <1>4. TwoPorts'
    BY <1>1, FS_EmptySet DEF TwoPorts
  <1>5. BudgetOK'
    <2> DEFINE a == binding[ModuleOf(target)]
               b == binding[SidecarOf(target)]
               R == reserved \ Bound
    <2>1. /\ a \in SUBSET Port /\ b \in SUBSET Port /\ R \in SUBSET Port
          /\ Cardinality(a) <= 2 /\ Cardinality(b) <= 2
      BY Pairs DEF TypeOK, TwoPorts
    <2>2. reserved' \ Bound' \in SUBSET (R \union a \union b)
      <3>1. Bound \subseteq Bound' \union a \union b
        <4> SUFFICES ASSUME NEW c \in Container, NEW p \in binding[c]
                     PROVE  p \in Bound' \union a \union b
          BY DEF Bound
        <4>1. CASE c \in PairOf(target)
          BY <4>1 DEF PairOf
        <4>2. CASE c \notin PairOf(target)
          <5>1. binding'[c] = binding[c]
            BY <1>1, <4>2
          <5> QED BY <5>1 DEF Bound
        <4> QED BY <4>1, <4>2
      <3> QED BY <1>1, <3>1
    <2> HIDE DEF a, b, R
    <2>3. /\ IsFiniteSet(a) /\ IsFiniteSet(b) /\ IsFiniteSet(R)
          /\ Cardinality(a) \in Nat /\ Cardinality(b) \in Nat /\ Cardinality(R) \in Nat
      BY <2>1, PortsFinite, FS_Subset, FS_CardinalityType
    <2>4. ASSUME NEW S, IsFiniteSet(S), NEW T, IsFiniteSet(T)
          PROVE  /\ IsFiniteSet(S \union T)
                 /\ Cardinality(S \union T) \in Nat /\ Cardinality(S) \in Nat /\ Cardinality(T) \in Nat
                 /\ Cardinality(S \union T) <= Cardinality(S) + Cardinality(T)
      <3>1. S \intersect T \in SUBSET S
        OBVIOUS
      <3>2. Cardinality(S \intersect T) \in Nat
        BY <2>4, <3>1, FS_Subset, FS_CardinalityType
      <3>3. Cardinality(S) \in Nat /\ Cardinality(T) \in Nat
        BY <2>4, FS_CardinalityType
      <3>4. /\ IsFiniteSet(S \union T)
            /\ Cardinality(S \union T) =
                  Cardinality(S) + Cardinality(T) - Cardinality(S \intersect T)
        BY <2>4, FS_Union
      <3>5. Cardinality(S \union T) \in Nat
        BY <3>4, FS_CardinalityType
      <3> QED BY <3>2, <3>3, <3>4, <3>5
    <2>5. /\ Cardinality(R \union a \union b) <= Cardinality(R) + 4
          /\ Cardinality(R \union a \union b) \in Nat /\ IsFiniteSet(R \union a \union b)
      <3>1. /\ Cardinality(R \union a) <= Cardinality(R) + Cardinality(a)
            /\ IsFiniteSet(R \union a) /\ Cardinality(R \union a) \in Nat
        BY <2>3, <2>4
      <3>2. /\ Cardinality((R \union a) \union b) <= Cardinality(R \union a) + Cardinality(b)
            /\ IsFiniteSet((R \union a) \union b) /\ Cardinality((R \union a) \union b) \in Nat
        BY <2>3, <2>4, <3>1
      <3> QED BY <2>1, <2>3, <3>1, <3>2
    <2>6. /\ Cardinality(reserved' \ Bound') <= Cardinality(R \union a \union b)
          /\ Cardinality(reserved' \ Bound') \in Nat
      BY <2>2, <2>5, FS_Subset, FS_CardinalityType
    <2>7. Visited' = Visited /\ Needs(Visited) \in Nat
      BY <1>1, VisitedModules, NeedsCount DEF Visited
    <2>8. cmd = "local" => Cardinality(reserved' \ Bound') <= Needs(Visited) + 8
      <3> SUFFICES ASSUME cmd = "local" PROVE Cardinality(reserved' \ Bound') <= Needs(Visited) + 8
        OBVIOUS
      <3>1. Cardinality(R) <= Needs(Visited) + 4
        BY <1>1 DEF R, BudgetOK
      <3> QED BY <2>3, <2>5, <2>6, <2>7, <3>1
    <2> QED BY <1>1, <2>7, <2>8 DEF BudgetOK
  <1>6. ControlOK' /\ PlansMade'
    BY <1>1 DEF ControlOK, PlansMade
  <1> QED BY <1>2, <1>3, <1>4, <1>5, <1>6

\* The new pair is planned with ports of its own.
LEMMA PrepareNetworkStep ==
  ASSUME IInv, PrepareNetwork
  PROVE  IInv'
  <1> USE DEF IInv
  <1>1. /\ pc = "network" /\ cmd \in {"exchange", "local"}
        /\ UNCHANGED <<docker, foreign, cmd, group, todo, target, stolen, bounds>>
    BY DEF PrepareNetwork, ControlOK
  <1>2. CASE /\ Reserve(target, 2, 2, {}) /\ pc' = "start"
             /\ starts' = {ModuleOf(target)} /\ UNCHANGED result
    <2>1. /\ plan' \in [Container -> SUBSET Port] /\ reserved' \subseteq Port
          /\ stolen' \subseteq reserved'
          /\ PortsOK' /\ PlansApart' /\ PlansFree' /\ TwoPorts'
          /\ plan'[ModuleOf(target)] # {}
      <3>1. /\ 2 + Cardinality({}) <= 2 /\ 2 \in Nat /\ 2 <= 2 /\ 2 > 0 /\ target \in Module
            /\ {} \in SUBSET PinnedAt(ModuleOf(target))
        <4>1. target \in Module
          BY DEF TypeOK
        <4> HIDE DEF IInv
        <4> QED BY <4>1, FS_EmptySet
      <3>2. UNCHANGED <<docker, foreign, stolen>> /\ Reserve(target, 2, 2, {})
        BY <1>1, <1>2
      <3> HIDE DEF IInv
      <3> QED BY <3>1, <3>2, ReserveStep
    <2>2. TypeOK'
      BY <1>1, <1>2, <2>1, Pairs DEF TypeOK, docker, bounds
    <2>3. BudgetOK' /\ PlansMade' /\ ControlOK'
      BY <1>1, <1>2, <2>1 DEF BudgetOK, PlansMade, ControlOK
    <2> QED BY <1>1, <1>2, <2>1, <2>2, <2>3
  <1>3. CASE NoFreeTCPPort(4) /\ UNCHANGED <<reserved, plan, starts>>
    <2>1. TypeOK'
      BY <1>1, <1>3 DEF TypeOK, NoFreeTCPPort, Return, docker, bounds
    <2> QED BY <1>1, <1>3, <2>1
       DEF NoFreeTCPPort, Return, docker, ControlOK, PortsOK, PlansApart, PlansFree, PlansMade,
           TwoPorts, BudgetOK
  <1> QED BY <1>2, <1>3 DEF PrepareNetwork

\* A module that has a container keeps it.
LEMMA SkipModuleStep ==
  ASSUME IInv, NEW m \in Backend, SkipModule(m)
  PROVE  IInv'
  <1> USE DEF IInv
  <1>1. TypeOK'
    BY DEF TypeOK, SkipModule, docker, bounds
  <1>2. BudgetOK'
    BY BudgetStays DEF SkipModule, docker
  <1> QED BY <1>1, <1>2
     DEF SkipModule, docker, ControlOK, PortsOK, PlansApart, PlansFree, PlansMade, TwoPorts

\* A container that starts holds ports no other is planned with.
LEMMA DeployModuleStep ==
  ASSUME IInv, NEW c \in Container, DeployModule(c)
  PROVE  IInv'
  <1> USE DEF IInv
  <1>1. /\ pc = "start" /\ c \in starts /\ binding[c] = {} /\ c \notin running
        /\ binding' = [binding EXCEPT ![c] = plan[c]] /\ plan[c] # {}
        /\ UNCHANGED <<foreign, cmd, pc, group, todo, reserved, plan, target, stolen, bounds>>
    BY DEF DeployModule, PlansMade, TypeOK
  <1>2. \A d \in Container : binding'[d] = IF d = c THEN plan[c] ELSE binding[d]
    BY <1>1 DEF TypeOK
  <1>3. PortsOK' /\ PlansApart' /\ TwoPorts'
    BY <1>1, <1>2 DEF PortsOK, PlansApart, TwoPorts
  <1>4. BudgetOK' /\ ControlOK'
    <2>1. Visited' = Visited
      BY <1>1 DEF Visited
    <2> QED BY <1>1, <2>1 DEF BudgetOK, ControlOK
  <1>5. CASE /\ plan[c] \intersect (Held \union foreign) = {}
             /\ running' = running \union {c}
             /\ starts' = (starts \ {c}) \union {s \in {SidecarOf(c[1])} \ {c} : plan[s] # {}}
             /\ UNCHANGED result
    <2>1. SidecarOf(c[1]) \in Container
      BY DEF SidecarOf, Container
    <2>2. TypeOK'
      BY <1>1, <1>2, <1>5, <2>1 DEF TypeOK, bounds
    <2>3. PlansFree'
      BY <1>1, <1>2, <1>5 DEF PlansFree, PlansApart, TypeOK
    <2>4. PlansMade'
      BY <1>1, <1>5 DEF PlansMade
    <2> QED BY <1>1, <1>3, <1>4, <1>5, <2>2, <2>3, <2>4
  <1>6. CASE /\ plan[c] \intersect (Held \union foreign) # {}
             /\ result' = "allocated" /\ starts' = starts \ {c} /\ UNCHANGED running
    <2>1. TypeOK'
      BY <1>1, <1>2, <1>6 DEF TypeOK, bounds
    <2>2. PlansFree'
      BY <1>1, <1>2, <1>6 DEF PlansFree, TypeOK
    <2>3. PlansMade'
      BY <1>1, <1>6 DEF PlansMade
    <2> QED BY <1>1, <1>3, <1>4, <2>1, <2>2, <2>3
  <1> QED BY <1>5, <1>6 DEF DeployModule

\* Deploying the management modules is followed by reading the others.
LEMMA DeployEndsStep ==
  ASSUME IInv, DeployEnds
  PROVE  IInv'
  <1> USE DEF IInv
  <1>1. /\ pc = "start"
        /\ UNCHANGED <<docker, foreign, cmd, reserved, plan, starts, target, stolen, bounds>>
    BY DEF DeployEnds
  <1>2. CASE pc' = "returned" /\ result' \in {"allocated", "ok"} /\ UNCHANGED <<group, todo>>
             /\ (result' = "allocated" => result = "allocated")
    <2>1. TypeOK'
      BY <1>1, <1>2 DEF TypeOK, docker, bounds
    <2> QED BY <1>1, <1>2, <2>1
       DEF docker, ControlOK, PortsOK, PlansApart, PlansFree, PlansMade, TwoPorts, BudgetOK
  <1>3. CASE /\ starts = {} /\ cmd = "deploy" /\ group = "management"
             /\ CallRead("modules") /\ UNCHANGED result
    <2>1. /\ pc' = "read" /\ group' = "modules" /\ todo' = Grouped("modules") /\ result' = result
      BY <1>3 DEF CallRead, Grouped
    <2>2. TypeOK'
      BY <1>1, <2>1 DEF TypeOK, docker, bounds, Grouped
    <2>3. BudgetOK'
      <3>1. Visited \in SUBSET Backend /\ Visited' \in SUBSET Backend /\ Visited \subseteq Visited'
        BY <1>1, <1>3, <2>1 DEF Visited, Grouped
      <3>2. /\ Needs(Visited) \in Nat /\ Needs(Visited') \in Nat
            /\ Needs(Visited) <= Needs(Visited')
        BY <3>1, NeedsCount
      <3>3. Cardinality(reserved) \in Nat
        <4>1. reserved \in SUBSET Port
          BY DEF TypeOK
        <4> QED BY <4>1, PortsFinite, FS_Subset, FS_CardinalityType
      <3> QED BY <1>1, <1>3, <2>1, <3>2, <3>3 DEF BudgetOK
    <2>4. PlansMade' /\ ControlOK'
      BY <1>1, <1>3, <2>1 DEF PlansMade, ControlOK, Deployable, Grouped
    <2> QED BY <1>1, <2>1, <2>2, <2>3, <2>4
       DEF docker, PortsOK, PlansApart, PlansFree, TwoPorts
  <1> QED BY <1>2, <1>3 DEF DeployEnds, Return

\* Every step keeps the invariant.
LEMMA NextStep == IInv /\ [Next]_vars => IInv'
  <1> SUFFICES ASSUME IInv, [Next]_vars PROVE IInv'
    OBVIOUS
  <1>1. CASE Environment
    BY <1>1, EnvironmentStep
  <1>2. CASE Begin
    BY <1>2, BeginStep
  <1>3. CASE Command
    BY <1>3, ReserveUsedHostPortsStep, ReadModuleStep, SkipModuleStep, ReadEndsStep,
       NewLocalBackendModuleStep, UndeployStep, PrepareNetworkStep, DeployModuleStep, DeployEndsStep
       DEF Command
  <1>4. CASE ProcessEnds
    BY <1>4, ProcessEndsStep
  <1>5. CASE UNCHANGED vars
    <2> USE DEF IInv
    <2>1. TypeOK'
      BY <1>5 DEF vars, docker, bounds, TypeOK
    <2>2. BudgetOK'
      BY <1>5, BudgetStays DEF vars, docker
    <2> QED BY <1>5, <2>1, <2>2
       DEF vars, docker, ControlOK, PortsOK, PlansApart, PlansFree, PlansMade, TwoPorts
  <1> QED BY <1>1, <1>2, <1>3, <1>4, <1>5 DEF Next

\* The invariant holds in every state.
THEOREM Invariance == Spec => []IInv
  BY InitHolds, NextStep, PTL DEF Spec

-----------------------------------------------------------------------------
\* Every variable has a value of its kind; a container runs only if it exists,
\* and what was taken was reserved (Action.ReservedPorts, Docker's bindings).
THEOREM TypeCorrect == Spec => []TypeOK
  BY Invariance, PTL DEF IInv

\* A container that cannot start did not run before, and what it is planned with
\* is free but for ports that were taken, or are configured.
LEMMA StepCollides == IInv /\ [Next]_vars => CollidesWithOthers
  <1> SUFFICES ASSUME IInv, [Next]_vars, NEW c \in Container, BindFails(c)
               PROVE  InUse(c) \subseteq stolen \union (Fixed \intersect foreign)
    BY DEF CollidesWithOthers
  <1>1. binding[c] = {} /\ binding'[c] # {} /\ c \notin running'
    BY DEF BindFails
  <1>2. \A d \in running : d \in Container /\ d # c
    BY <1>1 DEF IInv, TypeOK
  <1>3. plan[c] \intersect Held \subseteq stolen
    BY <1>2 DEF IInv, PlansFree, Held
  <1>4. plan[c] \intersect foreign \subseteq stolen \union Fixed
    BY DEF IInv, PlansFree
  <1> QED BY <1>3, <1>4 DEF InUse

\* "port is already allocated" is never the program's own doing: whatever the
\* modules and the order they are read in, every port that keeps a container
\* from starting was taken after its command had reserved it, or is a configured
\* one that another process has (GetPreReservedPort, ReadBackendModules,
\* prepareModuleAndSidecarPairNetwork, module_props.go:205).
THEOREM BindFailsOnlyByOthersHolds == Spec => BindFailsOnlyByOthers
  <1>1. IInv /\ [Next]_vars => [CollidesWithOthers]_vars
    BY StepCollides
  <1> QED BY <1>1, Invariance, PTL DEF Spec, BindFailsOnlyByOthers

-----------------------------------------------------------------------------
\* If fewer than n candidates are left, the range lacks n ports and those that
\* are reserved.
LEMMA FewCandidates ==
  ASSUME IInv, NEW n \in Nat, Cardinality(Candidates) < n, NEW k \in Nat
  PROVE  /\ Cardinality(reserved) <= k
               => Cardinality(PortRange \ (foreign \union Held)) < n + k
         /\ Cardinality(reserved \ Bound) <= k
               => Cardinality(PortRange \ (foreign \union Bound)) < n + k
  <1>1. /\ Candidates \in SUBSET PortRange
        /\ reserved \in SUBSET Port /\ reserved \ Bound \in SUBSET Port
    BY DEF IInv, TypeOK, Candidates
  <1>2. Held \subseteq Bound
    BY DEF IInv, TypeOK, Held, Bound
  <1>3. ASSUME NEW T, NEW R, IsFiniteSet(R), T \subseteq Candidates \union R, Cardinality(R) <= k
        PROVE  Cardinality(T) < n + k
    <2>1. /\ IsFiniteSet(Candidates) /\ Cardinality(Candidates) \in Nat
          /\ Cardinality(R) \in Nat
      BY <1>1, <1>3, PortsFinite, FS_Subset, FS_CardinalityType
    <2>2. /\ IsFiniteSet(Candidates \union R)
          /\ Cardinality(Candidates \union R) =
                Cardinality(Candidates) + Cardinality(R) - Cardinality(Candidates \intersect R)
      BY <1>3, <2>1, FS_Union
    <2>3. Cardinality(Candidates \intersect R) \in Nat
      <3>1. Candidates \intersect R \in SUBSET R
        OBVIOUS
      <3> QED BY <1>3, <3>1, FS_Subset, FS_CardinalityType
    <2>4. /\ Cardinality(T) <= Cardinality(Candidates \union R)
          /\ Cardinality(T) \in Nat /\ Cardinality(Candidates \union R) \in Nat
      <3>1. T \in SUBSET (Candidates \union R)
        BY <1>3
      <3> QED BY <2>2, <3>1, FS_Subset, FS_CardinalityType
    <2> QED BY <1>3, <2>1, <2>2, <2>3, <2>4
  <1>4. IsFiniteSet(reserved) /\ IsFiniteSet(reserved \ Bound)
    BY <1>1, PortsFinite, FS_Subset
  <1>5. PortRange \ (foreign \union Held) \subseteq Candidates \union reserved
    BY DEF Candidates
  <1>6. PortRange \ (foreign \union Bound) \subseteq Candidates \union (reserved \ Bound)
    BY <1>2 DEF Candidates
  <1> QED BY <1>3, <1>4, <1>5, <1>6

\* A step that finds no port finds the range without the ports the command
\* asks for.
LEMMA StepFailsWhenFull == IInv /\ [Next]_vars => (NoPortFound => Full)
  <1> SUFFICES ASSUME IInv, [Next]_vars, NoPortFound PROVE Full
    OBVIOUS
  <1> USE DEF IInv
  <1>1. result = "none" /\ result' = "no free port"
    BY DEF NoPortFound
  <1>2. \/ \E m \in Backend : ReadModule(m)
        \/ NewLocalBackendModule
        \/ PrepareNetwork
    BY <1>1 DEF Next, vars, bounds, Environment, OtherTakes, OtherReleases, ContainerStops,
       ContainerRestarts, Begin, Start, Command, ReserveUsedHostPorts, SkipModule, ReadEnds,
       UndeployModuleAndSidecarPair, DeployModule, DeployEnds, Return, ProcessEnds
  <1>3. /\ Visited \in SUBSET Backend /\ Needs(Visited) \in Nat
        /\ Backend \ Management \in SUBSET Backend
        /\ Needs(Backend) \in Nat /\ Needs(Backend \ Management) \in Nat
    BY VisitedModules, NeedsCount
  <1> DEFINE h == Cardinality(PortRange \ (foreign \union Held))
             b == Cardinality(PortRange \ (foreign \union Bound))
  <1>4. /\ h \in Nat /\ b \in Nat
        /\ cmd = "deploy" /\ h < Needs(Backend) => Full
        /\ cmd = "exchange" /\ h < Needs(Backend \ Management) + 4 => Full
        /\ cmd = "local" /\ b < Needs(Backend \ Management) + 12 => Full
    <2>1. /\ PortRange \ (foreign \union Held) \in SUBSET PortRange
          /\ PortRange \ (foreign \union Bound) \in SUBSET PortRange
      OBVIOUS
    <2>2. h \in Nat /\ b \in Nat
      BY <2>1, PortsFinite, FS_Subset, FS_CardinalityType
    <2>3. cmd = "local" /\ b < Needs(Backend \ Management) + 8 + 4 => Full
      BY DEF Full, Demand
    <2>4. cmd = "deploy" /\ h < Needs(Backend) => Full
      BY DEF Full, Demand
    <2>5. cmd = "exchange" /\ h < Needs(Backend \ Management) + 4 => Full
      BY DEF Full, Demand
    <2> HIDE DEF h, b, IInv
    <2>6. Needs(Backend \ Management) + 8 + 4 = Needs(Backend \ Management) + 12
      BY <1>3
    <2> QED BY <2>2, <2>3, <2>4, <2>5, <2>6
  <1>5. cmd # "deploy" /\ group = "modules" => Needs(Visited) <= Needs(Backend \ Management)
    <2>1. cmd # "deploy" /\ group = "modules" => Visited \subseteq Backend \ Management
      BY DEF Visited, Grouped
    <2> QED BY <1>3, <2>1, NeedsCount
  <1>6. CASE \E m \in Backend : ReadModule(m)
    <2>1. PICK m \in Backend : ReadModule(m)
      BY <1>6
    <2>2. /\ pc = "read" /\ m \in todo
          /\ Cardinality(Candidates) < ModuleNeeds(m) + SidecarNeeds(m)
      BY <1>1, <2>1 DEF ReadModule, NoFreeTCPPort
    <2> DEFINE n == ModuleNeeds(m) + SidecarNeeds(m)
               S == Visited \union {m}
    <2>3. m \in Backend \ Visited
      BY <2>2 DEF Visited
    <2>4. n \in Nat /\ Needs(S) = Needs(Visited) + n /\ Needs(S) \in Nat /\ S \in SUBSET Backend
      <3>1. ModuleNeeds(m) \in Nat /\ SidecarNeeds(m) \in Nat
        BY DEF ModuleNeeds, SidecarNeeds
      <3>2. Needs(S) = Needs(Visited) + ModuleNeeds(m) + SidecarNeeds(m)
        BY <1>3, <2>3, NeedsCount
      <3> QED BY <1>3, <3>1, <3>2
    <2>5. /\ Needs(S) <= Needs(Backend)
          /\ cmd # "deploy" => Needs(S) <= Needs(Backend \ Management)
      <3>1. cmd # "deploy" => S \subseteq Backend \ Management
        BY <2>2 DEF Visited, Grouped, ControlOK
      <3> HIDE DEF S, n
      <3> QED BY <1>3, <2>4, <3>1, NeedsCount
    <2>6. /\ Cardinality(reserved) <= Needs(Visited)
                => h < n + Needs(Visited)
          /\ Cardinality(reserved \ Bound) <= Needs(Visited)
                => b < n + Needs(Visited)
      BY <1>3, <2>2, <2>4, FewCandidates
    <2> HIDE DEF n, S
    <2>7. CASE cmd = "local"
      <3>1. b < n + Needs(Visited)
        BY <2>2, <2>6, <2>7 DEF BudgetOK
      <3> HIDE DEF h, b, IInv
      <3> QED BY <1>3, <1>4, <2>4, <2>5, <2>7, <3>1
    <2>8. CASE cmd # "local"
      <3>1. cmd \in {"deploy", "exchange"}
        BY <2>2, <2>8 DEF TypeOK, ControlOK
      <3>2. h < n + Needs(Visited)
        BY <2>2, <2>6, <3>1 DEF BudgetOK
      <3> HIDE DEF h, b, IInv
      <3> QED BY <1>3, <1>4, <2>4, <2>5, <3>1, <3>2
    <2> QED BY <2>7, <2>8
  <1>7. CASE NewLocalBackendModule
    <2>1. pc = "local" /\ cmd = "local" /\ group = "modules" /\ Cardinality(Candidates) < 4
      BY <1>1, <1>7 DEF NewLocalBackendModule, NoFreeTCPPort, ControlOK
    <2>2. b < 4 + Needs(Visited)
      BY <1>3, <2>1, FewCandidates DEF BudgetOK
    <2> HIDE DEF h, b, IInv
    <2> QED BY <1>3, <1>4, <1>5, <2>1, <2>2
  <1>8. CASE PrepareNetwork
    <2>1. /\ pc = "network" /\ cmd \in {"exchange", "local"} /\ group = "modules"
          /\ Cardinality(Candidates) < 4
      BY <1>1, <1>8 DEF PrepareNetwork, NoFreeTCPPort, ControlOK
    <2>2. CASE cmd = "exchange"
      <3>1. h < 4 + Needs(Visited)
        BY <1>3, <2>1, <2>2, FewCandidates DEF BudgetOK
      <3> HIDE DEF h, b, IInv
      <3> QED BY <1>3, <1>4, <1>5, <2>1, <2>2, <3>1
    <2>3. CASE cmd = "local"
      <3>1. Needs(Visited) + 8 \in Nat /\ Cardinality(reserved \ Bound) <= Needs(Visited) + 8
        BY <1>3, <2>1, <2>3 DEF BudgetOK
      <3>2. b < 4 + (Needs(Visited) + 8)
        BY <2>1, <3>1, FewCandidates
      <3> HIDE DEF h, b, IInv
      <3> QED BY <1>3, <1>4, <1>5, <2>1, <2>3, <3>2
    <2> QED BY <2>1, <2>2, <2>3
  <1> QED BY <1>2, <1>6, <1>7, <1>8

\* "no free TCP port" means what it says: the range lacks, at that moment, the
\* ports of the command's own demand, whatever the number of modules and the
\* order they are read in (GetPreReservedPort, NewBackendModule,
\* NewBackendModuleWithSidecar, reserveUsedHostPorts).
THEOREM FailsOnlyWhenFullHolds == Spec => FailsOnlyWhenFull
  <1>1. IInv /\ [Next]_vars => [NoPortFound => Full]_vars
    BY StepFailsWhenFull
  <1> QED BY <1>1, Invariance, PTL DEF Spec, FailsOnlyWhenFull

=============================================================================
