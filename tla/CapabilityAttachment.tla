------------------------- MODULE CapabilityAttachment -------------------------
(***************************************************************************)
(* AttachCapabilitySets for one tenant.  Entitling an application publishes*)
(* its capability sets to Kafka; a consumer group in mod-roles-keycloak    *)
(* turns the messages into capability sets; the command polls the lag of   *)
(* that group until nothing is left to consume, then attaches what exists  *)
(* to the configured roles, in batches.  A file with the number of sets    *)
(* seen last lets a later run skip the polling.                            *)
(***************************************************************************)
EXTENDS Naturals, FiniteSets

CONSTANTS
    CapSet,         \* capability sets
    Role,           \* roles configured for the tenant with "all" sets
    NoRole,         \* no role
    BatchSize,      \* 250 in the code
    PollMax,        \* ConsumerGroupPollMaxRetries
    RebalanceMax    \* ConsumerGroupRebalanceRetries

ASSUME CapabilityAssumption ==
    /\ IsFiniteSet(CapSet)
    /\ IsFiniteSet(Role)
    /\ NoRole \notin Role
    /\ BatchSize \in Nat \ {0}
    /\ PollMax \in Nat \ {0}
    /\ RebalanceMax \in Nat \ {0}

VARIABLES
    published,    \* capability sets of the entitled applications
    existing,     \* those the consumer group has created
    group,        \* whether the group can tell its lag
    attached,     \* per role, the capability sets it has
    record,       \* the persisted total, 0 when there is no file
    step,           \* control point of the command
    polls,        \* pollRetryCount
    rebalances,   \* rebalanceRetryCount
    roles,        \* roles the loop has yet to visit
    role,         \* the role it is at
    delta,        \* capability sets it has yet to attach to that role
    known,        \* the lag reported last (history)
    drained,      \* what was published when a lag of 0 was reported (history)
    outcome        \* how the command ended

keycloak == <<published, existing, group, attached>>
history == <<known, drained>>
attachVars == <<published, existing, group, attached, record, step, polls, rebalances,
          roles, role, delta, known, drained, outcome>>

-----------------------------------------------------------------------------
Lag == Cardinality(published \ existing)

AttachInit ==
    /\ published = {}
    /\ existing = {}
    /\ group = "stable"
    /\ attached = [r \in Role |-> {}]
    /\ record = 0
    /\ step = "idle"
    /\ polls = 0
    /\ rebalances = 0
    /\ roles = {}
    /\ role = NoRole
    /\ delta = {}
    /\ known = 0
    /\ drained = {}
    /\ outcome = "none"

AttachReturn(r) == step' = "returned" /\ outcome' = r

-----------------------------------------------------------------------------
(***************************************************************************)
(* Outside the program                                                     *)
(***************************************************************************)
\* A tenant is entitled to an application, between two commands
Publish(s) ==
    /\ step = "idle"
    /\ s \notin published
    /\ published' = published \union {s}
    /\ UNCHANGED <<existing, group, attached, record, step, polls, rebalances, roles,
                   role, delta, history, outcome>>

\* An entitlement is removed, and its capability sets with it
Retract(s) ==
    /\ step = "idle"
    /\ s \in published
    /\ published' = published \ {s}
    /\ existing' = existing \ {s}
    /\ attached' = [r \in Role |-> attached[r] \ {s}]
    /\ UNCHANGED <<group, record, step, polls, rebalances, roles, role, delta,
                   history, outcome>>

Consume(s) ==
    /\ group = "stable"
    /\ s \in published \ existing
    /\ existing' = existing \union {s}
    /\ UNCHANGED <<published, group, attached, record, step, polls, rebalances,
                   roles, role, delta, history, outcome>>

\* The group loses a member or settles again
Rebalance ==
    /\ group' = IF group = "stable" THEN "rebalancing" ELSE "stable"
    /\ UNCHANGED <<published, existing, attached, record, step, polls, rebalances,
                   roles, role, delta, history, outcome>>

-----------------------------------------------------------------------------
(***************************************************************************)
(* AttachCapabilitySets                                                    *)
(***************************************************************************)
\* The tokens may fail; forceRefresh removes the file, or warns.
Begin ==
    /\ step = "idle"
    /\ record' \in {record, 0}
    /\ \/ step' = "record" /\ outcome' = "none"
       \/ AttachReturn("error")
    /\ polls' = 0
    /\ rebalances' = 0
    /\ roles' = Role
    /\ role' = NoRole
    /\ delta' = {}
    /\ known' = 0
    /\ drained' = {}
    /\ UNCHANGED keycloak

\* The poll is skipped when as many sets exist as the file recorded
ReadRecord ==
    /\ step = "record"
    /\ \/ step' = "poll"
       \/ /\ record > 0
          /\ Cardinality(existing) = record
          /\ step' = "attach"
    /\ UNCHANGED <<keycloak, record, polls, rebalances, roles, role, delta, history, outcome>>

-----------------------------------------------------------------------------
(***************************************************************************)
(* PollConsumerGroup and getConsumerGroupLag                               *)
(***************************************************************************)
ReportsLag ==
    /\ step = "poll"
    /\ polls < PollMax
    /\ group = "stable"
    /\ Lag > 0
    /\ known' = Lag
    /\ rebalances' = 0
    /\ polls' = polls + 1
    /\ UNCHANGED <<keycloak, record, step, roles, role, delta, drained, outcome>>

ReportsNoLag ==
    /\ step = "poll"
    /\ polls < PollMax
    /\ group = "stable"
    /\ Lag = 0
    /\ known' = 0
    /\ drained' = published
    /\ rebalances' = 0
    /\ step' = "attach"
    /\ UNCHANGED <<keycloak, record, polls, roles, role, delta, outcome>>

\* "has no active members", "is rebalancing", a TimeoutException or a number
\* that does not parse: getConsumerGroupLag returns initialLag.  The loop
\* declares its lag anew in every round, so initialLag is always 0 and the
\* group passes for drained.
ReportsNothing ==
    /\ step = "poll"
    /\ polls < PollMax
    /\ rebalances' = 0
    /\ step' = "attach"
    /\ UNCHANGED <<keycloak, record, polls, roles, role, delta, history, outcome>>

\* Fault: the failing rounds are counted, and no more
PollFailsUnlimited ==
    /\ step = "poll"
    /\ polls < PollMax
    /\ rebalances' = rebalances + 1
    /\ polls' = polls + 1
    /\ UNCHANGED <<keycloak, record, step, roles, role, delta, history, outcome>>

\* Fault: when the retries are exhausted the polling starts over
PollFailsRestarts ==
    /\ step = "poll"
    /\ polls < PollMax
    /\ rebalances' = (rebalances + 1) % RebalanceMax
    /\ polls' = IF rebalances' = 0 THEN 0 ELSE polls + 1
    /\ UNCHANGED <<keycloak, record, step, roles, role, delta, history, outcome>>

\* The command in the container fails, or prints another error
PollFails ==
    /\ step = "poll"
    /\ polls < PollMax
    /\ rebalances' = rebalances + 1
    /\ \/ /\ rebalances' >= RebalanceMax
          /\ AttachReturn("error")
          /\ UNCHANGED polls
       \/ /\ rebalances' < RebalanceMax
          /\ polls' = polls + 1
          /\ UNCHANGED <<step, outcome>>
    /\ UNCHANGED <<keycloak, record, roles, role, delta, history>>

PollTimeout ==
    /\ step = "poll"
    /\ polls = PollMax
    /\ AttachReturn("error")
    /\ UNCHANGED <<keycloak, record, polls, rebalances, roles, role, delta, history>>

-----------------------------------------------------------------------------
(***************************************************************************)
(* AttachCapabilitySetsToRoles                                             *)
(***************************************************************************)
\* Fault: a role that has some capability sets is taken for complete
PickRoleAllOrNothing(r) ==
    /\ step = "attach"
    /\ r \in roles
    /\ roles' = roles \ {r}
    /\ role' = r
    /\ delta' = IF attached[r] = {} THEN existing ELSE {}
    /\ step' = "batch"
    /\ UNCHANGED <<keycloak, record, polls, rebalances, history, outcome>>

\* populateCapabilitySets less getRoleCapabilitySetIDs
PickRole(r) ==
    /\ step = "attach"
    /\ r \in roles
    /\ \/ /\ roles' = roles \ {r}
          /\ role' = r
          /\ delta' = existing \ attached[r]
          /\ step' = "batch"
          /\ UNCHANGED outcome
       \/ AttachReturn("error") /\ UNCHANGED <<roles, role, delta>>
    /\ UNCHANGED <<keycloak, record, polls, rebalances, history>>

Batches == {b \in SUBSET delta :
               Cardinality(b) = IF Cardinality(delta) < BatchSize
                                THEN Cardinality(delta) ELSE BatchSize}

\* A repeated POST attaches nothing twice; one that failed may have arrived.
AttachBatch ==
    /\ step = "batch"
    /\ delta # {}
    /\ \E b \in Batches :
          \/ /\ attached' = [attached EXCEPT ![role] = @ \union b]
             /\ \/ delta' = delta \ b /\ UNCHANGED <<step, outcome>>
                \/ AttachReturn("error") /\ UNCHANGED delta
          \/ AttachReturn("error") /\ UNCHANGED <<attached, delta>>
    /\ UNCHANGED <<published, existing, group, record, polls, rebalances, roles,
                   role, history>>

RoleDone ==
    /\ step = "batch"
    /\ delta = {}
    /\ step' = "attach"
    /\ role' = NoRole
    /\ UNCHANGED <<keycloak, record, polls, rebalances, roles, delta, history, outcome>>

\* The total that is persisted is counted anew; failing to is a warning.
PersistCount ==
    /\ step = "attach"
    /\ roles = {}
    /\ record' \in {Cardinality(existing), record}
    /\ AttachReturn("ok")
    /\ UNCHANGED <<keycloak, polls, rebalances, roles, role, delta, history>>

-----------------------------------------------------------------------------
\* DetachCapabilitySetsFromRoles: the first failing DELETE ends the loop, and
\* is a warning.
Detach ==
    /\ step = "idle"
    /\ \E done \in SUBSET Role :
          attached' = [r \in Role |-> IF r \in done THEN {} ELSE attached[r]]
    /\ UNCHANGED <<published, existing, group, record, step, polls, rebalances,
                   roles, role, delta, history, outcome>>

\* The command has returned, or is killed.
ProcessEnds ==
    /\ step # "idle"
    /\ step' = "idle"
    /\ polls' = 0
    /\ rebalances' = 0
    /\ roles' = {}
    /\ role' = NoRole
    /\ delta' = {}
    /\ known' = 0
    /\ drained' = {}
    /\ outcome' = "none"
    /\ UNCHANGED <<keycloak, record>>

-----------------------------------------------------------------------------
Environment ==
    \/ \E s \in CapSet : Publish(s) \/ Retract(s) \/ Consume(s)
    \/ Rebalance

Poll == ReportsLag \/ ReportsNoLag \/ ReportsNothing \/ PollFails \/ PollTimeout

AttachCapabilitySets ==
    \/ ReadRecord
    \/ Poll
    \/ \E r \in Role : PickRole(r)
    \/ AttachBatch
    \/ RoleDone
    \/ PersistCount

AttachNext == Environment \/ Begin \/ AttachCapabilitySets \/ Detach \/ ProcessEnds

AttachSpec == AttachInit /\ [][AttachNext]_attachVars

\* Every request of the command ends, by its timeout at the latest; nothing is
\* assumed of the consumer group.
AttachFairSpec == AttachSpec /\ WF_attachVars(AttachCapabilitySets)

-----------------------------------------------------------------------------
(***************************************************************************)
(* Properties                                                              *)
(***************************************************************************)
\* Every variable stays in its domain; only published sets exist, only
\* existing ones are attached.
AttachTypeOK ==
    /\ published \subseteq CapSet
    /\ existing \subseteq published
    /\ group \in {"stable", "rebalancing"}
    /\ attached \in [Role -> SUBSET existing]
    /\ record \in 0 .. Cardinality(CapSet)
    /\ step \in {"idle", "record", "poll", "attach", "batch", "returned"}
    /\ polls \in 0 .. PollMax
    /\ rebalances \in 0 .. RebalanceMax
    /\ roles \subseteq Role
    /\ role \in Role \union {NoRole}
    /\ step = "batch" => role \in Role
    /\ delta \subseteq existing
    /\ known \in 0 .. Cardinality(CapSet)
    /\ drained \subseteq existing
    /\ outcome \in {"none", "ok", "error"}

\* A run that saw the consumer group drained and succeeds has attached every
\* capability set published until then to every configured role, whatever
\* earlier runs attached before they failed or were killed.
DrainedMeansAttached ==
    step = "returned" /\ outcome = "ok" =>
        \A r \in Role : drained \subseteq attached[r]

\* The command ends, however long the consumer group lags or rebalances.
AttachEnds == step \notin {"idle", "returned"} ~> step \in {"idle", "returned"}

\* A group that is rebalancing, has no active members or timed out keeps the
\* lag it had (kafkasvc/kafka_svc_test.go:207-276 expects initialLag back): the
\* poll does not go on to attach while the lag reported last is positive.
LagSurvivesRebalance == step \in {"attach", "batch"} => known = 0

=============================================================================
