------------------------ MODULE MCEnvironmentDeployment ------------------------
(***************************************************************************)
(* Instance for TLC: three profiles.  A consortium of a central and a      *)
(* member tenant under deployApplication and undeployApplication; two      *)
(* consortia of one tenant each, deployed again and again; a profile       *)
(* without consortia under every command.                                  *)
(***************************************************************************)
EXTENDS EnvironmentDeployment, TLC

CONSTANTS ecs, university, east, west, eastern, western

DeployAndUndeploy == {"deploy", "cleanup", "undeploy"}

OneConsortium ==
    [consortia |-> {"ecs"}, central |-> {ecs}, commands |-> {"deploy", "undeploy"},
     of |-> [t \in {ecs, university} |-> "ecs"]]

TwoConsortia ==
    [consortia |-> {eastern, western}, central |-> {east, west}, commands |-> {"deploy"},
     of |-> [t \in {east, west} |-> IF t = east THEN eastern ELSE western]]

\* Its consortia may be exchanged, with their tenants; no other profile has them.
Symmetry ==
    {f \in Permutations({east, west, eastern, western}) :
        \A t \in {east, west} :
            f[t] \in {east, west} /\ TwoConsortia.of[f[t]] = f[TwoConsortia.of[t]]}

NoConsortium ==
    [consortia |-> {}, central |-> {}, commands |-> DeployAndUndeploy \union SingleSteps,
     of |-> [t \in {ecs} |-> "nop"]]

Profiles == {OneConsortium, TwoConsortia, NoConsortium}
JustNoConsortium == {[NoConsortium EXCEPT !.commands = DeployAndUndeploy]}

=============================================================================
