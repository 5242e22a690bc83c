------------------------ MODULE MCApplicationLifecycle ------------------------
(***************************************************************************)
(* Instance for TLC: two tenants, one of them outside the profile, three   *)
(* patch versions (two runs in a row, the first of which may fail          *)
(* half-way), two module versions, so that a run may also deploy the       *)
(* version it finds or an older one.                                       *)
(***************************************************************************)
EXTENDS ApplicationLifecycle

CONSTANTS t1, t2

MCTenant == {t1, t2}
MCOneConfigured == {t1}
MCModuleVersion == {1, 2}

AllCommands == {"upgradeModule", "runLocalModule", "undeployApplication"}
UpgradeOnly == {"upgradeModule"}

NoFlags == {{}}

\* No flag, one flag, or discovery and entitlement skipped together; never
\* those that entitle tenants to a version whose module the user asked not to
\* register
SafeFlags == {{}, {"application"}, {"entitlement"}, {"discovery", "entitlement"}}

=============================================================================
