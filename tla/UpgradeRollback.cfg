CONSTANTS
    t1 = t1
    t2 = t2
    Tenant <- MCTenant
    Configured <- MCTenant
    MaxVersion = 3
    ModuleVersion <- MCModuleVersion
    Flags <- NoFlags
    Commands <- UpgradeOnly
SPECIFICATION Spec
INVARIANT UpgradeRollback
