CONSTANTS
    t1 = t1
    t2 = t2
    Tenant <- MCTenant
    Configured <- MCOneConfigured
    MaxVersion = 3
    ModuleVersion <- MCModuleVersion
    Flags <- SafeFlags
    Commands <- AllCommands
SPECIFICATION Spec
INVARIANTS TypeOK SuccessRepairs EntitledIsRoutable LocalRollback
PROPERTY EntitlementsOnlyGrow
