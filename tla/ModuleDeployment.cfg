CONSTANTS
    mgr = mgr
    a = a
    b = b
    x = x
    Module <- MCModule
    Management <- MCManagement
    Deployable <- MCDeployable
    Sidecar <- MCSidecar
    Registry <- MCRegistry
    ErrChCap = 1
SPECIFICATION FairSpec
INVARIANTS TypeOK NoFailureLost SuccessMeansRunning NoSendAfterClose
PROPERTIES SkippedPairUntouched KeepsPromise DeployEnds
