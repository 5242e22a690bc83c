CONSTANTS
    s1 = s1
    s2 = s2
    s3 = s3
    r1 = r1
    r2 = r2
    NoRole = NoRole
    CapSet <- MCCapSet
    Role <- MCRole
    BatchSize = 2
    PollMax = 3
    RebalanceMax = 2
SPECIFICATION AttachFairSpec
INVARIANTS AttachTypeOK DrainedMeansAttached
PROPERTY AttachEnds
