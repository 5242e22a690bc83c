CONSTANTS
    ecs = ecs
    university = university
    east = east
    west = west
    eastern = eastern
    western = western
    Nop = "nop"
    NoTenant = NoTenant
    Setting <- Profiles
SPECIFICATION Spec
INVARIANTS
    TypeOK
    SuccessMeansReady
    UsersGetTheirRole
    CentralFirst
PROPERTY DataSurvives
SYMMETRY Symmetry
