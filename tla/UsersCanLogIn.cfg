CONSTANTS
    ecs = ecs
    university = university
    east = east
    west = west
    eastern = eastern
    western = western
    Nop = "nop"
    NoTenant = NoTenant
    Setting <- JustNoConsortium
SPECIFICATION Spec
INVARIANT UsersCanLogIn
