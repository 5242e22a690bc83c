SPECIFICATION Spec

CONSTANTS
    search = search
    erm = erm
    combined = combined
    NoChild = NoChild
    Child <- MCChild
    Base = combined
    Additional <- MCAdditional
    Size <- MCSize
    MaxCommands = 3

INVARIANTS
    TypeOK
    SuccessMeansDone
    CleanupRepairs
