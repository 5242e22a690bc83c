SPECIFICATION Spec

CONSTANTS
    Backend <- MCBackend
    Management <- MCManagement
    Paired <- MCPaired
    Undeployed <- MCUndeployed
    Pinned <- MCPinned
    Local = "mod-local"
    First = 2
    Last = 15
    Outside <- MCOutside
    MaxEvents = 2
    MaxCommands = 2

INVARIANTS
    TypeOK

PROPERTIES
    BindFailsOnlyByOthers
    FailsOnlyWhenFull

CHECK_DEADLOCK FALSE
