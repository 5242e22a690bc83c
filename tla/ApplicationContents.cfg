CONSTANTS
    orders = orders
    users = users
    ui = ui
    private = private
    another = another
    Base <- MCBase
    Frontend <- MCFrontend
    Private <- MCPrivate
    Tool <- MCTool
    Published <- MCPublished
    Invocation <- AllCommands
    MaxVersion = 3
    MaxPatch = 3
    MaxFaults = 2
SPECIFICATION Spec
INVARIANTS TypeOK SuccessAgrees RerunSucceeds
PROPERTIES BaseUntouched LocalModulesCoexist
