SPECIFICATION Spec

CONSTANTS
    Management <- MCManagement
    Backend <- MCBackend
    Route <- MCRoute
    Expression <- MCExpression
    Expected <- MCExpected
    ModulePings = 2
    RoutePolls = 2
    RetryMax = 1
    PageSize = 2

INVARIANTS
    TypeOK
    SuccessMeansWasReady
    ListingComplete
    RoutesReady

PROPERTIES
    ReadinessEnds
