CONSTANTS
    mgr = mgr
    a = a
    b = b
    A = A
    B = B
    NoModule = NoModule
    Backend <- MCBackend
    Management <- MCManagement
    Application <- MCApplication
    Home <- MCHome
    Unlisted <- MCUnlisted
    MaxRelease = 3
    Target <- MCTarget
SPECIFICATION Spec
INVARIANTS TypeOK FileIsOneRelease FreshDeploymentAgrees InterceptionRouted
