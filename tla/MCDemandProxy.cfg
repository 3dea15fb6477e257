CONSTANTS
    t1 = t1
    t2 = t2
    any4 = any4
    any6 = any6
    NoTask = NoTask
    NoPort = NoPort
    Tasks <- MCTasks
    Ranges <- MCRanges
    Addresses = {any4, any6}
    BindLists <- MCBindLists
    Unspecified <- MCUnspecified
    MaxConns = 1
SPECIFICATION Spec
INVARIANTS
    NothingLeaks
    ServingPortIsHeld
    GrantsDoNotCollide
PROPERTIES
    PoolSpec
    ClosedClientFreesPort
CHECK_DEADLOCK FALSE
