\* Streams are attached while the run is awake, as the CLI does.
CONSTANTS
    Incoming = {i1, i2}
    Attached = {a1, a2}
    Keys = {k1, k2}
    LateAttach = FALSE
    FirstId = 7
    NoConn = NoConn
SPECIFICATION SourcesSpec
CHECK_DEADLOCK FALSE
INVARIANTS
    UniqueTunnels
PROPERTIES
    SourcesAreServed
