\* Streams are attached while the run sleeps, too.
CONSTANTS
    Incoming = {}
    Attached = {a1, a2}
    Keys = {k1, k2}
    LateAttach = TRUE
    FirstId = 7
    NoConn = NoConn
SPECIFICATION SourcesSpec
CHECK_DEADLOCK FALSE
PROPERTIES
    SourcesAreServed
