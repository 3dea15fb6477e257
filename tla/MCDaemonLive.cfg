\* One tunnel with two requests in flight; the registry may fail.
CONSTANTS
    Tunnels = {t1}
    Requests = {r1, r2}
    Cancellable = {}
    FlakyRegistry = TRUE
    Nobody = Nobody
    alpha = alpha
    NoTable = NoTable
    Names <- MCNames
    NameOf <- MCNameOf
SPECIFICATION Spec
CHECK_DEADLOCK FALSE
PROPERTIES
    LostTunnelIsForgotten
    ClosedWhileRegistering
    ShutdownDrains
    EndedTunnelIsClosed
