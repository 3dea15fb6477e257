\* A lifecycle future dropped half-way.
CONSTANTS
    Tunnels = {t1}
    Requests = {r1}
    Cancellable = {t1}
    FlakyRegistry = FALSE
    Nobody = Nobody
    alpha = alpha
    NoTable = NoTable
    Names <- MCNames
    NameOf <- MCNameOf
SPECIFICATION Safety
CHECK_DEADLOCK FALSE
INVARIANTS
    NoStaleRegistration
