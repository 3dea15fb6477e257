\* Two tunnels of one name, one registered after the other.
CONSTANTS
    Tunnels = {t1, t2}
    Requests = {}
    Cancellable = {}
    FlakyRegistry = FALSE
    Nobody = Nobody
    alpha = alpha
    NoTable = NoTable
    Names <- MCNames
    NameOf <- MCNameOf
SPECIFICATION Spec
CHECK_DEADLOCK FALSE
PROPERTIES
    ClearsOwnAssociation
