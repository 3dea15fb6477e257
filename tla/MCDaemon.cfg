\* Two tunnels of one name; everything may fail, and either lifecycle may be
\* dropped half-way.  Tunnels are not reused, so behaviours are finite.
CONSTANTS
    Tunnels = {t1, t2}
    Requests = {r1}
    Cancellable = {t1, t2}
    FlakyRegistry = TRUE
    Nobody = Nobody
    alpha = alpha
    NoTable = NoTable
    Names <- MCNames
    NameOf <- MCNameOf
SPECIFICATION Safety
SYMMETRY MCSymmetry
CHECK_DEADLOCK FALSE
INVARIANTS
    DaemonInv
    OnlyAuthenticatedIsRegistered
    ServedTunnelIsFound
    DeregisteredOnlyWhenReleased
    CloseReasonMatchesOutcome
    StaleOnlyAfterFault

    
