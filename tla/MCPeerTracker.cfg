\* Every tunnel ends cleared, so behaviours are finite.
CONSTANTS
    t1 = t1
    t2 = t2
    t3 = t3
    t4 = t4
    alpha = alpha
    beta = beta
    NoTable = NoTable
    Tunnels <- MCTunnels
    Names <- MCNames
    NameOf <- MCNameOf
SPECIFICATION TrackerFairSpec
CHECK_DEADLOCK FALSE
INVARIANTS
    FoundByName
    TrackerInv
PROPERTIES
    DirectorySpec
    ClearingEnds
    EmptySubtableGoes
