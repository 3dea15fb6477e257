CONSTANTS
    o1 = o1
    o2 = o2
    r1 = r1
    r2 = r2
    Rids <- MCRids
    Origins <- MCOrigins
    OriginOf <- MCOriginOf
    NoRid = NoRid
    Setups <- MCSetups
SPECIFICATION Spec
CHECK_DEADLOCK FALSE
PROPERTIES
    HeldIsFound
    HeldEntryStays
    AbandonedEntryGoes
    LostEntryIsRestored
