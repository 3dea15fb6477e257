\* A name taken over, and deregistered by the origin that has lost it.
CONSTANTS
    o1 = o1
    o2 = o2
    r1 = r1
    r2 = r2
    Rids <- MCRids
    Origins <- MCOrigins
    OriginOf <- MCOriginOf
    NoRid = NoRid
    Setups <- MCForeignSetups
SPECIFICATION Spec
CHECK_DEADLOCK FALSE
PROPERTIES
    NameStaysWithHolder
