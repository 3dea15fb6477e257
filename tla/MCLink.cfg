SPECIFICATION LinkSpec
CONSTANTS
    Words <- MCWords
    PortWords <- MCPortWords
    IPv4 <- MCIPv4
    IPv6 <- MCIPv6
    Loopback <- MCLoopback
    Resolver <- MCResolver
    Setups <- MCSetups
    MaxLength = 12
INVARIANTS
    AuthenticationComesFirst
    AddressArrives
    SidesAgree
    PayloadIntact
    ConnectsWithinTarget
PROPERTIES
    Settles
CHECK_DEADLOCK FALSE
