\* Two callers of close and a stream in each direction, or one caller of close,
\* two reports of the authenticated name and two listeners for it.
CONSTANTS
    c1 = c1
    c2 = c2
    o1 = o1
    a1 = a1
    r1 = r1
    r2 = r2
    l1 = l1
    l2 = l2
    Closers = {c1, c2}
    Openers = {o1}
    Arrivals = {a1}
    Reporters = {r1, r2}
    Listeners = {l1, l2}
    Parties <- MCParties
    Failures <- MCFailures
SPECIFICATION Spec
CHECK_DEADLOCK FALSE
INVARIANTS
    NoticeHasReason
    StreamsAreCounted
    OneCloserSucceeds
    OneAuthentication
PROPERTIES
    LostTunnelCloses
    DroppedTunnelCloses
    ListenersAreTold
