SPECIFICATION FairSpec
CONSTANTS
    Client = Client
    Server = Server
    Flights <- MCFlights
    MTU = 4
    FALLBACK_MTU = 3
    BITS = 2
    WINDOW = 1
    ALERT_COUNT = 4
    MTU_ALERTS = 1
    NULL = NULL
INVARIANTS
    HandshakeInvariant
    ReassembledIsWhole
    LastFlightIsKept
PROPERTY
    HandshakeEnds
CHECK_DEADLOCK FALSE
