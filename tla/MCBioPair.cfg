SPECIFICATION Spec
CONSTANTS
    b1 = b1
    b2 = b2
    Bios <- MCBios
    Sizes <- MCSizes
    Bytes = {0, 1}
    MAX_SIZE = 3
    MAX_NUM = 2
    DEFAULT_SIZE = 1
    NoPeer = NoPeer
    NoBuf = NoBuf
INVARIANTS
    StructInvariant
    TwoNwritesSuffice
PROPERTIES
    ImplementsPipe
CHECK_DEADLOCK FALSE
