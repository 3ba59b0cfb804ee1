CONSTANTS
    LEVELS = 3
    Sizes <- MCSizes
    MAX_PLAIN = 1
SPECIFICATION Spec
INVARIANTS
    HeapInvariant
    EveryFitIsFound
PROPERTY AllocatedIsZero
