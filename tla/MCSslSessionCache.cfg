SPECIFICATION Spec
CONSTANTS
    Structs = {s1, s2, s3}
    Ids = {i1, i2}
    Threads = {t1, t2}
    Contexts <- MCContexts
    Tickets = 2
    NULL = NULL
    NoId = NoId
SYMMETRY Symmetry
INVARIANTS
    CacheInvariant
    
    CachedAreResumable
    TicketsAreSingleUse
