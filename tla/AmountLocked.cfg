SPECIFICATION Spec
CONSTANTS
    u1 = u1
    u2 = u2
    m1 = m1
    m2 = m2
    NoAccount = NoAccount
    Users <- MCUsers
    Mints <- MCMints
    TokenAccounts <- MCTokenAccounts
    LOCK_DURATION = 2
    LOCK_INFO_RENT = 2
    TOKEN_RENT = 1
    InitialLamports = 3
    U64Max = 1
    I64Max = 5
    MaxTime = 3
PROPERTY
    AmountLockedUntilDeadline
