SPECIFICATION ClientSpec
CONSTANTS
    u1 = u1
    m1 = m1
    r1 = r1
    r2 = r2
    NoAccount = NoAccount
    Users <- MCUsers
    Mints <- MCMints
    TokenAccounts <- MCTokenAccounts
    Runs <- MCRuns
    WalletOf <- MCWalletOf
    USDC = m1
    LOCK_AMOUNT = 1
    LOCK_DURATION = 2
    LOCK_INFO_RENT = 1
    TOKEN_RENT = 1
    InitialLamports = 2
    BLOCKHASH_TTL = 1
    LAST_SEND = 1
    U64Max = 1
    I64Max = 5
    MaxTime = 3
INVARIANT
    LockedUsdcIsHeld
CHECK_DEADLOCK FALSE
