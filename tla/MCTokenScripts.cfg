SPECIFICATION FairTokenSpec
CONSTANTS
    u1 = u1
    m1 = m1
    m2 = m2
    m3 = m3
    c1 = c1
    c2 = c2
    k1 = k1
    n1 = n1
    NoAccount = NoAccount
    Users <- MCUsers
    Mints <- MCMints
    TokenAccounts <- MCTokenAccounts
    Runs <- MCRuns
    Together <- MCTogether
    ScriptOf <- MCScriptOf
    Payer <- MCPayer
    Account <- MCAccount
    MINT_RENT = 1
    MINT_AMOUNT = 1
    LOCK_DURATION = 1
    LOCK_INFO_RENT = 1
    TOKEN_RENT = 1
    InitialLamports = 2
    U64Max = 2
    I64Max = 2
    MaxTime = 0
INVARIANTS
    ScriptsInvariant
    PrintedIsTrue
PROPERTIES
    MintToSucceeds
    CheckIsRepeatable
    ScriptsEnd
CHECK_DEADLOCK FALSE
