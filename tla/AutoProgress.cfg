SPECIFICATION FairSpec
CONSTANTS
    None = None
    a = a
    b = b
    s1 = s1
    s2 = s2
    ap = ap
    rv = rv
    Engines <- OneEngine
    Subjects <- WithRevoke
    Kind <- MCKind
    Owner <- OwnedByOne
    Stamps <- MCStamps
    TxIds <- MCTxIds
    SlowClaims = TRUE
    Arbitrage <- Nobody
    MaxTx = 3
    MaxFaults = 1
INVARIANTS
    LiveTxRecorded
PROPERTIES
    InFlightResolves
    GapReissued
    HaltedMeansQuiet
    ImplementsOutbox
