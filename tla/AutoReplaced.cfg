SPECIFICATION Spec
CONSTANTS
    None = None
    a = a
    b = b
    s1 = s1
    s2 = s2
    ap = ap
    rv = rv
    Engines <- TwoEngines
    Subjects <- TwoActions
    Kind <- MCKind
    Owner <- OwnedByTwo
    Stamps <- MCStamps
    TxIds <- MCTxIds
    SlowClaims = FALSE
    Arbitrage <- OnlyB
    MaxTx = 2
    MaxFaults = 0
INVARIANTS
    VerdictsMatchChain
