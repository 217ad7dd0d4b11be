SPECIFICATION Spec
CONSTANTS
    None = None
    a = a
    b = b
    s1 = s1
    s2 = s2
    ap = ap
    rv = rv
    Engines <- TwoEngines
    Subjects <- WithApproval
    Kind <- MCKind
    Owner <- OwnedByTwo
    Stamps <- MCStamps
    TxIds <- MCTxIds
    SlowClaims = FALSE
    Arbitrage <- OnlyA
    MaxTx = 2
    MaxFaults = 0
INVARIANTS
    NoNonceReuse
    VouchedVerdicts
PROPERTIES
    SenderOwnsRow
    HashWrittenOnce
