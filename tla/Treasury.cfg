SPECIFICATION FairSpec
CONSTANTS
    None = None
    v1 = v1
    v2 = v2
    Vaults <- TwoVaults
    Funds = 2
    MaxPrice = 2
    SlippageBps = 0
    Life = 1
    Margin = 0
    ScanMargin = 0
    Depth = 1
    MaxHeight = 4
    MaxTx = 2
    MaxBatches = 2
INVARIANTS
    CoveredUnlessOverlooked
PROPERTIES
    ReSigningHoldsOnce
    MoneyReturns
CHECK_DEADLOCK FALSE
