SPECIFICATION FairSpec
CONSTANTS
    None = None
    liq = liq
    arb = arb
    l1 = l1
    l2 = l2
    r1 = r1
    wbtc = wbtc
    usdc = usdc
    Engines <- TwoEngines
    Actions <- OneOfEach
    Accounts <- TwoTokens
    EngineOf <- MCEngineOf
    Cost <- MCCost
    Covers <- MCCovers
    Funds <- OneEach
    Backstop <- MCBackstop
    StoreFails <- OnlyArb
    MaxFaults = 1
INVARIANTS
    NoOverdraft
    SpendIsCounted
    AbandonedMeansUnsent
PROPERTIES
    HoldsDrain
