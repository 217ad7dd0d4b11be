SPECIFICATION Spec
CONSTANTS
    None = None
    liq = liq
    arb = arb
    l1 = l1
    l2 = l2
    r1 = r1
    wbtc = wbtc
    usdc = usdc
    Engines <- TwoEngines
    Actions <- ThreeActions
    Accounts <- OneToken
    EngineOf <- MCEngineOf
    Cost <- MCCost
    Covers <- MCCovers
    Funds <- TwoAndOne
    Backstop <- MCBackstop
    StoreFails <- Both
    MaxFaults = 0
INVARIANTS
    AbandonedMeansUnsent
