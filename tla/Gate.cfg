SPECIFICATION GateFairSpec
CONSTANTS
    s1 = s1
    s2 = s2
    c1 = c1
    c2 = c2
    p1 = p1
    p2 = p2
    Slots <- TwoSlots
    Pinned <- TwoContracts
    Passes <- TwoPasses
    MaxInFlight = 1
    MaxFailures = 2
    MaxTrouble = 2
INVARIANTS
    CaughtStaysHalted
    ExposureBounded
    NeverVerifiedNeverTrades
    BreakerTrips
PROPERTIES
    CodeHaltClears
