SPECIFICATION FairSpec
CONSTANTS
    None = None
    a1 = a1
    e1 = e1
    e2 = e2
    Engines <- TwoEngines
    Subjects <- OnlyApproval
    Approvals <- OnlyApproval
    Window = 1
    Ceiling = 2
    Margin = 1
    Depth = 1
    Lifetimes <- Matching
    MaxTx = 2
    MaxCrashes = 1
INVARIANTS
    OneLivePerNonce
    AbandonedIsNowhere
PROPERTIES
    DroppedNeverLands
    HorizonFrees
    HorizonIsRecovered
    ImplementsOutbox
CHECK_DEADLOCK FALSE
