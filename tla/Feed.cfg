SPECIFICATION FairSpec
CONSTANTS
    None = None
    p1 = p1
    p2 = p2
    v1 = v1
    v2 = v2
    Proxies <- TwoProxies
    Vaults <- TwoVaults
    Opened <- OneProxy
    Escrowed <- TwoVaults
    MaxShares = 2
    MaxLagBlocks = 1
    HaltAfterMs = 1
    Window = 1
    ChunkSize = 2
    RpcTrail = 1
    MaxHead = 4
    MaxFaults = 1
INVARIANTS
    TypeOK
PROPERTIES
    PositionsAreAnswered
    VaultsAreAnswered
    FairShare
    HaltComes
