\* Two trigger orders, the volatility oracle, and the bot on two series.
CONSTANTS
    TriggerIds = {t1, t2}
    TriggerTerms <- MCTerms
    TriggerStrike = 2
    TriggerFeeBps = 5000
    Spots = {1, 3}
    Pegs <- MCPegs
    Rests <- MCRests
    OwnerUsdc = 4
    OwnerOptions = 1
    MaxPlaced = 2
    RingSize = 3
    Warmup = 2
    MinInterval = 2
    MaxGap = 3
    Staleness = 3
    LogSpots = {1, 2}
    NoSpot = NoSpot
    SeedVols = {0, 1}
    Cells = {k1, k2}
    Marks = {40, 41, 52}
    AskSpread = 40
    CrossGuard = 20
    DriftLimit = 30
    Epsilon = 10
    AskQty = 1
    BidQty = 1
    MaxBidNotional = 80000
    FailLimit = 2
    FullBoard = TRUE
    MaxPosts = 2
    MaxStrays = 1
SPECIFICATION MarketSpec
SYMMETRY MarketSymmetry
INVARIANTS
    MarketTypeOK
    EscrowCoversCeiling
    SumsMatchRing
    SamplesOnCadence
    NoCrossAfterCleanTick
    BidExposureCapped
PROPERTIES
    OcoMovesBothLegs
    OwnersTermsHold
CHECK_DEADLOCK FALSE
