\* Keeper, settlement crank and event tape; no symmetry, liveness is checked.
CONSTANTS
    TriggerIds = {t1, t2}
    TriggerTerms <- MCTerms
    TriggerStrike = 2
    TriggerFeeBps = 5000
    Spots = {1, 3}
    Pegs <- MCPegs
    Rests <- MCRests
    OwnerUsdc = 2
    OwnerOptions = 0
    MaxPlaced = 2
    FireMarginBps = 5000
    MaxFlight = 1
    LookupTable = TRUE
    Vaults = {0, 1, 2}
    Dues <- MCDues
    Collateral <- MCCollateral
    StuckVaults = {0}
    OffCurve = {1}
    MaxPerTick = 2
    MaxRestarts = 1
    PageSize = 2
    BatchSize = 1
    Floor = 2
    MaxChain = 3
    MaxCrashes = 1
SPECIFICATION OffchainSpec
INVARIANTS
    OffchainTypeOK
    FinishedOwesNothing
PROPERTIES
    ArmedBuysFire
    EverybodyPaid
    CursorLeavesNothingBehind
    TapeCatchesUp
CHECK_DEADLOCK FALSE
