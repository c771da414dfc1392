\* A backer's claim after an early exercise drew on the pot.
CONSTANTS
    Writers = {w1, w2}
    Holders = {h1}
    Mints = {m1}
    Orders = {o1, o2}
    NoWriter = NoWriter
    Style = "American"
    VaultType = "Epoch"
    OptionType = "Call"
    Strike = 2
    Scale = 4
    FeeBps = 2500
    Expiry = 1
    ExerciseWindow = 1
    GraceWindow = 2
    SettleDelay = 2
    Amounts = {1, 2}
    Quantities = {1, 2}
    Premiums = {3}
    Prices = {3, 9}
    Horizon = 3
    MaxCollateral = 2
    MaxRoundings = 1
    MaxAsked = 2
    MaxElsewhere = 1
SPECIFICATION AskSpec
SYMMETRY AskSymmetry
INVARIANTS
    BackersCanClaim
CHECK_DEADLOCK FALSE
