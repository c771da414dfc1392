\* The premium accumulator against the exact solvency claim.
CONSTANTS
    Writers = {w1, w2}
    Holders = {h1}
    Mints = {m1, m2}
    NoWriter = NoWriter
    Style = "European"
    VaultType = "Epoch"
    OptionType = "Call"
    Strike = 2
    Scale = 6
    FeeBps = 2500
    Expiry = 1
    ExerciseWindow = 1
    GraceWindow = 2
    SettleDelay = 3
    Amounts = {1, 2}
    Quantities = {1, 2}
    Premiums = {3}
    Prices = {1, 3, 9}
    Horizon = 4
    MaxCollateral = 4
    MaxRoundings = 2
SPECIFICATION Spec
SYMMETRY Symmetry
INVARIANTS
    SolventExactly
CHECK_DEADLOCK FALSE
