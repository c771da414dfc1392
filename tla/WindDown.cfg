\* The wind-down of a vault under the cranks; no symmetry, liveness is checked.
CONSTANTS
    Writers = {w1, w2}
    Holders = {h1}
    Mints = {m1}
    NoWriter = NoWriter
    Style = "European"
    VaultType = "Epoch"
    OptionType = "Call"
    Strike = 2
    Scale = 6
    FeeBps = 2500
    Expiry = 1
    ExerciseWindow = 1
    GraceWindow = 2
    SettleDelay = 3
    Amounts = {2}
    Quantities = {1, 2}
    Premiums = {3}
    Prices = {1, 3}
    Horizon = 5
    MaxCollateral = 4
    MaxRoundings = 2
SPECIFICATION FairSpec
PROPERTIES
    EventuallyResolved
    VoidedWritersGetOut
    SettledVaultCloses
CHECK_DEADLOCK FALSE
