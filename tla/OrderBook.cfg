\* Two traders of one American series.
CONSTANTS
    Users = {u1, u2}
    Nonces = {1}
    Style = "American"
    Cpc = 2
    FeeBps = 5000
    Expiry = 1
    ExerciseWindow = 0
    GraceWindow = 0
    Prices = {2}
    Quantities = {1, 2}
    Caps = {2, 4}
    Payouts = {2}
    InitialUsdc = 3
    Supply = 2
    Horizon = 1
    Amounts = {1}
    MaxRedirected = 1
SPECIFICATION Spec
INVARIANTS
    BookTypeOK
    EscrowsBackRests
PROPERTIES
    KeepsTheLedger
    SettledBookDrains
CHECK_DEADLOCK FALSE
