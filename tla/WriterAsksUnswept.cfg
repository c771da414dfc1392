\* A writer's ask that nobody fills or cancels: does the crank return it?
CONSTANTS
    Users = {u1, u2}
    Nonces = {1}
    Style = "American"
    Cpc = 2
    FeeBps = 5000
    Expiry = 1
    ExerciseWindow = 1
    GraceWindow = 1
    Prices = {3}
    Quantities = {1}
    Caps = {3}
    Payouts = {0, 2}
    InitialUsdc = 3
    Supply = 1
    Horizon = 2
    Amounts = {1}
    MaxRedirected = 0
SPECIFICATION Spec
PROPERTIES
    EveryOrderSwept
CHECK_DEADLOCK FALSE
