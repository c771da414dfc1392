\* The triggers of one owner: a fire that skips leaves half a link behind.
CONSTANTS
    TriggerIds = {t1, t2}
    TriggerTerms <- MCTerms
    TriggerStrike = 2
    TriggerFeeBps = 5000
    Spots = {1, 3}
    Pegs <- MCPegs
    Rests <- MCRests
    OwnerUsdc = 4
    OwnerOptions = 2
    MaxPlaced = 2
SPECIFICATION TriggerSpec
INVARIANTS
    LinksAreMutual
CHECK_DEADLOCK FALSE
