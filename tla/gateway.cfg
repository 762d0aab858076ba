SPECIFICATION FairSpec
CONSTANTS
    Requests = {1, 2}
    KeySets <- MCKeySets
    ConfigURL = FALSE
    Ttl = 1
    Timeout = 1
    Limit = 1
    Window = 2
    Day = 4
    Modes <- MCModes
    Sends <- MCSends
    NoRequest = NoRequest
    TokenOf <- MCTokenOf
    MaxTime = 4
    MaxFaults = 1
INVARIANTS
    TypeOK
    WithinLimit
    KeysAreRecent
PROPERTIES
    EveryRequestIsAnswered
CHECK_DEADLOCK FALSE
