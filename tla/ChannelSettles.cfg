\* Each envelope is in time and stays so (Horizon is MaxAge), or is too old already.
SPECIFICATION FairSpec
CONSTANTS
    Down = {d1, d2}
    Up = {u1}
    Conversations = {w1}
    BatchLimit = 2
    MaxAge = 1
    MaxSkew = 0
    InboxRetention = 2
    MaxPause = 1
    Stamps <- OnTimeOrStale
    Horizon = 1
    MaxFaults = 1
    SettleMayFail = FALSE
PROPERTIES
    EverythingSettles
    HeldSettles
CHECK_DEADLOCK FALSE
