\* HandlePush's settling UPDATE may fail.
SPECIFICATION Spec
CONSTANTS
    Down = {d1}
    Up = {u1}
    Conversations = {w1}
    BatchLimit = 1
    MaxAge = 1
    MaxSkew = 0
    InboxRetention = 2
    MaxPause = 1
    Stamps <- OnTime
    Horizon = 1
    MaxFaults = 0
    SettleMayFail = TRUE
INVARIANT AckedIsSettled
CHECK_DEADLOCK FALSE
