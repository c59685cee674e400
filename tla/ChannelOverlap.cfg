\* Two conversations at once over one envelope each way; ages pass both limits.
SPECIFICATION Spec
CONSTANTS
    Down = {d1}
    Up = {u1}
    Conversations = {w1, w2}
    BatchLimit = 1
    MaxAge = 1
    MaxSkew = 0
    InboxRetention = 1
    MaxPause = 1
    Stamps <- OnTime
    Horizon = 2
    MaxFaults = 1
    SettleMayFail = FALSE
SYMMETRY RoundSymmetry
INVARIANTS
    TypeOK
    SettledIsStored
    AckedIsSettled
PROPERTIES
    StoredOnce
    KeepsPromise
CHECK_DEADLOCK FALSE
