\* One party that answers before the send has ended.
SPECIFICATION AloneSpec
CONSTANTS
    Parties = {buyer}
    Required = {buyer}
    Before <- AnyOrder
    Signatories <- OneEach
    Nobody = nobody
    Senders = {"send"}
    Stale = {}
    MaxFreezes = 1
    MaxCeremonies = 1
    MaxHandlers = 1
INVARIANTS
    SignedIsExecuted
CHECK_DEADLOCK FALSE
