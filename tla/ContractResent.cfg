\* One party; the contract is sent again while the party holds the phone.
SPECIFICATION AloneSpec
CONSTANTS
    Parties = {buyer}
    Required = {buyer}
    Before <- AnyOrder
    Signatories <- OneEach
    Nobody = nobody
    Senders = {"send"}
    Stale = {}
    MaxFreezes = 2
    MaxCeremonies = 1
    MaxHandlers = 1
INVARIANTS
    SignedWhatWasShown
CHECK_DEADLOCK FALSE
