\* A ministry sends work to one or both of two agencies, at once or one after the other.
SPECIFICATION TravelSpec
CONSTANTS
    Offices = {"ministry", "north", "south"}
    Links <- Fan
    Service = FALSE
    Careful = {"close", "mirrors", "delegate"}
    Late = {}
    MaxBranches = 2
    MaxRows = 5
    MaxOpen = 2
    MaxFaults = 0
INVARIANTS
    MirrorCatchesUp
    RolledUpIsDone
PROPERTIES
    DelegatedCompletes
CHECK_DEADLOCK FALSE
