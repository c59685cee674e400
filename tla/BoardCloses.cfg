\* As BoardTravels, and the sender of a branch may close it when it has read the outcome.
SPECIFICATION FairSpec
CONSTANTS
    Offices = {"ministry", "north", "south"}
    Links <- Fan
    Service = FALSE
    Careful = {"mirrors", "delegate"}
    Late = {}
    MaxBranches = 2
    MaxRows = 5
    MaxOpen = 1
    MaxFaults = 0
PROPERTIES
    DelegatedCompletes
CHECK_DEADLOCK FALSE
