\* As BoardTravels, one branch: news of equal rank in either order.
SPECIFICATION Spec
CONSTANTS
    Offices = {"ministry", "north"}
    Links <- Mutual
    Service = FALSE
    Careful = {"close", "mirrors", "delegate"}
    Late = {}
    MaxBranches = 1
    MaxRows = 4
    MaxOpen = 2
    MaxFaults = 0
INVARIANTS
    UpdatesSettle
CHECK_DEADLOCK FALSE
