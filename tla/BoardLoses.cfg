\* Two installations above each other; a service request, a late code list, a lost step.
SPECIFICATION LossySpec
CONSTANTS
    Offices = {"ministry", "north"}
    Links <- Mutual
    Service = TRUE
    Careful = {"close", "mirrors", "delegate"}
    Late = {"north"}
    MaxBranches = 1
    MaxRows = 5
    MaxOpen = 1
    MaxFaults = 1
INVARIANTS
    TypeOK
    TakenOnce
    NoOfficeTwice
    MirrorNotAhead
    AnswerTravels
CHECK_DEADLOCK FALSE
