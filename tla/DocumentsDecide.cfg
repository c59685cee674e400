\* One document and two citizens over every chain of at most two steps; one
\* party with two people and two ceremonies; two requests that issue to one
\* recipient or send its copy anew.
SPECIFICATION DocumentsSpec
CONSTANTS
    Docs = {"order"}
    Citizens = {ann, bob}
    Nobody = nobody
    Chains <- Twos
    Legacy <- OneTwice
    MaxCeremonies = 2
    MaxEdits = 2
    People = {ann, bob}
    Visitors = {visitor}
    MaxNamed = 2
    MaxPushes = 2
    Recipients = {"lender"}
    Noone = noone
    Runners = {run1, run2}
    MaxCopies = 2
    MaxEditions = 1
INVARIANTS
    TypesOK
    NamedCanSign
    ApprovedIsComplete
    OnlySignersInFile
    SpentIsSigned
    NotStranded
    SignedIsNamed
    OneLiveCopy
    PrintedIsRecorded
PROPERTIES
    RecordStands
SYMMETRY Alike
CHECK_DEADLOCK FALSE
