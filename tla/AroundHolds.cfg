SPECIFICATION AroundSpec
CONSTANTS
    Invitations = {y1, y2}
    Joins = {j1, j2}
    Unheld = unheld
    Codes = {"local.x", "D-101"}
    Local = {"local.x"}
    Links = {y1, y2}
    NoLink = nolink
    MaxVersion = 2
    MaxSnapshots = 3
    Units = {x1, x2, x3}
    NoUnit = nounit
    Staff = {y1, y2}
    Admins = {y1, y2}
    Clerks = {y1, y2}
    Attempts = {y1, y2}
    Callers = {y1, y2}
    MaxTokens = 6
    Lines = {"works"}
    Raisers = {y1, y2}
    MaxYear = 2
    MaxNumber = 3
    Filed = {y1, y2}
    Foreign = {"theirs"}
    Movers = {y1, y2}
    Events = {x1, x2, x3}
    Subscribers = {"hook"}
    Slots = 2
    MaxTries = 2
    Organisations = {"mine", "haulier"}
    Askers = {"mine"}
    Numbers = {"n1", "n2"}
    Reports = {"trips", "totals"}
    ScopesOf <- WrittenFor
    AppOf <- Fleet
    Addresses = {x1, x2, x3}
    MaxRecipients = 2
    Schedules = {y1, y2}
    MaxGrants = 2
INVARIANTS
    TypesOK
    LinkIsEarned
    StructureIsTree
    AdminRemains
    SpentOnce
    RegisterHasNoGap
    EvidenceStays
    RowPerEvent
    SharedIsAgreed
PROPERTIES
    VocabularyIsKept
SYMMETRY Alike
CHECK_DEADLOCK FALSE
