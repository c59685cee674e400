\* Two required parties, or one alone under everything that may overlap: a send, ceremonies,
\* a withdrawal decided before another answer.
SPECIFICATION AloneSpec
CONSTANTS
    Parties = {buyer, seller}
    Required = {buyer, seller}
    Before <- AnyOrder
    Signatories <- OneEach
    Nobody = nobody
    Senders = {"send"}
    Stale = {"withdraw"}
    MaxFreezes = 2
    MaxCeremonies = 2
    MaxHandlers = 2
INVARIANTS
    TypeOK
    SignatureIsTheCeremonys
    ExecutedByAll
    WithdrawnIsClosed
PROPERTIES
    AnswerStands
SYMMETRY Alike
CHECK_DEADLOCK FALSE
