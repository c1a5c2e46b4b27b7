CONSTANTS
    Users = {u1, u2}
    Browsers = {u1}
    GroupIds = {g1}
    Workers = {w1, w2}
    NoUser = NoUser
    NoGroup = NoGroup
    NoSession = NoSession
    MaxTokens = 2
    MaxFailures = 1
    FailAt <- AllSteps
    StaleRequests = TRUE
    LateUploads = TRUE
SPECIFICATION BackendSpec
SYMMETRY Symmetry
INVARIANTS WebOK NoDanglingPointer NoOrphanFiles
PROPERTIES RightfulDestruction
