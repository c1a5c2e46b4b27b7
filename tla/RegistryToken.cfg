CONSTANTS
    Users = {u1, u2, u3}
    GroupIds = {g1}
    Workers = {w1, w2}
    NoUser = NoUser
    NoGroup = NoGroup
    MaxTokens = 3
    MaxFailures = 0
    FailAt <- AllSteps
    StaleRequests = FALSE
    LateUploads = TRUE
SPECIFICATION Spec
SYMMETRY Symmetry
INVARIANTS OneTimeToken
