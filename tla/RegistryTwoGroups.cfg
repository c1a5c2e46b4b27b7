CONSTANTS
    Users = {u1, u2}
    GroupIds = {g1, g2, g3}
    Workers = {w1}
    NoUser = NoUser
    NoGroup = NoGroup
    MaxTokens = 3
    MaxFailures = 0
    FailAt <- AllSteps
    StaleRequests = FALSE
    LateUploads = TRUE
SPECIFICATION Spec
SYMMETRY Symmetry
INVARIANTS OneActiveGroup
