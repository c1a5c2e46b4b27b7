CONSTANTS
    Users = {u1, u2}
    GroupIds = {g1}
    Workers = {w1}
    NoUser = NoUser
    NoGroup = NoGroup
    MaxTokens = 1
    MaxFailures = 1
    FailAt <- OwnerSteps
    StaleRequests = FALSE
    LateUploads = FALSE
SPECIFICATION FairSpec
PROPERTIES DeletedFilesGone
