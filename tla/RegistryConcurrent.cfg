CONSTANTS
    Users = {u1, u2}
    GroupIds = {g1}
    Workers = {w1, w2}
    NoUser = NoUser
    NoGroup = NoGroup
    MaxTokens = 3
    MaxFailures = 1
    FailAt <- AllSteps
    StaleRequests = TRUE
    LateUploads = TRUE
SPECIFICATION FairSpec
INVARIANTS TypeOK CreatorIsMember
PROPERTIES OnlyExpiryOrCreatorDestroys ExpiredReclaimed
