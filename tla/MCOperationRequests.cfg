SPECIFICATION FairSpec
CONSTANTS
    None = None
    ToolRequest = ToolRequest
    UploadRequest = UploadRequest
    FixtureRequest = FixtureRequest
    Operation = {o1, o2}
    Request = {ToolRequest}
    KindOf <- MCKindOf
    Approver = {a1}
    Handler = {h1}
    Attempts = 2
    TTL = 1
    LeaseTime = 1
    UploadLease = 1
    MaxTime = 2
    MaxGeneration = 1
    SendsInvocation = TRUE
INVARIANTS OneOpenOperationPerRequest
PROPERTIES AdmittedUnderLiveLease OperationsEnd
CHECK_DEADLOCK FALSE
