SPECIFICATION Spec
CONSTANTS
    None = None
    ToolRequest = ToolRequest
    UploadRequest = UploadRequest
    FixtureRequest = FixtureRequest
    Operation = {o1}
    Request = {ToolRequest}
    KindOf <- MCKindOf
    Approver = {a1}
    Handler = {h1}
    Attempts = 2
    TTL = 1
    LeaseTime = 1
    UploadLease = 2
    MaxTime = 2
    MaxGeneration = 0
    SendsInvocation = FALSE
INVARIANT ExecutionCallsAreIdentified
CHECK_DEADLOCK FALSE
