SPECIFICATION Spec
CONSTANTS
    None = None
    ToolRequest = ToolRequest
    UploadRequest = UploadRequest
    FixtureRequest = FixtureRequest
    Operation = {o1}
    Request = {ToolRequest, UploadRequest, FixtureRequest}
    KindOf <- MCKindOf
    Approver = {a1, a2}
    Handler = {h1, h2}
    Attempts = 1
    TTL = 1
    LeaseTime = 1
    UploadLease = 1
    MaxTime = 2
    MaxGeneration = 0
    SendsInvocation = TRUE
SYMMETRY Symmetry
INVARIANTS TypeOK DecisionsConverge
PROPERTIES EndedOperationsAreFinal RevokedApproversDecideNothing ConsentIsSpentOnce
CHECK_DEADLOCK FALSE
