SPECIFICATION Spec
CONSTANTS
    Workers = {w1}
    Nodes <- JoinNodes
    Out <- EarlyJoinOut
    StartNodes <- OneStart
    Approvals = {}
    Triggers = {"trigger"}
    Connected = {}
    Gated <- Dominated
    Outputs = {"yes", "no"}
    Truthy = {"yes"}
    NoOutput = NoOutput
    Always = Always
    MaxAttempts = 1
    MaxRequests = 1
    CrashAllowed = FALSE
    StoreFaults = FALSE
    LookupFaults = FALSE
CHECK_DEADLOCK FALSE
PROPERTY DependenciesMet
