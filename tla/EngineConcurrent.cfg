SPECIFICATION Spec
CONSTANTS
    Workers = {w1, w2}
    Nodes <- GateNodes
    Out <- GateOut
    StartNodes <- OneStart
    Approvals = {"gate"}
    Triggers = {"trigger"}
    Connected = {"charge", "ship"}
    Gated <- Dominated
    Outputs = {"yes", "no"}
    Truthy = {"yes"}
    NoOutput = NoOutput
    Always = Always
    MaxAttempts = 1
    MaxRequests = 4
    CrashAllowed = TRUE
    StoreFaults = TRUE
    LookupFaults = TRUE
CHECK_DEADLOCK FALSE
SYMMETRY Symmetry
INVARIANTS
    GateSafety
    FailureIsDeadLettered
