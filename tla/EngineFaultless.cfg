SPECIFICATION FairSpec
CONSTANTS
    Workers = {w1}
    Nodes <- GateNodes
    Out <- GateOut
    StartNodes <- OneStart
    Approvals = {"gate"}
    Triggers = {"trigger"}
    Connected = {"charge", "ship"}
    Gated <- Dominated
    Outputs = {"yes", "no"}
    Truthy = {"yes"}
    NoOutput = NoOutput
    Always = Always
    MaxAttempts = 2
    MaxRequests = 5
    CrashAllowed = FALSE
    StoreFaults = FALSE
    LookupFaults = FALSE
CHECK_DEADLOCK FALSE
INVARIANTS
    
    ParkedRunHasGate
PROPERTIES
    RunSettles
