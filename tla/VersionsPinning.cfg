SPECIFICATION Spec
CONSTANTS
    Sessions = {s1}
    Workflows = {"orders", "wf_order_processing"}
    DefaultWorkflow = "wf_order_processing"
    Definitions <- MCDefinitions
    DefaultDefinition = "builtin"
    IdOf <- MCIdOf
    SchemaVersion <- MCSchemaVersion
    Keys = {"k1"}
    ForeignKeys = TRUE
    MaxVersion = 3
    MaxRuns = 2
    MaxRequests = 5
    Absent = Absent
    NoId = NoId
    NoKey = NoKey
CHECK_DEADLOCK FALSE
INVARIANT PinnedDefinition
