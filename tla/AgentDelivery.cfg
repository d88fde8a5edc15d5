SPECIFICATION FairSpec
CONSTANTS
    Commands <- MCCommands
    Params <- MCParams
    Configs <- MCConfigs
    Handlers = {h1, h2}
    PollLimit = 2
    PeekLimit = 2
    MaxBeats = 1
    MaxCrashes = 1
INVARIANTS
    TypeOK
    AtMostOnce
    ResultIsGenuine
PROPERTIES
    ResultArrives
    QueuedRuns
