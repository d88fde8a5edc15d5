SPECIFICATION FairSpec
CONSTANTS
    Callers = {c1, c2}
    Threshold = 2
    Cooldown = 2
    MaxAttempts = 1
    Remote = TRUE
    MaxDelay = 1
    MaxIncidents = 2
    CrashAllowed = TRUE
    Unset = Unset
PROPERTY NeverStuckOpen
