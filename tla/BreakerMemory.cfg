SPECIFICATION Spec
CONSTANTS
    Callers = {c1, c2, c3}
    Threshold = 2
    Cooldown = 2
    MaxAttempts = 2
    Remote = FALSE
    MaxDelay = 0
    MaxIncidents = 0
    CrashAllowed = TRUE
    Unset = Unset
SYMMETRY Symmetry
INVARIANT TypeOK
INVARIANT KeysAgree
INVARIANT TripIsReported
PROPERTY CooldownRespected
