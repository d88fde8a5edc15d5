SPECIFICATION Spec
CONSTANTS
    Conns = {1, 2}
    Tenants = {t1, t2}
    MaxRequests = 4
    Limits = {1, 2}
INVARIANTS
    TypeOK
    RotationTakesEffect
    
    OneBaseline
PROPERTIES
    NewestSecretStays
    DisabledStays
    TenantIsolation
CHECK_DEADLOCK FALSE
