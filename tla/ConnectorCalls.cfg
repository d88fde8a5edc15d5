SPECIFICATION Spec
CONSTANTS
    Configurations <- MCConfigurations
    Unadvertised <- MCUnadvertised
    MaxRecords = 3
    MaxAttempts = 3
INVARIANTS
    TypeOK
    
    
    
 
CHECK_DEADLOCK FALSE
