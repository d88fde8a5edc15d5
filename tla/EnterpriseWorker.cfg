SPECIFICATION Spec
SYMMETRY Symmetry
CONSTANTS
    Threads = {t1, t2}
    Capacity = 2
    Rate = 3
    Unit = 2
    BatchSize = 2
    MaxClock = 2
    MaxTxns = 3
    None = None
INVARIANTS
    TypeOK
    OutboxFollowsCommits
    
    
 

