CONSTANTS
    MaxMessages = 2
    MaxRestarts = 1
    None = None
SPECIFICATION FairSpec
INVARIANTS
    TypeOK
    
    

    
    
ACTION_CONSTRAINT OneBeforeKill
CHECK_DEADLOCK FALSE
