SPECIFICATION FairSpec
CONSTANTS
    Requests = {"request"}
    Actions = {"first-start", "start", "stop"}
    Reauths = {"reauth"}
    Overlap = 1
    AtOnce = 1
    MaxAccepts = 2
INVARIANTS
    TypeOK
    InductiveInv
    LastRunIsOnRecord

    
CHECK_DEADLOCK FALSE
