SPECIFICATION FairSpec
CONSTANTS
    a = a
    b = b
    p1 = p1
    p2 = p2
    Sessions <- TwoSessions
    Ports <- TwoPorts
    IdSpace = 2
    Retries = 2
    Loads <- SomeLoads
INVARIANTS
    TypeOK
    InductiveInv
    RepliesAreOwn
    OwnDelayedRepliesAreIgnored
    ServedOnce
    TimeoutMeansLoss
PROPERTIES
    ExchangesEnd
    ImplementsCalls
CHECK_DEADLOCK FALSE
