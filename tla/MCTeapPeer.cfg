SPECIFICATION FairSpec
CONSTANTS
    Configs <- SomeConfigs
    Messages <- AnyMessages
    MaxLegs = 2
    MaxTunnels = 2
    MaxKeys = 1
INVARIANTS
    TypeOK
    InductiveInv
    SuccessIsProtected
    
    
PROPERTIES
    RefusalIsFinal
    BindingIsAnswered
    BadMacEndsRun
    ServerFailureIsHeeded
    ImplementsRun
    Termination
CHECK_DEADLOCK FALSE
