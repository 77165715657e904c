SPECIFICATION FairSpec
CONSTANTS
    Configs <- SomeConfigs
    Policies <- SomePolicies
    Plans <- SomePlans
    Retypes <- Retyped
    MaxLegs = 4
    MaxKeys = 6
INVARIANTS
    ChainsAgree
    NeverRefused
    ReportIsTrue
    InductiveInv
PROPERTIES
    Completes
CHECK_DEADLOCK FALSE
