SPECIFICATION Spec
CONSTANTS
    Configs <- SomeConfigs
    Policies <- UserPolicy
    Plans <- RepeatAfterRefusal
    Retypes <- Retyped
    MaxLegs = 2
    MaxKeys = 3
INVARIANT NeverRefused
CHECK_DEADLOCK FALSE
