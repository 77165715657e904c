SPECIFICATION Spec
CONSTANTS
    Configs <- BothForUser
    Policies <- UserPolicy
    Plans <- RefuseOnce
    Retypes <- Untyped
    MaxLegs = 2
    MaxKeys = 3
INVARIANT NoEmskFromMschapv2
CHECK_DEADLOCK FALSE
