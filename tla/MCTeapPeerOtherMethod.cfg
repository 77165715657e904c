SPECIFICATION Spec
CONSTANTS
    Configs <- UserPwdOnly
    Messages <- MethodMessages
    MaxLegs = 2
    MaxTunnels = 1
    MaxKeys = 2
INVARIANT OtherMethodsAreNaked
CHECK_DEADLOCK FALSE
