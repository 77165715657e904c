SPECIFICATION Spec
CONSTANTS
    Requests = {}
    Actions = {}
    Reauths = {"reauth-1", "reauth-2"}
    Overlap = 2
    AtOnce = 2
    MaxAccepts = 3
INVARIANT FailureLeavesNothingToExpire
CHECK_DEADLOCK FALSE
