SPECIFICATION Spec
CONSTANTS
    Requests = {"request"}
    Actions = {"first-start", "stop"}
    Reauths = {}
    Overlap = 1
    AtOnce = 2
    MaxAccepts = 1
INVARIANTS
    LiveMeansHeld
CHECK_DEADLOCK FALSE
