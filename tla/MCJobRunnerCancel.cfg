SPECIFICATION Spec
CONSTANTS
    Kinds = {"job"}
    Slots = {s1, s2}
    Concurrency = 1
    MaxRestarts = 1
INVARIANTS
    CancellingMeansAlive
CHECK_DEADLOCK FALSE
