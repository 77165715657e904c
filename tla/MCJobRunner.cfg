SPECIFICATION FairSpec
CONSTANTS
    Kinds = {"job", "bulk"}
    Slots = {s1, s2, s3}
    Concurrency = 2
    MaxRestarts = 1
INVARIANTS
    TypeOK
    InductiveInv
    CountsMatch
    ActiveMeansAlive
    NoTaskOutlivesItsJob
PROPERTIES
    NothingStartsAfterCancel
    TaskEnds
CHECK_DEADLOCK FALSE
