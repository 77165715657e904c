SPECIFICATION FairSpec
CONSTANTS
    Lengths = {0, 1, 2, 4, 5}
    MaxChunk = 2
    IdSpace = 2
    MaxMessages = 5
INVARIANTS
    TypeOK
    InductiveInv
    AcksAreAcks
PROPERTIES
    ImplementsMessages
    ConversationEnds
CHECK_DEADLOCK FALSE
