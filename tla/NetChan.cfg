SPECIFICATION FairSpec
CONSTANTS
    FRAGMENT_SIZE = 2
    MAX_MSGLEN = 4
    MAX_NETCHAN_QUEUE = 1
    Lengths = {1, 2, 3}
    MaxMessages = 4
INVARIANTS
    TypeOK
    WholeMessages
    SentInFull
    QueueBounded
PROPERTIES
    ImplementsLossyChannel
    Drains
CHECK_DEADLOCK FALSE
