\* Two connections of three messages each: packets of the first are still about
\* in the second, and messages queue up behind one of two full fragments.
SPECIFICATION FairSpec
CONSTANTS
    FRAGMENT_SIZE = 2
    MAX_MSGLEN = 4
    Lengths = {1, 4}
    MaxMessages = 3
    MaxEpoch = 2
INVARIANTS
    IInv
    SentCompletely
PROPERTIES
    ImplementsStream
    QueueDrains
CHECK_DEADLOCK FALSE
