\* A ring of four: it overflows, and wraps, with what a drop adds besides.
SPECIFICATION FairSpec
CONSTANTS
    MAX_RELIABLE_COMMANDS = 4
    MaxCommands = 5
    MaxInFlight = 1
    MaxPending = 2
INVARIANTS
    IInv
PROPERTIES
    ImplementsStream
    DropNoticed
    EventuallyExecuted
CHECK_DEADLOCK FALSE
