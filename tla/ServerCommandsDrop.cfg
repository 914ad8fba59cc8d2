SPECIFICATION Spec
CONSTANTS
    MAX_RELIABLE_COMMANDS = 4
    MaxCommands = 5
    MaxInFlight = 1
    MaxPending = 2
INVARIANT
    NoRecursiveDrop
CHECK_DEADLOCK FALSE
