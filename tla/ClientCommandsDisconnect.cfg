\* The comment: a slot is left for "disconnect".
SPECIFICATION Spec
CONSTANTS
    MAX_RELIABLE_COMMANDS = 2
    MAX_PACKET_USERCMDS = 2
    cl_packetdup = 1
    MaxCommands = 3
    MaxUsercmds = 1
    MaxInFlight = 1
INVARIANT
    SlotLeftForDisconnect
CHECK_DEADLOCK FALSE
