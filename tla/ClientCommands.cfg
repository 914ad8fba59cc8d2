\* A ring of two: it fills, wraps and overflows; each usercmd is sent twice,
\* and more may be new than fit in a packet.
SPECIFICATION FairSpec
CONSTANTS
    MAX_RELIABLE_COMMANDS = 2
    MAX_PACKET_USERCMDS = 2
    cl_packetdup = 1
    MaxCommands = 2
    MaxUsercmds = 3
    MaxInFlight = 1
INVARIANTS
    IInv
    CommandsBeforeUsercmds
    UsercmdsSurvive
PROPERTIES
    ImplementsStream
    EventuallyExecuted
    EventuallyGone
CHECK_DEADLOCK FALSE
