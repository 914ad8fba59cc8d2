\* The comment: a window is sent again, without harm.
SPECIFICATION DownloadSpec
CONSTANTS
    MAX_DOWNLOAD_WINDOW = 2
    BlockNumbers = 3
    NumBlocks <- Shorter
    Refused = {}
    MaxInFlight = 2
    MaxCommands = 4
INVARIANT
    RetransmissionHarmless
CHECK_DEADLOCK FALSE
