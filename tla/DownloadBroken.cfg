\* The comment: what is acknowledged is the block the server waits for.  The
\* first file is shorter than the window.
SPECIFICATION DownloadSpec
CONSTANTS
    MAX_DOWNLOAD_WINDOW = 3
    BlockNumbers = 4
    NumBlocks <- Short
    Refused = {}
    MaxInFlight = 2
    MaxCommands = 5
INVARIANT
    NeverBroken
CHECK_DEADLOCK FALSE
