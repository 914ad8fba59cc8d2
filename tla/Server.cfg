\* A queue of two packets; three addresses, one that is never known again,
\* and three buckets, with a clock that becomes negative;
\* files longer than the window, the first so long that block numbers wrap, of
\* which the last may not be downloaded.
SPECIFICATION Spec
CONSTANTS
    QueueLength = 2
    MaxGeneration = 2
    PacketFrames = 2
    DecodedPackets = 2
    NoPacket = nopacket
    Recordings <- RecordingsOf
    MaxSequence = 3
    Addresses = {"a", "b", "l"}
    OtherTypes = {"l"}
    Hashes = {0, 1}
    HashFor <- HashOf
    MaxBuckets = 3
    Burst = 2
    Period = 2
    HalfRange = 8
    MaxTime = 9
    Unused = unused
    MAX_DOWNLOAD_WINDOW = 3
    BlockNumbers = 4
    NumBlocks <- Long
    Refused = {3}
    MaxInFlight = 3
    MaxCommands = 5
INVARIANTS
    RelayInv
    DecodedRight
    ChainInv
    RateBounded
    RefusedRight
    DownloadInv
    NeverBroken
PROPERTIES
    DownloadsEnd
CHECK_DEADLOCK FALSE
