\* The comment: SV_FreeClient frees what the client allocated.
SPECIFICATION Spec
CONSTANTS
    QueueLength = 2
    MaxGeneration = 2
    PacketFrames = 2
    DecodedPackets = 2
    NoPacket = nopacket
    Recordings <- RecordingsOf
    MaxSequence = 3
    Addresses = {"a", "b", "l"}
    OtherTypes = {"l"}
    Hashes = {0, 1}
    HashFor <- HashOf
    MaxBuckets = 3
    Burst = 2
    Period = 2
    HalfRange = 8
    MaxTime = 9
    Unused = unused
    MAX_DOWNLOAD_WINDOW = 3
    BlockNumbers = 4
    NumBlocks <- Long
    Refused = {3}
    MaxInFlight = 3
    MaxCommands = 5
INVARIANT
    DestructorFreesAll
CHECK_DEADLOCK FALSE
