\* Bases may be one or two messages old; the server's ring of three entities,
\* shared with other clients, wraps; so do both rings of frames.  A new map:
\* the ring of entities begins again, and the client wipes its state when the
\* gamestate comes, which may be lost.
SPECIFICATION Spec
CONSTANTS
    PACKET_BACKUP = 6
    MAX_SNAPSHOT_ENTITIES = 1
    numSnapshotEntities = 3
    VisibleCounts = {1}
    MaxMessages = 8
    MaxEntities = 4
    MaxLevels = 2
    MaxInFlight = 1
INVARIANTS
    IInv
    SnapshotsFaithful
    BaseHeld
CHECK_DEADLOCK FALSE
