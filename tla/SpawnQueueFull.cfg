\* Everybody waits on a server of MAX_CLIENTS: the ring is full.
SPECIFICATION SpawnSpec
CONSTANTS
    sv_maxclients = 2
    MaxClients = 2
PROPERTY
    EventuallyServed
CHECK_DEADLOCK FALSE
