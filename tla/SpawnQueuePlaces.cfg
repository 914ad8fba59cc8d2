\* Who waits loses its place by its own doing only.
SPECIFICATION SpawnSpec
CONSTANTS
    sv_maxclients = 2
    MaxClients = 3
PROPERTY
    PlacesAreOnesOwn
CHECK_DEADLOCK FALSE
