\* Who leaves a team is removed from its queue.
SPECIFICATION SpawnSpec
CONSTANTS
    sv_maxclients = 2
    MaxClients = 3
INVARIANT
    QueuedAreOfTheTeam
CHECK_DEADLOCK FALSE
