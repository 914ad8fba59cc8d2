\* Three waypoints with room for one neighbour, files of up to two that fit;
\* searches among five; three voters, a vote over in two frames; three players
\* and rings of four slots; a pool of seven units.
SPECIFICATION Spec
CONSTANTS
    MaxWaypoints = 3
    MaxNeighbors = 1
    FileRoom = 2
    Places = {"p", "q", "r"}
    Nowhere = "nowhere"
    MaxNodes = 4
    Queries <- SearchGraphs
    Players = {v1, v2, v3}
    Texts = {"kick", "map"}
    NoText = notext
    PercentOf <- VotePercent
    DelayOf <- VoteDelay
    VoteTime = 2
    Least = 0
    sv_maxclients = 3
    MaxClients = 4
    PoolSize = 7
    Null = null
INVARIANTS
    GraphInv
    SearchInv
    FindsPath
    VoteInv
    ExecutesWhatPassed
    QueueInv
    PoolInv
PROPERTIES
    ImplementsGraph
    EarlyDecisionRight
    QueuesAreFair
    StalePathEnds
    PlacesKept
CHECK_DEADLOCK FALSE
