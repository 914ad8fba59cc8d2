\* The message: whose vote is already cast has a vote that counts.
SPECIFICATION Spec
CONSTANTS
    MaxWaypoints = 3
    MaxNeighbors = 1
    FileRoom = 2
    Places = {"p", "q", "r"}
    Nowhere = "nowhere"
    MaxNodes = 4
    Queries <- SearchGraphs
    Players = {v1, v2, v3}
    Texts = {"kick", "map"}
    NoText = notext
    PercentOf <- VotePercent
    DelayOf <- VoteDelay
    VoteTime = 2
    Least = 0
    Clients = {c1, c2}
    MaxClients = 3
    NoClient = noclient
    PoolSize = 7
    Null = null
INVARIANT
    CastMeansCounted
CHECK_DEADLOCK FALSE
