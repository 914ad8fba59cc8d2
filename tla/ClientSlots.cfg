\* Three slots, one of them reserved, for up to two bots and two players, one
\* of whom connects from two addresses.
SPECIFICATION Spec
CONSTANTS
    maxclients = 3
    sv_privateClients = 1
    p1 = p1
    p2 = p2
    Nobody = Nobody
    Remotes <- Addresses
    GuidOf <- Guid
    BotCounts = {0, 2}
INVARIANTS
    IInv
CHECK_DEADLOCK FALSE
