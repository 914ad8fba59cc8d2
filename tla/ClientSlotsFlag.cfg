\* The comment: the flag is that of a bot.
SPECIFICATION Spec
CONSTANTS
    maxclients = 2
    sv_privateClients = 0
    p1 = p1
    p2 = p2
    Nobody = Nobody
    Remotes <- Addresses
    GuidOf <- Guid
    BotCounts = {0, 1}
INVARIANT
    FlaggedAreBots
CHECK_DEADLOCK FALSE
