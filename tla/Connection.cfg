\* A table of two challenges; packets come within two seconds, three at a time.
SPECIFICATION ConnSpec
CONSTANTS
    Challenges = {k1, k2, k3, k4}
    ClientNumbers = {n1, n2}
    Nothing = nothing
    MaxChallenges = 2
    MultiChallenges = 1
    Retransmit = 2
    ReconnectLimit = 3
    ZombieTime = 2
    Timeout = 4
    Lifetime = 1
    MaxPackets = 3
SYMMETRY Symmetry
INVARIANTS
    ConnInv
PROPERTIES
    BegunOnce
CHECK_DEADLOCK FALSE
