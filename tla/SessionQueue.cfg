\* Room for one player; three players and a game master, three connections.
CONSTANTS
    Accounts = {a1, a2, a3, gm}
    Players = {a1, a2, a3}
    Sockets = {k1, k2, k3}
    None = None
    PlayerLimit = 1
    OneLoginAtATime = FALSE
    MaxPackets = 0
    MaxKicks = 1
SPECIFICATION Spec
SYMMETRY Symmetric
INVARIANTS
    QueueMatchesSessions
    LimitIsExact
PROPERTIES
    AdmittedInOrder
\* After CleanupsBeforeStop the world has stopped.
CHECK_DEADLOCK FALSE
