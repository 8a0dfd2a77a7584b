\* One account, two connections, three packets, no kicks, with fairness.
CONSTANTS
    Accounts = {a1}
    Players = {a1}
    Sockets = {k1, k2}
    None = None
    PlayerLimit = 0
    OneLoginAtATime = TRUE
    MaxPackets = 3
    MaxKicks = 0
SPECIFICATION FairSpec
INVARIANTS
    EveryCharacterHasItsSession
    ShutdownSavesEveryone
    SocketsRouteToTheirSession
PROPERTIES
    NothingLostAtLogout
    DesertedSessionsEnd

\* After CleanupsBeforeStop the world has stopped.
CHECK_DEADLOCK FALSE
