\* A session is kicked while its character is being loaded.
CONSTANTS
    Accounts = {a1}
    Players = {a1}
    Sockets = {k1}
    None = None
    PlayerLimit = 0
    OneLoginAtATime = TRUE
    MaxPackets = 1
    MaxKicks = 1
SPECIFICATION Spec
INVARIANTS
    NoCharacterWithoutSession
\* After CleanupsBeforeStop the world has stopped.
CHECK_DEADLOCK FALSE
