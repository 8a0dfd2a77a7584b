\* The answer of a login query meets a session that did not ask for it.
CONSTANTS
    Accounts = {a1}
    Players = {a1}
    Sockets = {k1, k2}
    None = None
    PlayerLimit = 0
    OneLoginAtATime = FALSE
    MaxPackets = 2
    MaxKicks = 0
SPECIFICATION Spec
INVARIANTS
    OneCharacterOnline
\* After CleanupsBeforeStop the world has stopped.
CHECK_DEADLOCK FALSE
