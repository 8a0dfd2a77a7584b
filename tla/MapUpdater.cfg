\* Up to three worker threads, two maps, three messages.
CONSTANTS
    Maps = {m1, m2}
    Workers = {w1, w2, w3}
    World = World
    None = None
    MaxMessages = 3
SPECIFICATION FairSpec
CHECK_DEADLOCK FALSE
INVARIANTS
    TypeOK
    MessagesKept
PROPERTIES
    ImplementsTicks
    TickEnds
    MessagesDelivered
    ShutdownEnds
