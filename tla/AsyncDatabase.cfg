\* Two threads, two operations of up to two statements, one direct execution on the
\* connection of the delay thread, one death of the process, with fairness.
CONSTANTS
    Threads = {world, map}
    World = world
    MaxTickets = 2
    MaxParts = 2
    MaxDirect = 1
    MaxBoots = 2
SPECIFICATION FairSpec
INVARIANTS
    TypeOK
    NoneLostOrOvertaken
    QuerySeesEarlierWrites
    HaltFlushesQueue
    AllOrNothing
PROPERTIES
    ImplementsLog
    EveryOperationResolved
    EveryQueryAnswered

\* After an orderly halt of its last incarnation the system stops.
CHECK_DEADLOCK FALSE
