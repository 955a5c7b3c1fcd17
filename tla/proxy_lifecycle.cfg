CONSTANTS
    MaxQueue = 2
    MaxEvents = 4
SPECIFICATION FairSpec
INVARIANTS
    TypeOK
    NothingSkipped
    StopDrains
    ThreadsEndFirst
    ServesOnlyLoggedIn
PROPERTIES
    
    StopEnds
    QueuedIsTaken
CHECK_DEADLOCK FALSE
