SPECIFICATION FairSpec
CONSTANTS
    Threads = {"t1", "t2"}
    OBJECTS = 3
    Kinds <- MCKinds
    Models <- MCModels
    HomeThread <- Homes
    LOOKAHEAD = 2
    NUM_SLOTS = 2
INVARIANTS TypeOK ExclusiveExecution PendingIsQueued
PROPERTIES ImplementsSimulation Terminates
