SPECIFICATION FairSpec
CONSTANTS
    Threads = {"t1", "t2"}
    NoThread = "none"
    OBJECTS = 2
    Kinds <- ForwardKinds
    Copies = {1, 2}
    Models <- ForwardAndIdleModels
    HomeThread <- TwoHomes
    LOOKAHEAD = 4
    NUM_SLOTS = 2
    Epsilon = 1
    LastEpoch = 3
INVARIANTS EventsInWindow CoastingForward CommitsSequentialRun
PROPERTY EpochsEnd
