SPECIFICATION Spec
CONSTANTS
    Threads = {"t1", "t2"}
    NoThread = "none"
    OBJECTS = 2
    Kinds <- RaceKinds
    Copies = {1, 2, 3}
    Models <- AllRaces
    HomeThread <- TwoHomes
    LOOKAHEAD = 4
    NUM_SLOTS = 2
    Epsilon = 1
    LastEpoch = 2
INVARIANT NoRollbackLeft
