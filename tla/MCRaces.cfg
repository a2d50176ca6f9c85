SPECIFICATION Spec
CONSTANTS
    Threads = {"t1", "t2"}
    NoThread = "none"
    OBJECTS = 3
    Kinds <- CrowdKinds
    Copies = {1, 2, 3}
    Models <- AllModels
    HomeThread <- ThreeHomes
    LOOKAHEAD = 4
    NUM_SLOTS = 2
    Epsilon = 1
    LastEpoch = 2
INVARIANTS TypeOK RunnerOwns ExclusiveExecution BusyIsHeld QueuesInOrder CausalOrder LogsAreLive HistoryIsRetractable NothingSentTwice
