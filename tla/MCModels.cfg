CONSTANTS
    MaxDelay = 3
    MaxCalls = 4
    INITIAL_CARS = 1
SPECIFICATION Spec
INVARIANTS LookaheadRespected PopulationStays ListsIntact ChannelsAgree EveryCallEnds CarsLeaveInOrder
CHECK_DEADLOCK FALSE
