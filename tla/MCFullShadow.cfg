SPECIFICATION Spec
CONSTANTS
    Builds = {"CHUNK_FULL"}
    Lazy = FALSE
    Primed = FALSE
    CountsFirst = TRUE
    ThroughRax = FALSE
    OBJECTS = 3
    MaxRound = 3
INVARIANT RestoreComplete
CHECK_DEADLOCK FALSE
