SPECIFICATION Spec
CONSTANTS
    Builds = {"GRID_CKPT_BS"}
    Lazy = FALSE
    Primed = FALSE
    CountsFirst = TRUE
    ThroughRax = TRUE
    OBJECTS = 3
    MaxRound = 3
INVARIANT RestoreComplete
CHECK_DEADLOCK FALSE
