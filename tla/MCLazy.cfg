SPECIFICATION Spec
CONSTANTS
    Builds = {"mmap_mv", "mmap_mv_store", "mmap_mv_store_grid"}
    Lazy = TRUE
    Primed = TRUE
    CountsFirst = TRUE
    ThroughRax = FALSE
    OBJECTS = 3
    MaxRound = 3
PROPERTY RestoresCheckpoint
CHECK_DEADLOCK FALSE
