SPECIFICATION SchemesSpec
CONSTANTS
    Builds = {"CHUNK_BASED_SAVE", "CHUNK_FULL", "heap", "GRID_CKPT", "GRID_CKPT_BS",
              "mmap_mv", "mmap_mv_store", "mmap_mv_store_grid"}
    Lazy = FALSE
    Primed = TRUE
    CountsFirst = TRUE
    ThroughRax = FALSE
    OBJECTS = 3
    MaxRound = 3
    CodeBuilds = {"CKPT", "mmap_mv", "mmap_mv_store"}
    NUM_INSTRUCTIONS = 4
    NUM_PATCHES = 3
    REACH = 24
    PAGE = 32
    MaxItems = 4
    Edge = FALSE
INVARIANTS MemoryIntact SeedsComeBack NeverDerailed WritesAllowed
PROPERTIES RestoresCheckpoint RunsCheckedProgram
CHECK_DEADLOCK FALSE
