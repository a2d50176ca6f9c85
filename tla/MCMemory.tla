------------------------------ MODULE MCMemory ------------------------------
(***************************************************************************)
(* One instance per checkpointing build: `build` is chosen at the start.   *)
(* The chunk builds run on two classes of chunks (two of one granule, one  *)
(* of two), and once more (`heap`), contents aside, on four chunks of one  *)
(* class, for the order in which they are freed.  The others run on one    *)
(* class of two chunks, each of two granules and a page of its own.        *)
(***************************************************************************)
EXTENDS Naturals

CONSTANTS
    Builds,             \* the builds to explore
    Lazy, Primed, CountsFirst, OBJECTS, MaxRound,   \* those of MultiVersion
    ThroughRax          \* that of GridCheckpoint

VARIABLES
    build,
    addresses, top_elem, addresses_ckpt, top_elem_ckpt, area, last,
    copy, bitmap, bitmap_ckpt, object_seeds, shadow_area,
    slot_ts, cur_slot, last_ts_seen, last_touched_ts, touched_curr, touched_prev, grid_curr,
    g_epoch_round, g_ckpt_counter, phase, checkpointed, others, counted, saved

rest == <<slot_ts, cur_slot, last_ts_seen, last_touched_ts, touched_curr, touched_prev, grid_curr,
          g_epoch_round, g_ckpt_counter, phase, checkpointed, others, counted, saved>>
bits == <<bitmap, object_seeds, bitmap_ckpt, shadow_area>>

Save == INSTANCE DebugCheckpoint WITH Build <- "CHUNK_BASED_SAVE",
    NumClasses <- 2, MIN_CHUNK_SIZE <- 1, SEGMENT <- 2, Values <- {0, 1}
Full == INSTANCE DebugCheckpoint WITH Build <- "CHUNK_FULL",
    NumClasses <- 2, MIN_CHUNK_SIZE <- 1, SEGMENT <- 2, Values <- {0, 1}
Heap == INSTANCE DebugCheckpoint WITH Build <- "CHUNK_FULL",
    NumClasses <- 1, MIN_CHUNK_SIZE <- 1, SEGMENT <- 4, Values <- {0}
Log == INSTANCE GridCheckpoint WITH Build <- "GRID_CKPT", MOD <- 16,
    NumClasses <- 1, MIN_CHUNK_SIZE <- 2, SEGMENT <- 4, Values <- {0, 1}
Mirror == INSTANCE GridCheckpoint WITH Build <- "GRID_CKPT_BS", MOD <- 8,
    NumClasses <- 1, MIN_CHUNK_SIZE <- 2, SEGMENT <- 4, Values <- {0, 1}
Versions == INSTANCE MultiVersion WITH Build <- "mmap_mv", MVMM_PAGE_SIZE <- 2, 
    NumClasses <- 1, MIN_CHUNK_SIZE <- 2, SEGMENT <- 4, Values <- {0, 1}
Store1 == INSTANCE MultiVersion WITH Build <- "mmap_mv_store", MVMM_PAGE_SIZE <- 2, Primed <- FALSE,
    NumClasses <- 1, MIN_CHUNK_SIZE <- 2, SEGMENT <- 4, Values <- {0, 1}
StoreGrid == INSTANCE MultiVersion WITH Build <- "mmap_mv_store_grid", MVMM_PAGE_SIZE <- 2, Primed <- FALSE,
    NumClasses <- 1, MIN_CHUNK_SIZE <- 2, SEGMENT <- 4, Values <- {0, 1}

ASSUME Save!AllocatorAssumption /\ Heap!AllocatorAssumption /\ Log!AllocatorAssumption

\* The variables a build does not have.
NoRest ==
    /\ slot_ts = 0 /\ cur_slot = 0 /\ last_ts_seen = 0 /\ last_touched_ts = 0
    /\ touched_curr = 0 /\ touched_prev = 0 /\ grid_curr = 0
    /\ g_epoch_round = 0 /\ g_ckpt_counter = 0
    /\ phase = 0 /\ checkpointed = 0 /\ others = 0 /\ counted = 0 /\ saved = 0
NoUsage == bitmap_ckpt = 0 /\ shadow_area = 0
NoBits == bitmap = 0 /\ object_seeds = 0

Init == 
    /\ build \in Builds
    /\ \/ build = "CHUNK_BASED_SAVE" /\ Save!DebugInit /\ NoRest
       \/ build = "CHUNK_FULL" /\ Full!DebugInit /\ NoRest
       \/ build = "heap" /\ Heap!DebugInit /\ NoRest
       \/ build = "GRID_CKPT" /\ Log!Init /\ NoRest /\ NoUsage
       \/ build = "GRID_CKPT_BS" /\ Mirror!Init /\ NoRest /\ NoUsage
       \/ build = "mmap_mv" /\ Versions!Init /\ NoBits /\ NoUsage
       \/ build = "mmap_mv_store" /\ Store1!Init /\ NoBits /\ NoUsage
       \/ build = "mmap_mv_store_grid" /\ StoreGrid!Init /\ NoBits /\ NoUsage

Next == 
    /\ UNCHANGED build
    /\ \/ build = "CHUNK_BASED_SAVE" /\ Save!DebugNext /\ UNCHANGED rest
       \/ build = "CHUNK_FULL" /\ Full!DebugNext /\ UNCHANGED rest
       \/ build = "heap" /\ Heap!DebugNext /\ UNCHANGED rest
       \/ build = "GRID_CKPT" /\ Log!Next /\ UNCHANGED <<rest, bitmap_ckpt, shadow_area>>
       \/ build = "GRID_CKPT_BS" /\ Mirror!Next /\ UNCHANGED <<rest, bitmap_ckpt, shadow_area>>
       \/ build = "mmap_mv" /\ Versions!Next /\ UNCHANGED bits
       \/ build = "mmap_mv_store" /\ Store1!Next /\ UNCHANGED bits
       \/ build = "mmap_mv_store_grid" /\ StoreGrid!Next /\ UNCHANGED bits

vars == <<addresses, top_elem, addresses_ckpt, top_elem_ckpt, area, last, copy, bits, rest, build>>
Spec == Init /\ [][Next]_vars

\* Whatever the build, its MemoryIntact: the variables have their types, the
\* allocator never hands out memory twice, and the usage bitmap of CHUNK_FULL
\* tells the chunks that are held.  Of the two builds that can pass it, also the
\* comparison of the area with the shadow that a DEBUG build makes.
MemoryIntact ==
    CASE build = "CHUNK_BASED_SAVE" -> Save!MemoryIntact /\ Save!RestoreComplete
      [] build = "CHUNK_FULL" -> Full!MemoryIntact
      [] build = "heap" -> Heap!MemoryIntact
      [] build = "GRID_CKPT" -> Log!MemoryIntact
      [] build = "GRID_CKPT_BS" -> Mirror!MemoryIntact /\ Mirror!RestoreComplete
      [] OTHER -> Versions!MemoryIntact

(***************************************************************************)
(* RestoresCheckpoint of the build.                                        *)
(***************************************************************************)
Abstract == INSTANCE Checkpoint WITH
    object <- CASE build = "CHUNK_BASED_SAVE" -> Save!Object
                [] build = "CHUNK_FULL" -> Full!Object
                [] build = "heap" -> Heap!Object
                [] build = "GRID_CKPT" -> Log!Object
                [] build = "GRID_CKPT_BS" -> Mirror!Object
                [] OTHER -> Versions!Object,
    checkpoint <- CASE build = "CHUNK_BASED_SAVE" -> Save!Recoverable
                    [] build = "CHUNK_FULL" -> Full!Recoverable
                    [] build = "heap" -> Heap!Recoverable
                    [] build = "GRID_CKPT" -> Log!Recoverable
                    [] build = "GRID_CKPT_BS" -> Mirror!Recoverable
                    [] OTHER -> saved.object
RestoresCheckpoint == Abstract!Spec

\* MultiVersion's invariant, about the seeds.
SeedsComeBack == 
    build \in {"mmap_mv_store", "mmap_mv_store_grid"} => Store1!SeedsComeBack

\* After a restore the area is what the shadow of a DEBUG build holds.
RestoreComplete ==
    CASE build = "CHUNK_BASED_SAVE" -> Save!RestoreComplete
      [] build = "CHUNK_FULL" -> Full!RestoreComplete
      [] build = "GRID_CKPT_BS" -> Mirror!RestoreComplete
      [] OTHER -> TRUE
=============================================================================
