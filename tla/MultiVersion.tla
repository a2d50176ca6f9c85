---------------------------- MODULE MultiVersion ----------------------------
(***************************************************************************)
(* The multi-version memory (MVM_MMAP_MULTIVERSIONING/patches/patches.c).  *)
(* Every page has two slots with the round they belong to.  In the         *)
(* mmap_mv build the first store of a round copies the page into the other *)
(* slot and redirects the model to it; in the two store builds the model   *)
(* always uses slot 0 and the first store of a round saves the page        *)
(* (mmap_mv_store), or the cells stored into (mmap_mv_store_grid), in      *)
(* slot 1.  There is one round counter for all objects: it advances when   *)
(* OBJECTS checkpoints have been counted, and restore_object goes back to  *)
(* the versions of the rounds before the current one.                      *)
(*                                                                         *)
(* One object is followed in detail; of the others only the checkpoints    *)
(* are seen.  They come when the engine takes them: after the INIT event   *)
(* (engine.c:143), then once per object at the end of an epoch, between    *)
(* the barriers (queue.c:818), or, in a Lazy (AVOID_THROTTLING) build,     *)
(* when an object is first claimed in an epoch (queue.c:430).              *)
(***************************************************************************)
EXTENDS ObjectAllocator

CONSTANTS
    Build,          \* "mmap_mv", "mmap_mv_store" or "mmap_mv_store_grid"
    Lazy,           \* built with AVOID_THROTTLING
    Primed,         \* the INIT event of the model stores into every page
    CountsFirst,    \* an event stores beside its seeds before it draws
    OBJECTS,        \* simulation objects
    MVMM_PAGE_SIZE, \* granules of a page; a granule is a cell of the grid
    MaxRound        \* bound: rounds explored

VARIABLES
    copy,               \* slot 1 of the pages; slot 0 is the area itself
    slot_ts,            \* per page and slot, its round
    cur_slot,           \* per page, the slot the model uses
    last_ts_seen,       \* per page, the round its last version was opened
    last_touched_ts,    \* per page, the round of its last store
    touched_curr, touched_prev,     \* pages stored into and in which round
    grid_curr,          \* cells saved since the page was first touched
    g_epoch_round, g_ckpt_counter,
    phase,              \* "init", "epoch" or "flush"
    checkpointed,       \* the object has taken its checkpoint for this phase
    others,             \* other objects that have
    counted,            \* the event being run has counted itself
    saved               \* history: the object and its seeds at the last checkpoint

versions == <<copy, slot_ts, cur_slot, last_ts_seen, last_touched_ts, touched_curr,
              touched_prev, grid_curr>>
rounds == <<g_epoch_round, g_ckpt_counter>>
engine == <<phase, checkpointed, others, counted>>
vars == <<allocator, allocator_ckpt, area, last, versions, rounds, engine, saved>>

MV == Build = "mmap_mv"
Grid == Build = "mmap_mv_store_grid"

NEVER == MaxRound + 1       \* UINT64_MAX
PageOf(g) == g \div MVMM_PAGE_SIZE
Pages == {PageOf(g) : g \in Granules}
CellsOf(p) == {g \in Granules : PageOf(g) = p}

\* What the model reads, and what it observes of its object besides its seeds.
Content(slots) == [g \in Granules |-> IF slots[PageOf(g)] = 1 THEN copy[g] ELSE area[g]]
Object == [heap |-> [g \in Granules \ {SeedGranule} |-> Content(cur_slot)[g]],
           free |-> FreeStack(addresses, top_elem)]
\* Random is not instrumented: it always uses the area itself.
Drawn == area[SeedGranule]

(***************************************************************************)
(* mvmm_region_register, called by the wrapper of mmap.                    *)
(***************************************************************************)
Init ==
    /\ SetUp
    /\ copy = [g \in Granules |-> 0]
    /\ slot_ts = [p \in Pages |-> [s \in {0, 1} |-> NEVER]]
    /\ cur_slot = [p \in Pages |-> 0]
    /\ last_ts_seen = [p \in Pages |-> NEVER]
    /\ last_touched_ts = [p \in Pages |-> NEVER]
    /\ touched_curr = [pages |-> {}, ts |-> NEVER]
    /\ touched_prev = [pages |-> {}, ts |-> NEVER]
    /\ grid_curr = {}
    /\ g_epoch_round = 0
    /\ g_ckpt_counter = 0
    /\ phase = "init"
    /\ checkpointed = FALSE
    /\ others = 0
    /\ counted = FALSE
    /\ saved = [object |-> Object, seeds |-> Drawn]

(***************************************************************************)
(* The object is being run: in its INIT event, or claimed in an epoch.     *)
(* Every event counts itself in the state of the object, in the cell of    *)
(* the seeds: PHOLD and PCS before they do anything else (phold            *)
(* application.c:143, pcs application.c:71-73), highway when all else is   *)
(* done (application.c:346), so that only the page of its seeds, where the *)
(* loads are, is stored into before it draws.                              *)
(***************************************************************************)
Claimed == IF phase = "init" THEN ~checkpointed ELSE phase = "epoch" /\ checkpointed
InEvent == Claimed /\ (CountsFirst => counted)

MallocChunk(size) ==
    /\ InEvent
    /\ \E k \in Chunks : Malloc(size, k)
    /\ UNCHANGED <<versions, rounds, engine, saved>>

FreeChunk(k) ==
    /\ InEvent
    /\ Free(k)
    /\ UNCHANGED <<versions, rounds, engine, saved>>

(***************************************************************************)
(* The touched lists: a new round makes the current list the previous one, *)
(* and a page is listed once per round.                                    *)
(***************************************************************************)
NoteTouch(p) ==
    LET ts == g_epoch_round
        rotated == touched_curr.ts # ts
        listed == IF rotated THEN {} ELSE touched_curr.pages
    IN  /\ touched_prev' = IF rotated /\ ~Grid THEN touched_curr ELSE touched_prev
        /\ touched_curr' = 
              [pages |-> IF last_touched_ts[p] = ts THEN listed ELSE listed \cup {p},
               ts |-> ts]
        /\ last_touched_ts' = [last_touched_ts EXCEPT ![p] = ts]

(***************************************************************************)
(* A store of v into cell g in the mmap_mv build (mvmm_translate_ea): the  *)
(* first store into the page in a round opens the other slot.              *)
(***************************************************************************)
StoreVersion(g, v) ==
    LET p == PageOf(g)
        opens == last_ts_seen[p] # g_epoch_round
        next == IF opens THEN 1 - cur_slot[p] ELSE cur_slot[p]
        Written(s, old) == [h \in Granules |->
                               IF PageOf(h) # p \/ s # next THEN old[h]
                               ELSE IF h = g THEN v ELSE Content(cur_slot)[h]]
    IN  /\ NoteTouch(p)
        /\ last_ts_seen' = [last_ts_seen EXCEPT ![p] = g_epoch_round]
        /\ slot_ts' = IF opens THEN [slot_ts EXCEPT ![p][next] = g_epoch_round] ELSE slot_ts
        /\ cur_slot' = [cur_slot EXCEPT ![p] = next]
        /\ area' = Written(0, area)
        /\ copy' = Written(1, copy)
        /\ UNCHANGED grid_curr

\* Mutant: the bitmap of the page is not cleared when a round first touches it.
SnapshotKeepsMarks(g) ==
    /\ NoteTouch(PageOf(g))
    /\ slot_ts' = [slot_ts EXCEPT ![PageOf(g)][1] = g_epoch_round]
    /\ grid_curr' = IF Grid THEN grid_curr \cup {g} ELSE grid_curr
    /\ copy' = [h \in Granules |->
                   IF (Grid => h = g /\ g \notin grid_curr)
                      /\ (~Grid => PageOf(h) = PageOf(g) /\ slot_ts[PageOf(g)][1] # g_epoch_round)
                   THEN area[h] ELSE copy[h]]
    /\ UNCHANGED <<cur_slot, last_ts_seen>>

(***************************************************************************)
(* The same store in the store builds (mvmm_store_snapshot_range): what it *)
(* is about to change is saved in slot 1, once per round.                  *)
(***************************************************************************)
Snapshot(g) ==
    LET p == PageOf(g)
        stale == slot_ts[p][1] # g_epoch_round
        marked == IF stale THEN grid_curr \ CellsOf(p) ELSE grid_curr
        saves == IF Grid THEN {g} \ marked ELSE IF stale THEN CellsOf(p) ELSE {}
    IN  /\ NoteTouch(p)
        /\ slot_ts' = [slot_ts EXCEPT ![p][1] = g_epoch_round]
        /\ grid_curr' = IF Grid THEN marked \cup {g} ELSE grid_curr
        /\ copy' = [h \in Granules |-> IF h \in saves THEN area[h] ELSE copy[h]]
        /\ last_ts_seen' = IF Grid \/ stale THEN [last_ts_seen EXCEPT ![p] = g_epoch_round] 
                           ELSE last_ts_seen
        /\ UNCHANGED cur_slot

(***************************************************************************)
(* the_patch and the store it precedes: the store that counts the event,   *)
(* in the cell of the seeds, and any other store.                          *)
(***************************************************************************)
CountEvent ==
    /\ Claimed
    /\ IF MV THEN StoreVersion(SeedGranule, Content(cur_slot)[SeedGranule])
       ELSE Snapshot(SeedGranule) /\ UNCHANGED area
    /\ Running
    /\ counted' = TRUE
    /\ UNCHANGED <<allocator, allocator_ckpt, rounds, phase, checkpointed, others, saved>>

StorePatched(g, v) ==
    /\ InEvent
    /\ g # SeedGranule
    /\ ChunkOf(g) \in Live
    /\ IF MV THEN /\ StoreVersion(g, v)
                  /\ Running
                  /\ UNCHANGED <<allocator, allocator_ckpt>>
       ELSE Snapshot(g) /\ Store({g}, v)
    /\ UNCHANGED <<rounds, engine, saved>>

DrawRandom ==
    /\ InEvent
    /\ Draw
    /\ UNCHANGED <<versions, rounds, engine, saved>>

(***************************************************************************)
(* set_ckpt, for any object: the round advances with the last of OBJECTS   *)
(* calls.                                                                  *)
(***************************************************************************)
CountCkpt ==
    IF g_ckpt_counter + 1 = OBJECTS
    THEN g_ckpt_counter' = 0 /\ g_epoch_round' = g_epoch_round + 1
    ELSE g_ckpt_counter' = g_ckpt_counter + 1 /\ UNCHANGED g_epoch_round

CkptPhase == phase \in {"init", IF Lazy THEN "epoch" ELSE "flush"}

SetCkpt ==
    /\ CkptPhase
    /\ ~checkpointed
    /\ Primed /\ phase = "init" => \A p \in Pages : last_touched_ts[p] = 0
    /\ SetAllocatorCkpt
    /\ CountCkpt
    /\ checkpointed' = TRUE
    /\ counted' = FALSE
    /\ saved' = [object |-> Object, seeds |-> Drawn]
    /\ last' = "set"
    /\ UNCHANGED <<area, versions, phase, others>>

OtherCkpt ==
    /\ CkptPhase
    /\ others < OBJECTS - 1
    /\ CountCkpt
    /\ others' = others + 1
    /\ UNCHANGED <<allocator, allocator_ckpt, area, last, versions, phase, checkpointed, counted, saved>>

\* A barrier closes the start-up and every flush; all have taken a checkpoint.
StartEpoch ==
    /\ phase \in {"init", "flush"}
    /\ checkpointed
    /\ others = OBJECTS - 1
    /\ phase' = "epoch"
    /\ UNCHANGED <<allocator, allocator_ckpt, area, last, versions, rounds,
                   checkpointed, others, counted, saved>>

\* Every object has been claimed. In a Lazy build the flush only forgets that
\* the objects have a checkpoint.
EndEpoch ==
    /\ phase = "epoch"
    /\ checkpointed /\ others = OBJECTS - 1
    /\ g_epoch_round < MaxRound
    /\ phase' = IF Lazy THEN "epoch" ELSE "flush"
    /\ checkpointed' = FALSE
    /\ others' = 0
    /\ counted' = FALSE
    /\ UNCHANGED <<allocator, allocator_ckpt, area, last, versions, rounds, saved>>

(***************************************************************************)
(* mvmm_region_rollback to the rounds up to `target`.                      *)
(***************************************************************************)
After(ts, target) == ts # NEVER /\ ts > target
Upto(ts, target) == ts # NEVER /\ ts <= target

Listed(target) ==
    (IF After(touched_curr.ts, target) THEN touched_curr.pages ELSE {})
    \cup (IF After(touched_prev.ts, target) THEN touched_prev.pages ELSE {})

\* mmap_mv: the latest slot up to the target is published again.
Published(p, target) ==
    {s \in {0, 1} : /\ Upto(slot_ts[p][s], target)
                    /\ Upto(slot_ts[p][1 - s], target) => 
                          \/ slot_ts[p][s] > slot_ts[p][1 - s]
                          \/ slot_ts[p][s] = slot_ts[p][1 - s] /\ s = 1}

RollbackVersions(target) ==
    LET back == {p \in Listed(target) : Published(p, target) # {}}
    IN  /\ cur_slot' = [p \in Pages |-> IF p \in back THEN CHOOSE s \in Published(p, target) : TRUE
                                        ELSE cur_slot[p]]
        /\ slot_ts' = [p \in Pages |-> [s \in {0, 1} |->
                          IF p \in back /\ After(slot_ts[p][s], target)
                          THEN NEVER ELSE slot_ts[p][s]]]
        /\ last_ts_seen' = [p \in Pages |-> IF p \in back THEN NEVER ELSE last_ts_seen[p]]
        /\ UNCHANGED area

\* The store builds: what was saved after the target is copied back.
RollbackSnapshots(target) ==
    LET back == {p \in Listed(target) : After(slot_ts[p][1], target)}
    IN  /\ area' = [g \in Granules |-> 
                       IF PageOf(g) \in back /\ (Grid => g \in grid_curr) THEN copy[g] ELSE area[g]]
        /\ last_ts_seen' = [p \in Pages |-> IF p \in back THEN NEVER ELSE last_ts_seen[p]]
        /\ UNCHANGED <<slot_ts, cur_slot>>

RestoreObject ==
    /\ phase = "epoch"
    /\ checkpointed
    /\ LET target == IF g_epoch_round >= 1 THEN g_epoch_round - 1 ELSE 0
       IN  IF MV THEN RollbackVersions(target) ELSE RollbackSnapshots(target)
    /\ RestoreAllocator
    /\ last' = "restore"
    /\ counted' = FALSE
    /\ UNCHANGED <<copy, last_touched_ts, touched_curr, touched_prev, grid_curr>>
    /\ UNCHANGED <<rounds, phase, checkpointed, others, saved>>

Next ==
    \/ \E size \in 0..(ChunkSize(NumClasses - 1) + 1) : MallocChunk(size)
    \/ \E k \in Chunks : FreeChunk(k)
    \/ \E g \in Granules, v \in Values : StorePatched(g, v)
    \/ CountEvent
    \/ DrawRandom
    \/ SetCkpt
    \/ OtherCkpt
    \/ StartEpoch
    \/ EndEpoch
    \/ RestoreObject

Spec == Init /\ [][Next]_vars

\* Every variable has its type; a round is one that was reached, or NEVER.
Rounds == 0..MaxRound
TypeOK ==
    /\ MemoryTypeOK
    /\ copy \in [Granules -> Values]
    /\ slot_ts \in [Pages -> [{0, 1} -> Rounds \cup {NEVER}]]
    /\ cur_slot \in [Pages -> {0, 1}]
    /\ last_ts_seen \in [Pages -> Rounds \cup {NEVER}]
    /\ last_touched_ts \in [Pages -> Rounds \cup {NEVER}]
    /\ {touched_curr, touched_prev} \subseteq [pages : SUBSET Pages, ts : Rounds \cup {NEVER}]
    /\ grid_curr \subseteq Granules
    /\ g_epoch_round \in Rounds
    /\ g_ckpt_counter \in 0..(OBJECTS - 1)
    /\ phase \in {"init", "epoch", "flush"}
    /\ checkpointed \in BOOLEAN /\ counted \in BOOLEAN
    /\ others \in 0..(OBJECTS - 1)

(***************************************************************************)
(* A restore gives back the memory and the allocator as they were at the   *)
(* object's last checkpoint: the one round counter of all objects and the  *)
(* two slots of a page are enough to tell the version to go back to.  (Not *)
(* in a Lazy build, whose checkpoints are spread over the epoch.)          *)
(***************************************************************************)
Abstract == INSTANCE Checkpoint WITH object <- Object, checkpoint <- saved.object
RestoresCheckpoint == Abstract!Spec

(***************************************************************************)
(* In the store builds a restore gives back the seeds too, although        *)
(* neither set_ckpt nor restore_object knows of them and the stores of     *)
(* Random are not seen: the page, or the cell, of the seeds is saved by    *)
(* the store that counts the event, if that comes before the event draws.  *)
(***************************************************************************)
SeedsComeBack == ~MV /\ CountsFirst /\ last = "restore" => Drawn = saved.seeds

\* The variables have their types and the allocator never hands out memory twice.
MemoryIntact == TypeOK /\ FreeOnce
=============================================================================
