--------------------------- MODULE GridCheckpoint ---------------------------
(***************************************************************************)
(* The grid checkpoints (grid_ckpt.c with the instrumentation of           *)
(* MVM_GRID_CKPT and MVM_GRID_CKPT_BS).  The area of an object is cut in   *)
(* granules of MOD bytes, whatever the chunks; above it lie a copy of the  *)
(* same size and a bitmap of granules.  In the first build the code run    *)
(* before a store saves the granules the store may change, once; in the    *)
(* second (BS) it only marks them, and a checkpoint copies the whole area. *)
(*                                                                         *)
(* The instrumentation knows the address of a store and not its width: a   *)
(* store that starts inside a granule is taken to reach the next one, a    *)
(* store that starts a granule to stay in it.  That is enough while no     *)
(* store is wider than MOD, which is what the -O0 build of the models      *)
(* generates for the default MOD of 8.                                     *)
(***************************************************************************)
EXTENDS ObjectAllocator

CONSTANTS 
    Build,          \* "GRID_CKPT" or "GRID_CKPT_BS"
    MOD,            \* bytes of a granule (8, 16, 32 or 64)
    ThroughRax      \* stores are addressed through the register rax

VARIABLES
    copy,           \* the granules ALLOCATOR_AREA_SIZE above those of the area
    bitmap,         \* the granules saved or marked
    object_seeds    \* the seeds at the checkpoint

vars == <<allocator, allocator_ckpt, area, last, copy, bitmap, object_seeds>>

BS == Build = "GRID_CKPT_BS"
LastGranule == NumClasses * SEGMENT - 1

Init ==
    /\ SetUp
    /\ copy = [g \in Granules |-> 0]
    /\ bitmap = {}
    /\ object_seeds = 0

MallocChunk(size) ==
    /\ \E k \in Chunks : Malloc(size, k)
    /\ UNCHANGED <<copy, bitmap, object_seeds>>

FreeChunk(k) ==
    /\ Free(k)
    /\ UNCHANGED <<copy, bitmap, object_seeds>>

(***************************************************************************)
(* ckpt_assembly.  The code of the first build compares the last granule   *)
(* with ALLOCATOR_AREA_SIZE - 8, so that for a MOD above 8 it does not     *)
(* stop there and wraps to granule 0.  BS sets the bit after the last one, *)
(* in the spare byte of the bitmap.                                        *)
(***************************************************************************)
Following(g) ==
    IF g < LastGranule \/ BS THEN {g + 1}
    ELSE IF MOD = 8 THEN {} ELSE {0}

(***************************************************************************)
(* The granule the code takes for the one stored into.  BS saves the flags *)
(* with lahf, over bits 8 to 15 of rax, before the lea that computes the   *)
(* address: through rax, it may be any granule of the object's block.      *)
(***************************************************************************)
Addressed(g) == IF BS /\ ThroughRax THEN Granules ELSE {g}

Reached(g, aligned) == {g} \cup (IF aligned THEN {} ELSE Following(g))

CkptAssembly(g, aligned) ==
    /\ bitmap' = bitmap \cup Reached(g, aligned)
    /\ copy' = IF BS THEN copy
               ELSE [h \in Granules |-> IF h \in Reached(g, aligned) \ bitmap
                                        THEN area[h] ELSE copy[h]]

(***************************************************************************)
(* A store instruction of the model: aligned or not, it changes the        *)
(* granule it starts in, or that and the next one, within the chunk the    *)
(* model holds.                                                            *)
(***************************************************************************)
StoreInGrid(g, aligned, written, v) ==
    /\ \A h \in written : h \in Granules /\ ChunkOf(h) = ChunkOf(g)
    /\ ChunkOf(g) \in Live
    /\ \E at \in Addressed(g) : CkptAssembly(at, aligned)
    /\ Store(written, v)
    /\ UNCHANGED object_seeds

DrawRandom ==
    /\ Draw
    /\ UNCHANGED <<copy, bitmap, object_seeds>>

SetCkpt ==
    /\ object_seeds' = area[SeedGranule]
    /\ SetAllocatorCkpt
    /\ copy' = IF BS THEN area ELSE copy
    /\ bitmap' = {}
    /\ last' = "set"
    /\ UNCHANGED area

(***************************************************************************)
(* restore_object: the allocator, every granule whose bit is set           *)
(* (_restore_area), and then the seeds.                                    *)
(***************************************************************************)
Reloaded == [g \in Granules |-> IF g \in bitmap THEN copy[g] ELSE area[g]]

RestoreObject ==
    /\ last # "init"
    /\ RestoreAllocator
    /\ area' = [Reloaded EXCEPT ![SeedGranule] = object_seeds]
    /\ bitmap' = {}
    /\ last' = "restore"
    /\ UNCHANGED <<copy, object_seeds>>

Next ==
    \/ \E size \in 0..(ChunkSize(NumClasses - 1) + 1) : MallocChunk(size)
    \/ \E k \in Chunks : FreeChunk(k)
    \/ \E g \in Granules, v \in Values : StoreInGrid(g, TRUE, {g}, v)
    \/ \E g \in Granules, v \in Values :
          \E written \in {{g}, {g, g + 1}} : StoreInGrid(g, FALSE, written, v)
    \/ DrawRandom
    \/ SetCkpt
    \/ RestoreObject

Spec == Init /\ [][Next]_vars

\* Every variable has its type; BS marks the spare bit after the last granule.
TypeOK ==
    /\ MemoryTypeOK
    /\ copy \in [Granules -> Values]
    /\ bitmap \subseteq Granules \cup (IF BS THEN {LastGranule + 1} ELSE {})
    /\ object_seeds \in Values

(***************************************************************************)
(* The object as the model observes it, and what a restore would make of   *)
(* it: in both builds every byte of the area comes back, as the memcmp of  *)
(* the DEBUG build checks.                                                 *)
(***************************************************************************)
Object == [heap |-> area, free |-> FreeStack(addresses, top_elem)]

Recoverable == [heap |-> [Reloaded EXCEPT ![SeedGranule] = object_seeds],
                free |-> FreeStack(addresses_ckpt, top_elem_ckpt)]

(***************************************************************************)
(* A restore gives back the whole area as the last checkpoint saw it, the  *)
(* seeds included, whichever granules each store reached, and whichever    *)
(* granules the code saved for it.                                         *)
(***************************************************************************)
Abstract == INSTANCE Checkpoint WITH object <- Object, checkpoint <- Recoverable
RestoresCheckpoint == Abstract!Spec

(***************************************************************************)
(* "ERROR: object %d restore failed" (grid_ckpt.c:53): the DEBUG build of  *)
(* BS compares, after a restore, the area with the shadow it took at the   *)
(* checkpoint, which the copy is.                                          *)
(***************************************************************************)
RestoreComplete == BS /\ last = "restore" => area = copy

\* The variables have their types and the allocator never hands out memory twice.
MemoryIntact == TypeOK /\ FreeOnce
=============================================================================
