--------------------------- MODULE ChunkCheckpoint ---------------------------
(***************************************************************************)
(* The chunk checkpoints (chunk_ckpt.c with the chunk code of memory.c).   *)
(* The CHUNK_BASED_SAVE build saves a chunk the first time it is stored    *)
(* into after a checkpoint; the CHUNK_FULL build saves, at a checkpoint,   *)
(* every chunk in use.  The copies live MAX_MEMORY above the area.         *)
(***************************************************************************)
EXTENDS ObjectAllocator

CONSTANT Build      \* "CHUNK_BASED_SAVE" or "CHUNK_FULL"

VARIABLES
    copy,           \* the granules MAX_MEMORY above those of the area
    bitmap,         \* SAVE: the chunks saved; FULL: the chunks in use
    bitmap_ckpt,    \* FULL: the chunks in use at the checkpoint
    object_seeds    \* the seeds at the checkpoint

vars == <<allocator, allocator_ckpt, area, last, copy, bitmap, bitmap_ckpt, object_seeds>>

Full == Build = "CHUNK_FULL"

Init ==
    /\ SetUp
    /\ copy = [g \in Granules |-> 0]
    /\ bitmap = IF Full THEN {StateChunk} ELSE {}
    /\ bitmap_ckpt = {}
    /\ object_seeds = 0

MallocChunk(size) == 
    \E k \in Chunks :
        /\ Malloc(size, k)
        /\ bitmap' = IF Full THEN bitmap \cup {k} ELSE bitmap
        /\ UNCHANGED <<copy, bitmap_ckpt, object_seeds>>

FreeChunk(k) ==
    /\ Free(k)
    /\ bitmap' = IF Full THEN bitmap \ {k} ELSE bitmap
    /\ UNCHANGED <<copy, bitmap_ckpt, object_seeds>>

\* Memory copies of whole chunks, up to the copies and back.
Saved(chunks) == [g \in Granules |-> IF ChunkOf(g) \in chunks THEN area[g] ELSE copy[g]]
Reloaded(chunks) == [g \in Granules |-> IF ChunkOf(g) \in chunks THEN copy[g] ELSE area[g]]

(***************************************************************************)
(* ckpt_chunk, called before the store by the instrumentation.             *)
(***************************************************************************)
CkptChunk(k) ==
    IF Full THEN UNCHANGED <<copy, bitmap>>
    ELSE /\ copy' = IF k \in bitmap THEN copy ELSE Saved({k})
         /\ bitmap' = bitmap \cup {k}

StoreInChunk(g, v) ==
    /\ ChunkOf(g) \in Live
    /\ CkptChunk(ChunkOf(g))
    /\ Store({g}, v)
    /\ UNCHANGED <<bitmap_ckpt, object_seeds>>

DrawRandom == 
    /\ Draw
    /\ UNCHANGED <<copy, bitmap, bitmap_ckpt, object_seeds>>

(***************************************************************************)
(* set_ckpt: the seeds, the allocator (which empties the bitmap of saved   *)
(* chunks), and with CHUNK_FULL the chunks in use.                         *)
(***************************************************************************)
SetCkpt == 
    /\ object_seeds' = area[SeedGranule]
    /\ SetAllocatorCkpt
    /\ IF Full
       THEN /\ bitmap_ckpt' = bitmap
            /\ copy' = Saved(bitmap)
            /\ bitmap' = bitmap
       ELSE /\ bitmap' = {}
            /\ UNCHANGED <<bitmap_ckpt, copy>>
    /\ last' = "set"
    /\ UNCHANGED area

(***************************************************************************)
(* restore_object: the allocator, the chunks, and then the seeds, which    *)
(* the chunk of the state brings back as they were when it was saved.      *)
(***************************************************************************)
\* Mutant: the seeds first, then the chunks over them.
RestoreSeedsFirst ==
    /\ last # "init"
    /\ RestoreAllocator
    /\ area' = Reloaded(IF Full THEN bitmap_ckpt ELSE bitmap)
    /\ bitmap' = IF Full THEN bitmap_ckpt ELSE {}
    /\ last' = "restore"
    /\ UNCHANGED <<copy, bitmap_ckpt, object_seeds>>

RestoreObject ==
    /\ last # "init"
    /\ RestoreAllocator
    /\ area' = [Reloaded(IF Full THEN bitmap_ckpt ELSE bitmap) EXCEPT ![SeedGranule] = object_seeds]
    /\ bitmap' = IF Full THEN bitmap_ckpt ELSE {}
    /\ last' = "restore"
    /\ UNCHANGED <<copy, bitmap_ckpt, object_seeds>>

\* The simulation model runs.
RunObject ==
    \/ \E size \in 0..(ChunkSize(NumClasses - 1) + 1) : MallocChunk(size)
    \/ \E k \in Chunks : FreeChunk(k)
    \/ \E g \in Granules, v \in Values : StoreInChunk(g, v)
    \/ DrawRandom

Next == RunObject \/ SetCkpt \/ RestoreObject

Spec == Init /\ [][Next]_vars

\* Every variable has its type, whatever the build.
TypeOK ==
    /\ MemoryTypeOK
    /\ copy \in [Granules -> Values]
    /\ bitmap \subseteq Chunks
    /\ bitmap_ckpt \subseteq Chunks
    /\ object_seeds \in Values

(***************************************************************************)
(* The object as the model observes it, and what a restore would make of   *)
(* it.  CHUNK_BASED_SAVE gives back every byte of the area, CHUNK_FULL the *)
(* chunks in use at the checkpoint and nothing of the others, which the    *)
(* model does not hold after the restore.  The DEBUG build asks for every  *)
(* byte of both: DebugCheckpoint.                                          *)
(***************************************************************************)
Visible(chunks) == IF Full THEN GranulesOf(chunks) ELSE Granules

Object == [heap |-> [g \in Visible(Live) |-> area[g]],
           free |-> FreeStack(addresses, top_elem)]

Recoverable == [heap |-> [g \in Visible(LiveAtCkpt) |->
                             IF g = SeedGranule THEN object_seeds
                             ELSE Reloaded(IF Full THEN bitmap_ckpt ELSE bitmap)[g]],
                free |-> FreeStack(addresses_ckpt, top_elem_ckpt)]

(***************************************************************************)
(* A restore gives back what the last checkpoint saw, however the model    *)
(* allocated, freed, stored, drew and rolled back in between.              *)
(***************************************************************************)
Abstract == INSTANCE Checkpoint WITH object <- Object, checkpoint <- Recoverable
RestoresCheckpoint == Abstract!Spec

(***************************************************************************)
(* With CHUNK_FULL the usage bitmap, kept apart from the allocator, always *)
(* tells the chunks the model holds: malloc, free and both halves of the   *)
(* rollback keep the two in step, now and at the checkpoint.               *)
(***************************************************************************)
UsageIsLive == 
    Full => /\ bitmap = Live
            /\ last # "init" => bitmap_ckpt = LiveAtCkpt

\* The variables have their types, the allocator never hands out memory twice
\* (FreeOnce), and the bitmap of CHUNK_FULL tells the chunks that are held.
MemoryIntact == TypeOK /\ FreeOnce /\ UsageIsLive
=============================================================================
