--------------------------- MODULE DebugCheckpoint ---------------------------
(***************************************************************************)
(* The chunk checkpoints as the DEBUG build of chunk_ckpt.c watches them:  *)
(* set_ckpt copies the whole area of the object to a shadow, whatever the  *)
(* scheme saves of it, and restore_object compares the two.  The shadow is *)
(* mapped by the first checkpoint, before which nothing is restored.       *)
(***************************************************************************)
EXTENDS ChunkCheckpoint

VARIABLE shadow_area    \* the granules of the area at the checkpoint

DebugInit == Init /\ shadow_area = [g \in Granules |-> 0]

DebugSetCkpt == SetCkpt /\ shadow_area' = area

DebugNext ==
    \/ DebugSetCkpt
    \/ (RunObject \/ RestoreObject) /\ UNCHANGED shadow_area

debug_vars == <<vars, shadow_area>>
DebugSpec == DebugInit /\ [][DebugNext]_debug_vars

(***************************************************************************)
(* "ERROR: object %d restore failed" (chunk_ckpt.c:48): the area is, after *)
(* a restore, what it was at the checkpoint, every byte of it.  That is    *)
(* more than the model can observe: it includes the chunks that were free  *)
(* at the checkpoint, which CHUNK_FULL never copies back.                  *)
(***************************************************************************)
RestoreComplete == last = "restore" => area = shadow_area
=============================================================================
