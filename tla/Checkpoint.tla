----------------------------- MODULE Checkpoint -----------------------------
(***************************************************************************)
(* What the engine expects of a checkpointing scheme, whichever one is     *)
(* compiled in (set_ckpt and restore_object, called by engine.c, queue.c   *)
(* and speculation.c): between two checkpoints the simulation model may do *)
(* anything to its object, and a restore gives back exactly the object the *)
(* last checkpoint saw.  The object is whatever the model can observe: the *)
(* memory it holds, the order in which the allocator will hand out the     *)
(* rest (a replayed malloc must return the same pointer) and its seeds.    *)
(***************************************************************************)

VARIABLES
    object,         \* what the simulation model observes
    checkpoint,     \* what a restore would make of it
    last            \* the last call: "init", "run", "set" or "restore"

Init == last = "init"

(***************************************************************************)
(* The model runs.  Before the first checkpoint (the INIT event) there is  *)
(* nothing to give back.                                                   *)
(***************************************************************************)
Run == /\ last' = IF last = "init" THEN "init" ELSE "run"
       /\ last # "init" => checkpoint' = checkpoint

Set == /\ last' = "set"
       /\ checkpoint' = object
       /\ object' = object

Restore == /\ last # "init"
           /\ last' = "restore"
           /\ object' = checkpoint
           /\ checkpoint' = checkpoint

Next == Run \/ Set \/ Restore

Spec == Init /\ [][Next]_<<object, checkpoint, last>>
=============================================================================
