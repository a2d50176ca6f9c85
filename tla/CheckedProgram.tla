--------------------------- MODULE CheckedProgram ---------------------------
(***************************************************************************)
(* What a checkpointing scheme expects of the instrumentation: the program *)
(* runs as it was written, instruction after instruction, except that the  *)
(* code of the scheme runs exactly once, for its operand, before every     *)
(* instruction that accesses the memory of an object.                      *)
(***************************************************************************)
EXTENDS Sequences, SequencesExt

VARIABLES
    program,    \* the instructions, each with its address and what may follow it
    accesses,   \* addresses of those that access an object
    at,         \* the instruction to be performed next
    checked     \* the code of the scheme has run for it

Init == at = program[1].address /\ ~checked

Check == 
    /\ at \in accesses
    /\ ~checked
    /\ checked'
    /\ at' = at

Perform ==
    /\ at \in accesses => checked
    /\ \E l \in ToSet(program) : l.address = at /\ at' \in l.to
    /\ ~checked'

Next == 
    /\ Check \/ Perform
    /\ UNCHANGED <<program, accesses>>

Spec == Init /\ [][Next]_<<program, accesses, at, checked>>
=============================================================================
