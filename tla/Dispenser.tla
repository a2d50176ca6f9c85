------------------------------ MODULE Dispenser ------------------------------
(***************************************************************************)
(* What queue_extract relies on when it asks for its next object: in each  *)
(* epoch every object is handed out once, and no thread is sent to the     *)
(* barrier while an object is left.                                        *)
(***************************************************************************)
CONSTANTS Threads, Objects, Nothing

VARIABLES
    left,   \* the objects not handed out in this epoch
    has,    \* the object each thread has got, or Nothing
    refused \* the threads that have been told that no object is left

vars == <<left, has, refused>>

Init ==
    /\ left = Objects
    /\ has = [t \in Threads |-> Nothing]
    /\ refused = {}

Give(t) ==
    /\ t \notin refused
    /\ \E o \in left :
          /\ left' = left \ {o}
          /\ has' = [has EXCEPT ![t] = o]
    /\ UNCHANGED refused

Refuse(t) ==
    /\ left = {}
    /\ has' = [has EXCEPT ![t] = Nothing]
    /\ refused' = refused \cup {t}
    /\ UNCHANGED left

\* The thread is done with its object, or has found work elsewhere.
PutDown(t) ==
    /\ has' = [has EXCEPT ![t] = Nothing]
    /\ refused' = refused \ {t}
    /\ UNCHANGED left

NewEpoch ==
    /\ refused = Threads
    /\ left' = Objects
    /\ has' = [t \in Threads |-> Nothing]
    /\ refused' = {}

Next == NewEpoch \/ \E t \in Threads : Give(t) \/ Refuse(t) \/ PutDown(t)

Spec == Init /\ [][Next]_vars
=============================================================================
