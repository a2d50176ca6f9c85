----------------------------- MODULE Rendezvous -----------------------------
(***************************************************************************)
(* What barrier() promises to the engine: nobody leaves a round before     *)
(* every worker thread has entered it, and in each round exactly one       *)
(* thread gets the return value 1 (it then runs update_timing alone).      *)
(* The detailed algorithm is in BarrierSync.                               *)
(***************************************************************************)
CONSTANT Threads

VARIABLES
    phase,  \* where each thread is: outside, waiting in the round, released
    lead    \* lead[t]: t is released and barrier() is about to return 1 to it

vars == <<phase, lead>>

Init ==
    /\ phase = [t \in Threads |-> "out"]
    /\ lead = [t \in Threads |-> FALSE]

Enter(t) ==
    /\ phase[t] = "out"
    /\ phase' = [phase EXCEPT ![t] = "in"]
    /\ UNCHANGED lead

\* The last arrival releases the whole round and one thread is elected.
Release ==
    /\ \A t \in Threads : phase[t] = "in"
    /\ phase' = [t \in Threads |-> "leaving"]
    /\ \E w \in Threads : lead' = [t \in Threads |-> t = w]

Return(t) ==
    /\ phase[t] = "leaving"
    /\ phase' = [phase EXCEPT ![t] = "out"]
    /\ lead' = [lead EXCEPT ![t] = FALSE]

Next == Release \/ \E t \in Threads : Enter(t) \/ Return(t)

Spec == Init /\ [][Next]_vars

\* The barrier owes progress to a full round, and no thread owes an arrival.
LiveSpec ==
    /\ Spec
    /\ WF_vars(Release)
    /\ \A t \in Threads : WF_vars(Return(t))
=============================================================================
