----------------------------- MODULE BarrierSync ----------------------------
(***************************************************************************)
(* The reusable spin barrier of queue/barrier-synchronization.c: two       *)
(* shared counters and no lock. Every step below is one access to shared   *)
(* memory (the file is compiled without optimisation, so each loop really  *)
(* reads the counters again).                                              *)
(***************************************************************************)
EXTENDS Integers, FiniteSets

CONSTANT Threads    \* the THREADS worker threads

ASSUME ThreadsAssumption == IsFiniteSet(Threads) /\ Threads # {}

THREADS == Cardinality(Threads)

VARIABLES
    control_counter,  \* arrivals of the round; THREADS between two rounds
    era_counter,      \* departures of the round; THREADS between two rounds
    pc,               \* the next statement of each thread
    ret               \* the local variable ret of each thread

vars == <<control_counter, era_counter, pc, ret>>

Labels == {"out", "era_read", "control_read", "cas", "reset", "arrive", "wait", "leave"}

TypeOK ==
    /\ control_counter \in 0..THREADS
    /\ era_counter \in 0..THREADS
    /\ pc \in [Threads -> Labels]
    /\ ret \in [Threads -> BOOLEAN]

Init ==
    /\ control_counter = THREADS
    /\ era_counter = THREADS
    /\ pc = [t \in Threads |-> "out"]
    /\ ret = [t \in Threads |-> FALSE]

Goto(t, label) == pc' = [pc EXCEPT ![t] = label]

Call(t) ==
    /\ pc[t] = "out"
    /\ Goto(t, "era_read")
    /\ UNCHANGED <<control_counter, era_counter, ret>>

\* A defect the checks must notice: a thread enters while a round is drained.
ReadEra_Once(t) ==
    /\ pc[t] = "era_read"
    /\ Goto(t, "cas")
    /\ UNCHANGED <<control_counter, era_counter, ret>>

\* while (era_counter != THREADS && control_counter == THREADS): two reads, in
\* this order, between which any other thread may run.
ReadEra(t) ==
    /\ pc[t] = "era_read"
    /\ Goto(t, IF era_counter = THREADS THEN "cas" ELSE "control_read")
    /\ UNCHANGED <<control_counter, era_counter, ret>>

ReadControl(t) ==
    /\ pc[t] = "control_read"
    /\ Goto(t, IF control_counter = THREADS THEN "era_read" ELSE "cas")
    /\ UNCHANGED <<control_counter, era_counter, ret>>

\* The first arrival of a round opens it and is the thread elected.
CompareAndSwap(t) ==
    /\ pc[t] = "cas"
    /\ ret' = [ret EXCEPT ![t] = control_counter = THREADS]
    /\ \/ /\ control_counter = THREADS
          /\ control_counter' = 0
          /\ Goto(t, "reset")
       \/ /\ control_counter # THREADS
          /\ Goto(t, "arrive")
          /\ UNCHANGED control_counter
    /\ UNCHANGED era_counter

\* A defect: the departures of the last round are not reset.
ResetEra_Missing(t) ==
    /\ pc[t] = "reset"
    /\ Goto(t, "arrive")
    /\ UNCHANGED <<control_counter, era_counter, ret>>

ResetEra(t) ==
    /\ pc[t] = "reset"
    /\ era_counter' = 0
    /\ Goto(t, "arrive")
    /\ UNCHANGED <<control_counter, ret>>

Arrive(t) ==
    /\ pc[t] = "arrive"
    /\ control_counter' = control_counter + 1
    /\ Goto(t, "wait")
    /\ UNCHANGED <<era_counter, ret>>

\* while (control_counter != THREADS): the spinning iterations are stuttering.
StopWaiting(t) ==
    /\ pc[t] = "wait"
    /\ control_counter = THREADS
    /\ Goto(t, "leave")
    /\ UNCHANGED <<control_counter, era_counter, ret>>

\* A defect: departures are not counted.
Leave_Uncounted(t) ==
    /\ pc[t] = "leave"
    /\ Goto(t, "out")
    /\ UNCHANGED <<control_counter, era_counter, ret>>

Leave(t) ==
    /\ pc[t] = "leave"
    /\ era_counter' = era_counter + 1
    /\ Goto(t, "out")
    /\ UNCHANGED <<control_counter, ret>>

Inside(t) ==
    \/ ReadEra(t) \/ ReadControl(t) \/ CompareAndSwap(t) \/ ResetEra(t)
    \/ Arrive(t) \/ StopWaiting(t) \/ Leave(t)

Next == \E t \in Threads : Call(t) \/ Inside(t)

Spec == Init /\ [][Next]_vars

\* The operating system runs every thread, and every thread runs on its own
\* CPU; a thread is free never to call barrier() again.
FairSpec == Spec /\ \A t \in Threads : WF_vars(Inside(t))

-----------------------------------------------------------------------------
At(label) == {t \in Threads : pc[t] = label}

Waiting == At("wait")
Leaving == At("leave")

\* Between two rounds the departures still to be counted are exactly the
\* threads that have not left yet, and nobody can open the next round.
Closed ==
    /\ control_counter = THREADS
    /\ At("reset") \cup At("arrive") = {}
    /\ era_counter = THREADS - Cardinality(Waiting \cup Leaving)
    /\ At("cas") # {} => Waiting \cup Leaving = {}

\* While a round is open the arrivals counted are exactly the waiting threads,
\* nobody has left, and exactly one thread has been elected.
Open ==
    /\ control_counter = Cardinality(Waiting)
    /\ Waiting # Threads
    /\ Leaving = {}
    /\ era_counter = (IF At("reset") = {} THEN 0 ELSE THREADS)
    /\ \E w \in At("reset") \cup At("arrive") \cup Waiting :
          /\ ret[w]
          /\ \A t \in At("reset") \cup At("arrive") \cup Waiting : ret[t] => t = w
    /\ \A t \in At("reset") : ret[t]

\* The two counters always agree with where the threads are: this is what
\* makes the barrier reusable without a lock (lines 17-30).
CountersAgree == Closed \/ Open

\* The barrier as its callers see it: a thread is released as soon as the last
\* arrival has been counted.
Phase(t) ==
    IF pc[t] = "out" THEN "out"
    ELSE IF pc[t] = "leave" \/ (pc[t] = "wait" /\ control_counter = THREADS) THEN "leaving"
    ELSE "in"

Promise == INSTANCE Rendezvous WITH
    phase <- [t \in Threads |-> Phase(t)],
    lead <- [t \in Threads |-> Phase(t) = "leaving" /\ ret[t]]

\* Nobody passes the barrier before everybody has reached it, in any round, and
\* one thread per round, no more and no fewer, is told to update the timing
\* (engine and queue.c:543 rely on both).
ImplementsRendezvous == Promise!Spec

\* A round that everybody has entered ends for everybody: no thread is left
\* spinning on a counter that a faster thread has already recycled.
RoundsEnd == Promise!LiveSpec
=============================================================================
