------------------------- MODULE ConservativeEngine -------------------------
(***************************************************************************)
(* The build of PARSIR without SPECULATION: worker threads take the        *)
(* objects of a window one by one, execute the events in their current     *)
(* slot, and meet at the barrier that moves the window.  Nothing is ever   *)
(* undone: the order of execution rests on the slots, on the fallback      *)
(* queues and on models that respect the lookahead.                        *)
(* Sources: queue/queue.c, stubs/stubs.c and the thread function of        *)
(* engine/engine.c, with one dispenser of objects (no NUMA_BALANCING).     *)
(*                                                                         *)
(* As in SpeculativeEngine, one step is the code between two points where  *)
(* another thread can interfere, and time is counted in ticks.             *)
(***************************************************************************)
EXTENDS Integers, Sequences, FiniteSets, SequencesExt, FiniteSetsExt, Functions

CONSTANTS
    Threads,        \* worker threads
    OBJECTS,        \* number of simulation objects
    Kinds,          \* the events of a run: each is scheduled at most once
    Models,         \* the simulation models: what each event schedules
    HomeThread,     \* the thread that runs the INIT event of each object
    LOOKAHEAD,      \* width of a window and of a slot, in ticks
    NUM_SLOTS       \* slots of an input queue

Objects == 0..(OBJECTS - 1)
Slots == 0..(NUM_SLOTS - 1)
NoObject == -1

VARIABLES
    model,                  \* the simulation model linked with the runtime
    queue,                  \* input queue of each object, one list per slot
    fallback_queue,         \* events beyond the last slot, per thread
    pending_events,         \* the counter that ends the simulation
    object_identifiers,     \* the dispenser
    epochs, end,
    inited,                 \* objects whose INIT event has been executed
    executed,               \* state of each object: the events applied to it
    pc, target, my_index, outbox    \* per thread

queues == <<queue, fallback_queue, pending_events>>
window == <<object_identifiers, epochs, end>>
vars == <<model, queues, window, inited, executed, pc, target, my_index, outbox>>

Labels == {"init", "started", "dispense", "extract", "process", "quiet", "fallback", "ready",
           "done"}

ConservativeAssumption ==
    /\ OBJECTS \in Nat \ {0} /\ LOOKAHEAD \in Nat \ {0} /\ NUM_SLOTS \in Nat \ {0}
    /\ HomeThread \in [Objects -> Threads]

\* Every event has one cause: INIT of one object, or one other event.
Causes == ({"init"} \X Objects) \cup ({"event"} \X Kinds)
CausedBy(m, c) == IF c[1] = "init" THEN m.init[c[2]] ELSE m.next[c[2]]
ScheduledOnce ==
    \A m \in Models : \A c, d \in Causes :
        \A i \in DOMAIN CausedBy(m, c), j \in DOMAIN CausedBy(m, d) :
            CausedBy(m, c)[i] = CausedBy(m, d)[j] => c = d /\ i = j

-----------------------------------------------------------------------------
(* Time, slots and lists *)

current_min_limit == epochs * LOOKAHEAD
current_max_limit == current_min_limit + NUM_SLOTS * LOOKAHEAD

\* Mutant: the index runs out of the slots.
current_index_Unwrapped == epochs
current_index == epochs % NUM_SLOTS

Dest(k) == model.dest[k]
Time(k) == model.time[k]
SlotOf(k) == (Time(k) \div LOOKAHEAD) % NUM_SLOTS

\* Mutant: the new event goes to the head.
InsertInOrder_AtHead(q, k) == <<k>> \o q

\* Insertion behind the leading events that are not later.
InsertInOrder(q, k) ==
    LET n == Cardinality({i \in DOMAIN q : \A j \in 1..i : Time(q[j]) <= Time(k)})
    IN  SubSeq(q, 1, n) \o <<k>> \o SubSeq(q, n + 1, Len(q))

Insert(k) == queue' = [queue EXCEPT ![Dest(k)][SlotOf(k)] = InsertInOrder(@, k)]

Goto(t, label) == pc' = [pc EXCEPT ![t] = label]

\* Mutant: what is put beyond the last slot is not counted.
QueueInsert_FallbackUncounted(t, k) ==
    IF Time(k) < current_min_limit
    THEN UNCHANGED queues
    ELSE IF Time(k) < current_max_limit
    THEN Insert(k) /\ pending_events' = pending_events + 1 /\ UNCHANGED fallback_queue
    ELSE /\ fallback_queue' = [fallback_queue EXCEPT ![t] = Append(@, k)]
         /\ UNCHANGED <<queue, pending_events>>

\* queue_insert by thread t: an event of the past is refused, one beyond the
\* last slot goes to the fallback queue of the thread.
QueueInsert(t, k) ==
    IF Time(k) < current_min_limit
    THEN UNCHANGED queues
    ELSE /\ pending_events' = pending_events + 1
         /\ IF Time(k) < current_max_limit
            THEN Insert(k) /\ UNCHANGED fallback_queue
            ELSE /\ fallback_queue' = [fallback_queue EXCEPT ![t] = Append(@, k)]
                 /\ UNCHANGED queue

-----------------------------------------------------------------------------
Init ==
    /\ model \in Models
    /\ queue = [o \in Objects |-> [s \in Slots |-> <<>>]]
    /\ fallback_queue = [t \in Threads |-> <<>>]
    /\ pending_events = 0
    /\ object_identifiers = 0
    /\ epochs = 0
    /\ end = FALSE
    /\ inited = {}
    /\ executed = [o \in Objects |-> <<>>]
    /\ pc = [t \in Threads |-> "init"]
    /\ target = [t \in Threads |-> NoObject]
    /\ my_index = [t \in Threads |-> 0]
    /\ outbox = [t \in Threads |-> <<>>]

\* The thread runs the INIT event of its next object.
InitObject(t) ==
    /\ pc[t] = "init"
    /\ outbox[t] = <<>>
    /\ \E o \in Objects \ inited :
          /\ HomeThread[o] = t
          /\ \A p \in Objects \ inited : HomeThread[p] = t => o <= p
          /\ inited' = inited \cup {o}
          /\ outbox' = [outbox EXCEPT ![t] = model.init[o]]
    /\ UNCHANGED <<model, queues, window, executed, pc, target, my_index>>

InitDone(t) ==
    /\ pc[t] = "init"
    /\ outbox[t] = <<>>
    /\ \A o \in Objects \ inited : HomeThread[o] # t
    /\ Goto(t, "started")
    /\ UNCHANGED <<model, queues, window, inited, executed, target, my_index, outbox>>

\* ScheduleNewEvent, by INIT or by the event being executed.
ScheduleNewEvent(t) ==
    /\ pc[t] \in {"init", "process"}
    /\ outbox[t] # <<>>
    /\ QueueInsert(t, Head(outbox[t]))
    /\ outbox' = [outbox EXCEPT ![t] = Tail(@)]
    /\ UNCHANGED <<model, window, inited, executed, pc, target, my_index>>

-----------------------------------------------------------------------------
(* queue_extract *)

\* Mutant: the identifier is not taken atomically.
Dispense_Torn(t) ==
    /\ pc[t] = "dispense"
    /\ ~end
    /\ \E n \in {object_identifiers, object_identifiers + 1} : object_identifiers' = Min({n, OBJECTS})
    /\ target' = [target EXCEPT ![t] = object_identifiers]
    /\ Goto(t, IF object_identifiers < OBJECTS THEN "extract" ELSE "quiet")
    /\ UNCHANGED <<model, queues, epochs, end, inited, executed, my_index, outbox>>

\* The next object identifier; all identifiers from OBJECTS on are alike and
\* send the thread to the barrier.
Dispense(t) ==
    /\ pc[t] = "dispense"
    /\ ~end
    /\ target' = [target EXCEPT ![t] = object_identifiers]
    /\ IF object_identifiers < OBJECTS
       THEN object_identifiers' = object_identifiers + 1 /\ Goto(t, "extract")
       ELSE UNCHANGED object_identifiers /\ Goto(t, "quiet")
    /\ UNCHANGED <<model, queues, epochs, end, inited, executed, my_index, outbox>>

\* if (end) return NULL: the thread function returns.
Finish(t) ==
    /\ pc[t] = "dispense"
    /\ end
    /\ Goto(t, "done")
    /\ UNCHANGED <<model, queues, window, inited, executed, target, my_index, outbox>>

Slot(t) == queue[target[t]][my_index[t]]

\* The slot, read without its lock, is empty: try with another object.
Empty(t) ==
    /\ pc[t] = "extract"
    /\ Slot(t) = <<>>
    /\ Goto(t, "dispense")
    /\ UNCHANGED <<model, queues, window, inited, executed, target, my_index, outbox>>

\* The first event of the slot leaves it and is executed.  (The slot is tested
\* again under its lock, with the same outcome: nobody else takes from it.)
Extract(t) ==
    /\ pc[t] = "extract"
    /\ Slot(t) # <<>>
    /\ queue' = [queue EXCEPT ![target[t]][my_index[t]] = Tail(@)]
    /\ pending_events' = pending_events - 1
    /\ executed' = [executed EXCEPT ![target[t]] = Append(@, Head(Slot(t)))]
    /\ outbox' = [outbox EXCEPT ![t] = model.next[Head(Slot(t))]]
    /\ Goto(t, "process")
    /\ UNCHANGED <<model, fallback_queue, window, inited, target, my_index>>

\* ProcessEvent has returned, and the thread comes back for the same object.
GetEvent(t) ==
    /\ pc[t] = "process"
    /\ outbox[t] = <<>>
    /\ Goto(t, "extract")
    /\ UNCHANGED <<model, queues, window, inited, executed, target, my_index, outbox>>

-----------------------------------------------------------------------------
(* The end of a window *)

\* Mutant: the simulation ends one event too early.
UpdateTiming_LastEvent ==
    /\ \A t \in Threads : pc[t] = "quiet"
    /\ epochs' = epochs + 1
    /\ object_identifiers' = 0
    /\ end' = (end \/ pending_events <= 1)
    /\ pc' = [t \in Threads |-> "fallback"]
    /\ UNCHANGED <<model, queues, inited, executed, target, my_index, outbox>>

\* update_timing, by the thread the barrier elects; the others wait for it.
UpdateTiming ==
    /\ \A t \in Threads : pc[t] = "quiet"
    /\ epochs' = epochs + 1
    /\ object_identifiers' = 0
    /\ end' = (end \/ pending_events = 0)
    /\ pc' = [t \in Threads |-> "fallback"]
    /\ UNCHANGED <<model, queues, inited, executed, target, my_index, outbox>>

\* fallback_check: the events that the last slot has reached.
Due(t) == {i \in DOMAIN fallback_queue[t] : Time(fallback_queue[t][i]) < current_max_limit}

FallbackInsert(t) ==
    /\ pc[t] = "fallback"
    /\ \E i \in Due(t) :
          /\ \A j \in Due(t) : i <= j
          /\ Insert(fallback_queue[t][i])
          /\ fallback_queue' = [fallback_queue EXCEPT ![t] = RemoveAt(@, i)]
    /\ UNCHANGED <<model, pending_events, window, inited, executed, pc, target, my_index, outbox>>

FallbackDone(t) ==
    /\ pc[t] = "fallback"
    /\ Due(t) = {}
    /\ my_index' = [my_index EXCEPT ![t] = current_index]
    /\ target' = [target EXCEPT ![t] = NoObject]
    /\ Goto(t, "ready")
    /\ UNCHANGED <<model, queues, window, inited, executed, outbox>>

\* A barrier (module Rendezvous): the threads leave it together.
Barrier(from) ==
    /\ \A t \in Threads : pc[t] = from
    /\ pc' = [t \in Threads |-> "dispense"]
    /\ UNCHANGED <<model, queues, window, inited, executed, target, my_index, outbox>>

-----------------------------------------------------------------------------
Step(t) ==
    \/ InitObject(t) \/ InitDone(t) \/ ScheduleNewEvent(t)
    \/ Dispense(t) \/ Finish(t) \/ Empty(t) \/ Extract(t) \/ GetEvent(t)
    \/ FallbackInsert(t) \/ FallbackDone(t)

Barriers == Barrier("started") \/ UpdateTiming \/ Barrier("ready")

Returned == \A t \in Threads : pc[t] = "done"

Next ==
    \/ Barriers
    \/ \E t \in Threads : Step(t)
    \/ Returned /\ UNCHANGED vars

Spec == Init /\ [][Next]_vars

\* Every thread runs on a CPU of its own and no critical section blocks, so a
\* thread that can take a step takes one; so does a full barrier.
FairSpec ==
    /\ Spec
    /\ WF_vars(Barriers)
    /\ \A t \in Threads : WF_vars(Step(t))

-----------------------------------------------------------------------------
(* Properties *)

\* The variables stay within their types.
TypeOK ==
    /\ queue \in [Objects -> [Slots -> Seq(Kinds)]]
    /\ fallback_queue \in [Threads -> Seq(Kinds)]
    /\ pending_events \in Int
    /\ object_identifiers \in 0..OBJECTS
    /\ epochs \in Nat
    /\ end \in BOOLEAN
    /\ inited \subseteq Objects
    /\ executed \in [Objects -> Seq(Kinds)]
    /\ pc \in [Threads -> Labels]
    /\ target \in [Threads -> Objects \cup {NoObject, OBJECTS}]
    /\ my_index \in [Threads -> Slots]
    /\ outbox \in [Threads -> Seq(Kinds)]

\* Thread t extracts or executes events of object o.
Runs(t, o) == pc[t] \in {"extract", "process"} /\ target[t] = o

\* ProcessEvent holds no lock: no two threads ever run the same object.
ExclusiveExecution ==
    \A t, u \in Threads, o \in Objects : Runs(t, o) /\ Runs(u, o) => t = u

\* The elements of some lists, each by its list and its place in it.
Cells(lists) == UNION {{<<p, i>> : i \in DOMAIN lists[p]} : p \in DOMAIN lists}

QueuedInSlots == Cells([p \in Objects \X Slots |-> queue[p[1]][p[2]]])
QueuedInFallback == Cells(fallback_queue)

\* pending_events is the number of queued elements, in slots and in fallback
\* queues (queue.c:203: "there is one more element in the queue"), so that
\* update_timing ends the simulation neither too early nor too late.
PendingIsQueued == pending_events = Cardinality(QueuedInSlots) + Cardinality(QueuedInFallback)

\* What the engine makes of the abstract simulation's pending events: those in
\* the queues, and those that INIT or a running event is still to schedule.
Scheduled ==
    UNION ({ToSet(queue[o][s]) : o \in Objects, s \in Slots}
           \cup {ToSet(fallback_queue[t]) : t \in Threads}
           \cup {ToSet(outbox[t]) : t \in Threads}
           \cup {ToSet(model.init[o]) : o \in Objects \ inited})

Sim == INSTANCE Simulation WITH
    pending <- Scheduled, limit <- current_min_limit + LOOKAHEAD

\* With any number of threads, the engine executes the events of an object in
\* the order of their timestamps and leaves a window only when it is done.
ImplementsSimulation == Sim!Spec

\* The simulation ends, every thread returns, and everything that was ever
\* scheduled has been executed.
Terminates == <>[](Returned /\ Scheduled = {})
=============================================================================
