-------------------------- MODULE SpeculativeEngine --------------------------
(***************************************************************************)
(* The speculative (SPECULATION) build of PARSIR: worker threads execute   *)
(* the events of simulation objects epoch by epoch, undo what they         *)
(* executed too early, and commit at the barrier that ends the epoch.      *)
(* Sources: queue/queue.c, speculation/speculation.c, stubs/stubs.c and    *)
(* the thread function of engine/engine.c.                                 *)
(*                                                                         *)
(* One step of a thread is the code between two points where another       *)
(* thread can interfere: a section under object_lock, an atomic counter,   *)
(* or a stretch that touches only what the thread owns. Time is counted in *)
(* ticks; an event's payload is its kind, and the state of an object is    *)
(* the sequence of the kinds applied to it since its checkpoint.           *)
(***************************************************************************)
EXTENDS Integers, Sequences, FiniteSets, SequencesExt, FiniteSetsExt

CONSTANTS
    Threads,        \* worker threads
    NoThread,       \* the owner -1
    OBJECTS,        \* number of simulation objects
    Kinds,          \* the events of a run, up to re-execution
    Copies,         \* bound on the allocated events of one kind
    Models,         \* the simulation models: what each event schedules
    HomeThread,     \* the thread that runs the INIT event of each object
    LOOKAHEAD,      \* width of an epoch and of a slot, in ticks
    NUM_SLOTS,      \* slots of an input queue
    Epsilon,        \* the constant epsilon of random.h, in ticks
    LastEpoch       \* bound: the epoch in which a run is cut

Objects == 0..(OBJECTS - 1)
Slots == 0..(NUM_SLOTS - 1)
NoObject == -1

\* An allocated event; two copies of a kind are two addresses.
Events == [kind : Kinds, copy : Copies]

\* An entry of a send log or of a speculation queue.
Sends == [event : Events, send_time : Nat]

\* What ProcessEvent does, as far as the runtime can tell: the kinds INIT
\* schedules for each object, and per kind its destination, its timestamp and
\* the kinds its execution schedules. Every schedule is into the future, and two
\* calls of ScheduleNewEvent are two kinds: a kind is scheduled in one place.
IsModel(m) ==
    /\ m \in [init : [Objects -> Seq(Kinds)], dest : [Kinds -> Objects],
              time : [Kinds -> Nat \ {0}], next : [Kinds -> Seq(Kinds)]]
    /\ \A k \in Kinds : \A i \in DOMAIN m.next[k] : m.time[m.next[k][i]] > m.time[k]
    /\ \A k, l \in Kinds : \A i \in DOMAIN m.next[k], j \in DOMAIN m.next[l] :
          m.next[k][i] = m.next[l][j] => k = l /\ i = j
    /\ \A o, p \in Objects : \A i \in DOMAIN m.init[o], j \in DOMAIN m.init[p] :
          m.init[o][i] = m.init[p][j] => o = p /\ i = j
    /\ \A o \in Objects, k \in Kinds : ToSet(m.init[o]) \cap ToSet(m.next[k]) = {}

ASSUME ConstantsAssumption ==
    /\ OBJECTS \in Nat \ {0}
    /\ LOOKAHEAD \in Nat \ {0} /\ NUM_SLOTS \in Nat \ {0} /\ Epsilon \in Nat \ {0}
    /\ LastEpoch \in Nat
    /\ NoThread \notin Threads
    /\ HomeThread \in [Objects -> Threads]

ASSUME ModelsAssumption == \A m \in Models : IsModel(m)

VARIABLES
    model,                  \* the simulation model linked with the runtime
    queue,                  \* input queue of each object, one list per slot
    fallback_queue,         \* events beyond the last slot, per thread
    retractable_queue,      \* events executed in this epoch, per object
    speculation_queue,      \* sends beyond this epoch, withheld at their source
    log_queue,              \* sends into this epoch, per source
    speculation,            \* object_status of each object
    filter_message,         \* sends not after this time are not repeated
    history,                \* state of each object since its checkpoint
    epochs,                 \* epochs completed
    object_identifiers, shadow_object_identifiers, retractable_object_identifiers,
    pending_events, speculation_events, end,
    inited,                 \* objects whose INIT event has been executed
    pc, target, object_stack, current, rollback_time, event, outbox,  \* per thread
    status                  \* how the process ended, if it did

queues == <<queue, fallback_queue, retractable_queue, speculation_queue, log_queue>>
objects == <<speculation, filter_message, history>>
dispensers == <<object_identifiers, shadow_object_identifiers, retractable_object_identifiers>>
counters == <<pending_events, speculation_events, end>>
locals == <<target, object_stack, current, rollback_time, event, outbox>>
vars == <<model, queues, objects, epochs, dispensers, counters, inited, pc, locals, status>>

Labels == {"init", "started", "idle", "dispense", "take", "restore", "undo", "check",
           "extract", "copy", "process", "quiet", "retract", "flush", "commit",
           "flushed", "update", "updated", "fallback", "ready", "done"}

-----------------------------------------------------------------------------
(* Time, slots and lists *)

current_min_limit == epochs * LOOKAHEAD
EpochLimit == current_min_limit + LOOKAHEAD
current_max_limit == current_min_limit + NUM_SLOTS * LOOKAHEAD

Dest(e) == model.dest[e.kind]
Time(e) == model.time[e.kind]
SlotOf(e) == (Time(e) \div LOOKAHEAD) % NUM_SLOTS
current_index == epochs % NUM_SLOTS

\* A defect the checks must notice: the new event goes to the tail.
InsertInOrder_AtTail(q, e) == Append(q, e)

\* Insertion behind the leading events that are not later.
InsertInOrder(q, e) ==
    LET n == Cardinality({i \in DOMAIN q : \A j \in 1..i : Time(q[j]) <= Time(e)})
    IN  SubSeq(q, 1, n) \o <<e>> \o SubSeq(q, n + 1, Len(q))

Insert(e) == queue' = [queue EXCEPT ![Dest(e)][SlotOf(e)] = InsertInOrder(@, e)]

\* Unlinking an element from a list.
Without(q, e) ==
    IF \E i \in DOMAIN q : q[i] = e
    THEN RemoveAt(q, CHOOSE i \in DOMAIN q : q[i] = e)
    ELSE q

\* The events of a list by timestamp, equal ones in the order of the list: the
\* result of inserting them in order one by one.
NotAfter(q, i) ==
    {j \in DOMAIN q : Time(q[j]) < Time(q[i]) \/ (Time(q[j]) = Time(q[i]) /\ j <= i)}

Rank(q, i) == Cardinality(NotAfter(q, i))

\* A defect: the retracted events are spliced behind the queue.
InTimeOrder_Spliced(q) == q

InTimeOrder(q) == [n \in DOMAIN q |-> q[CHOOSE i \in DOMAIN q : Rank(q, i) = n]]

\* A defect: a rollback discards every withheld send.
Before_Nothing(q, time) == <<>>

\* What is left of a list of sends when its tail is undone back to a time.
Before(q, time) ==
    SubSeq(q, 1, Len(q) - Cardinality({i \in DOMAIN q :
                                         \A j \in i..Len(q) : q[j].send_time >= time}))

Allocated ==
    UNION ({ToSet(queue[o][s]) : o \in Objects, s \in Slots}
           \cup {ToSet(retractable_queue[o]) : o \in Objects}
           \cup {ToSet(fallback_queue[t]) : t \in Threads}
           \cup {{x.event : x \in ToSet(speculation_queue[o])} : o \in Objects})

\* malloc may return the address of an event that has been freed.
IsFresh(e) ==
    /\ e \notin Allocated
    /\ \A d \in Copies : d < e.copy => [e EXCEPT !.copy = d] \in Allocated

\* queue_insert by thread t: into a slot, or beyond them.
QueueInsert(t, e) ==
    /\ \/ /\ Time(e) < current_max_limit
          /\ Insert(e)
          /\ UNCHANGED fallback_queue
       \/ /\ Time(e) >= current_max_limit
          /\ fallback_queue' = [fallback_queue EXCEPT ![t] = Append(@, e)]
          /\ UNCHANGED queue
    /\ pending_events' = pending_events + 1

-----------------------------------------------------------------------------
(* The object stack of a thread and the ownership of an object *)

Goto(t, label) == pc' = [pc EXCEPT ![t] = label]

\* A defect: the entry at the top of the stack is overwritten.
Push_OverTop(stack, o) == IF stack = <<>> THEN <<o>> ELSE Append(Front(stack), o)

Push(stack, o) == Append(stack, o)          \* put_into_stack
PushBottom(stack, o) == <<o>> \o stack      \* put_head_into_stack

\* Both exit when the stack, which has room for OBJECTS entries, is full.
StackStatus(stack) == IF Len(stack) > OBJECTS THEN "stack full" ELSE status

\* A defect: the state changes and the owner does not.
Claimed_WithoutOwner(s, t) == [s EXCEPT !.the_state = "BUSY"]

Claimed(s, t) == [s EXCEPT !.the_state = "BUSY", !.owner = t]
Released(s) == [s EXCEPT !.the_state = "FREE", !.owner = NoThread]

\* A violation at the given time is recorded; the earliest one is kept.
Violated(s, time) ==
    [s EXCEPT !.standing_rollback = TRUE,
              !.causality_violation_time =
                  IF s.standing_rollback /\ s.causality_violation_time <= time THEN @ ELSE time]

\* A defect: the rollback that is served remains standing.
Accepted_StillStanding(s) == [s EXCEPT !.current_time = current_min_limit]

\* The owner takes over a standing rollback: the object goes back to the start
\* of the epoch.
Accepted(s) == [s EXCEPT !.standing_rollback = FALSE, !.current_time = current_min_limit]

\* get_from_stack, and what the thread does when the stack is empty.
Resume(t, otherwise) ==
    IF object_stack[t] # <<>>
    THEN /\ target' = [target EXCEPT ![t] = Last(object_stack[t])]
         /\ object_stack' = [object_stack EXCEPT ![t] = Front(@)]
         /\ Goto(t, "take")
    ELSE /\ target' = [target EXCEPT ![t] = NoObject]
         /\ Goto(t, otherwise)
         /\ UNCHANGED object_stack

-----------------------------------------------------------------------------
Init ==
    /\ model \in Models
    /\ queue = [o \in Objects |-> [s \in Slots |-> <<>>]]
    /\ fallback_queue = [t \in Threads |-> <<>>]
    /\ retractable_queue = [o \in Objects |-> <<>>]
    /\ speculation_queue = [o \in Objects |-> <<>>]
    /\ log_queue = [o \in Objects |-> <<>>]
    /\ speculation = [o \in Objects |->
            [the_state |-> "FREE", owner |-> NoThread, standing_rollback |-> FALSE,
             causality_violation_time |-> 0, current_time |-> 0, already_taken |-> FALSE]]
    /\ filter_message = [o \in Objects |-> 0 - Epsilon]
    /\ history = [o \in Objects |-> <<>>]
    /\ epochs = 0
    /\ object_identifiers = 0
    /\ shadow_object_identifiers = 0
    /\ retractable_object_identifiers = 0
    /\ pending_events = 0
    /\ speculation_events = 0
    /\ end = FALSE
    /\ inited = {}
    /\ pc = [t \in Threads |-> "init"]
    /\ target = [t \in Threads |-> NoObject]
    /\ object_stack = [t \in Threads |-> <<>>]
    /\ current = [t \in Threads |-> NoObject]
    /\ rollback_time = [t \in Threads |-> 0]
    /\ event = [t \in Threads |-> <<>>]
    /\ outbox = [t \in Threads |-> <<>>]
    /\ status = "running"

\* The thread runs the INIT event of its next object, and takes the checkpoint
\* at which the history is empty.
InitObject(t) ==
    /\ pc[t] = "init"
    /\ outbox[t] = <<>>
    /\ \E o \in Objects \ inited :
          /\ HomeThread[o] = t
          /\ \A p \in Objects \ inited : HomeThread[p] = t => o <= p
          /\ inited' = inited \cup {o}
          /\ outbox' = [outbox EXCEPT ![t] = model.init[o]]
    /\ UNCHANGED <<model, queues, objects, epochs, dispensers, counters, pc,
                   target, object_stack, current, rollback_time, event, status>>

\* Sends at STARTUP_TIME are committed at once.
InitSend(t) ==
    /\ pc[t] = "init"
    /\ outbox[t] # <<>>
    /\ \E c \in Copies :
          LET e == [kind |-> Head(outbox[t]), copy |-> c]
          IN  IsFresh(e) /\ QueueInsert(t, e)
    /\ outbox' = [outbox EXCEPT ![t] = Tail(@)]
    /\ UNCHANGED <<model, retractable_queue, speculation_queue, log_queue, objects, epochs,
                   dispensers, speculation_events, end, inited, pc,
                   target, object_stack, current, rollback_time, event, status>>

InitDone(t) ==
    /\ pc[t] = "init"
    /\ outbox[t] = <<>>
    /\ \A o \in Objects \ inited : HomeThread[o] # t
    /\ Goto(t, "started")
    /\ UNCHANGED <<model, queues, objects, epochs, dispensers, counters, inited, locals, status>>

-----------------------------------------------------------------------------
(* queue_extract: choosing an object, rolling it back, taking its next event *)

\* Entry of queue_extract: the thread keeps its object, or pops one.
GetEvent(t) ==
    /\ pc[t] = "idle"
    /\ IF target[t] # NoObject
       THEN Goto(t, "take") /\ UNCHANGED <<target, object_stack>>
       ELSE Resume(t, "dispense")
    /\ UNCHANGED <<model, queues, objects, epochs, dispensers, counters, inited,
                   current, rollback_time, event, outbox, status>>

\* The next object identifier; all identifiers from OBJECTS on are alike. A
\* thread for which none is left turns to its stack, then to the barrier.
Dispense(t) ==
    /\ pc[t] = "dispense"
    /\ ~end
    /\ IF object_identifiers < OBJECTS
       THEN /\ object_identifiers' = object_identifiers + 1
            /\ target' = [target EXCEPT ![t] = object_identifiers]
            /\ Goto(t, "take")
            /\ UNCHANGED object_stack
       ELSE /\ Resume(t, "quiet")
            /\ UNCHANGED object_identifiers
    /\ UNCHANGED <<model, queues, objects, epochs, shadow_object_identifiers,
                   retractable_object_identifiers, counters, inited,
                   current, rollback_time, event, outbox, status>>

\* if (end) return NULL: the thread function returns.
Finish(t) ==
    /\ pc[t] = "dispense"
    /\ end
    /\ Goto(t, "done")
    /\ UNCHANGED <<model, queues, objects, epochs, dispensers, counters, inited, locals, status>>

\* A defect: an object that must roll back may change hands.
Mine_IfStanding(t, o) ==
    speculation[o].the_state = "FREE" \/ speculation[o].owner = t \/ speculation[o].standing_rollback

Mine(t, o) == speculation[o].the_state = "FREE" \/ speculation[o].owner = t

\* The first section under object_lock: claim the object, accept its rollback.
Take(t) ==
    LET o == target[t]
        s == Claimed(speculation[o], t)
    IN  /\ pc[t] = "take"
        /\ Mine(t, o)
        /\ IF s.standing_rollback
           THEN /\ speculation' = [speculation EXCEPT ![o] =
                        [Accepted(s) EXCEPT !.already_taken = TRUE]]
                /\ filter_message' = [filter_message EXCEPT ![o] =
                                        s.causality_violation_time - Epsilon]
                /\ rollback_time' = [rollback_time EXCEPT ![t] = s.causality_violation_time]
                /\ Goto(t, IF s.causality_violation_time > 0 THEN "restore" ELSE "check")
           ELSE /\ speculation' = [speculation EXCEPT ![o] = [s EXCEPT !.already_taken = TRUE]]
                /\ rollback_time' = [rollback_time EXCEPT ![t] = 0]
                /\ Goto(t, "check")
                /\ UNCHANGED filter_message
        /\ UNCHANGED <<model, queues, history, epochs, dispensers, counters, inited,
                       target, object_stack, current, event, outbox, status>>

\* The object is in the hands of another thread, which will run it.
TakenByOther(t) ==
    /\ pc[t] = "take"
    /\ ~Mine(t, target[t])
    /\ target' = [target EXCEPT ![t] = NoObject]
    /\ Goto(t, "dispense")
    /\ UNCHANGED <<model, queues, objects, epochs, dispensers, counters, inited,
                   object_stack, current, rollback_time, event, outbox, status>>

Discarded(q, kept) == Len(q) - Len(kept)

\* run_rollback, first part: restore_object brings back the checkpoint of the
\* epoch, rollback_speculation_queue drops the sends withheld since.
Restore(t) ==
    LET o == target[t]
        kept == Before(speculation_queue[o], rollback_time[t])
    IN  /\ pc[t] = "restore"
        /\ history' = [history EXCEPT ![o] = <<>>]
        /\ speculation_queue' = [speculation_queue EXCEPT ![o] = kept]
        /\ speculation_events' = speculation_events - Discarded(speculation_queue[o], kept)
        /\ Goto(t, "undo")
        /\ UNCHANGED <<model, queue, fallback_queue, retractable_queue, log_queue, speculation,
                       filter_message, epochs, dispensers, pending_events, end, inited,
                       locals, status>>

MustUndo(t) ==
    LET log == log_queue[target[t]]
    IN  log # <<>> /\ Last(log).send_time >= rollback_time[t]

\* queue_elem_annihilation of the last send in the log. The receiver must roll
\* back, and falls to this thread when nobody has it.
Annihilate(t) ==
    LET o == target[t]
        e == Last(log_queue[o]).event
        d == Dest(e)
        s == Violated(speculation[d], Time(e))
        claim == ~speculation[d].standing_rollback /\ s.the_state = "FREE"
    IN  /\ pc[t] = "undo"
        /\ MustUndo(t)
        /\ log_queue' = [log_queue EXCEPT ![o] = Front(@)]
        /\ speculation' = [speculation EXCEPT ![d] = IF claim THEN Claimed(s, t) ELSE s]
        /\ object_stack' = [object_stack EXCEPT ![t] = IF claim THEN Push(@, d) ELSE @]
        /\ status' = StackStatus(object_stack'[t])
        /\ queue' = [queue EXCEPT ![d][SlotOf(e)] = Without(@, e)]
        /\ retractable_queue' = [retractable_queue EXCEPT ![d] = Without(@, e)]
        /\ pending_events' = IF speculation[d].current_time > Time(e)
                             THEN pending_events ELSE pending_events - 1
        /\ UNCHANGED <<model, fallback_queue, speculation_queue, filter_message, history, epochs,
                       dispensers, speculation_events, end, inited, pc,
                       target, current, rollback_time, event, outbox>>

\* restore_retractable_events: what was executed goes back to the input queue.
Reinsert(t) ==
    LET o == target[t]
    IN  /\ pc[t] = "undo"
        /\ ~MustUndo(t)
        /\ queue' = [queue EXCEPT ![o][current_index] = InTimeOrder(@ \o retractable_queue[o])]
        /\ retractable_queue' = [retractable_queue EXCEPT ![o] = <<>>]
        /\ pending_events' = pending_events + Len(retractable_queue[o])
        /\ rollback_time' = [rollback_time EXCEPT ![t] = 0]     \* dead from here on
        /\ Goto(t, "check")
        /\ UNCHANGED <<model, fallback_queue, speculation_queue, log_queue, objects, epochs,
                       dispensers, speculation_events, end, inited,
                       target, object_stack, current, event, outbox, status>>

HasWork(o) == queue[o][current_index] # <<>>

\* The second section under object_lock: an object without events is released.
Release(t) ==
    LET o == target[t]
    IN  /\ pc[t] = "check"
        /\ ~HasWork(o)
        /\ speculation' = [speculation EXCEPT ![o] = Released(@)]
        /\ Resume(t, "dispense")
        /\ UNCHANGED <<model, queues, filter_message, history, epochs, dispensers, counters,
                       inited, current, rollback_time, event, outbox, status>>

Keep(t) ==
    /\ pc[t] = "check"
    /\ HasWork(target[t])
    /\ Goto(t, "extract")
    /\ UNCHANGED <<model, queues, objects, epochs, dispensers, counters, inited, locals, status>>

\* The third section under object_lock: a rollback that has become standing is
\* served first, otherwise the first event is taken.
Redo(t) ==
    /\ pc[t] = "extract"
    /\ speculation[target[t]].standing_rollback
    /\ Goto(t, "take")
    /\ UNCHANGED <<model, queues, objects, epochs, dispensers, counters, inited, locals, status>>

Extract(t) ==
    LET o == target[t]
        e == Head(queue[o][current_index])
    IN  /\ pc[t] = "extract"
        /\ ~speculation[o].standing_rollback
        /\ HasWork(o)
        /\ queue' = [queue EXCEPT ![o][current_index] = Tail(@)]
        /\ retractable_queue' = [retractable_queue EXCEPT ![o] = Append(@, e)]
        /\ speculation' = [speculation EXCEPT ![o].current_time = Time(e)]
        /\ pending_events' = pending_events + 1
        /\ event' = [event EXCEPT ![t] = <<e>>]
        /\ Goto(t, "copy")
        /\ UNCHANGED <<model, fallback_queue, speculation_queue, log_queue, filter_message, history,
                       epochs, dispensers, speculation_events, end, inited,
                       target, object_stack, current, rollback_time, outbox, status>>

-----------------------------------------------------------------------------
(* GetEvent's copy, ProcessEvent, ScheduleNewEvent *)

\* The rest of an execution of an event: its further sends, or the next event.
Continue(t, sends) ==
    /\ outbox' = [outbox EXCEPT ![t] = sends]
    /\ IF sends = <<>>
       THEN /\ Goto(t, "idle")
            /\ current' = [current EXCEPT ![t] = NoObject]
            /\ event' = [event EXCEPT ![t] = <<>>]
       ELSE /\ Goto(t, "process")
            /\ current' = [current EXCEPT ![t] = Dest(event[t][1])]
            /\ UNCHANGED event

\* GetEvent copies the event without the lock, ProcessEvent changes the object.
Process(t) ==
    LET e == event[t][1]
    IN  /\ pc[t] = "copy"
        /\ history' = [history EXCEPT ![Dest(e)] = Append(@, e.kind)]
        /\ Continue(t, model.next[e.kind])
        /\ UNCHANGED <<model, queues, speculation, filter_message, epochs, dispensers, counters,
                       inited, target, object_stack, rollback_time, status>>

\* The event has been annihilated since the lock was released: the copy reads
\* freed memory, and what it reads may be no event at all. (When the memory has
\* not been reused, the copy still finds the event: that is Process.)
ReadFreed(t) ==
    /\ pc[t] = "copy"
    /\ event[t][1] \notin Allocated
    /\ status' = "use after free"
    /\ UNCHANGED <<model, queues, objects, epochs, dispensers, counters, inited, pc, locals>>

\* A defect: the bound of the filter is exclusive.
Filtered_Below(t) == filter_message[current[t]] > Time(event[t][1])

\* ScheduleNewEvent by the object of thread t, at the time of its event.
Filtered(t) == filter_message[current[t]] >= Time(event[t][1])

NextSend(t) == Head(outbox[t])

\* Not sent: what comes before the rollback has been sent already; and what is
\* due before the epoch is refused ("illegal speculation queue insert").
Suppressed(t) == Filtered(t) \/ model.time[NextSend(t)] < current_min_limit

\* Coasting forward: what was sent before the rollback is not sent again.
SendFiltered(t) ==
    /\ pc[t] = "process"
    /\ Suppressed(t)
    /\ Continue(t, Tail(outbox[t]))
    /\ UNCHANGED <<model, queues, objects, epochs, dispensers, counters, inited,
                   target, object_stack, rollback_time, status>>

\* A send beyond the epoch is withheld until the epoch is committed.
SendLater(t) ==
    /\ pc[t] = "process"
    /\ ~Suppressed(t)
    /\ model.time[NextSend(t)] >= EpochLimit
    /\ \E c \in Copies :
          LET e == [kind |-> NextSend(t), copy |-> c]
          IN  /\ IsFresh(e)
              /\ speculation_queue' = [speculation_queue EXCEPT ![current[t]] =
                    Append(@, [event |-> e, send_time |-> Time(event[t][1])])]
    /\ speculation_events' = speculation_events + 1
    /\ Continue(t, Tail(outbox[t]))
    /\ UNCHANGED <<model, queue, fallback_queue, retractable_queue, log_queue, objects, epochs,
                   dispensers, pending_events, end, inited, target, object_stack, rollback_time,
                   status>>

\* A defect: an object that is being executed is not checked.
IsStraggler_Idle(d, time) ==
    speculation[d].current_time >= time /\ speculation[d].the_state = "FREE"

IsStraggler(d, time) == speculation[d].current_time >= time

\* A send into the epoch is logged and delivered. A receiver that is already
\* past it must roll back, and an idle one falls to this thread: at once when
\* it must roll back, when its turn has passed otherwise.
SendNow(t) ==
    LET o == current[t]
        d == model.dest[NextSend(t)]
        time == model.time[NextSend(t)]
        straggler == IsStraggler(d, time)
        free == speculation[d].the_state = "FREE"
        s == IF straggler THEN Violated(speculation[d], time) ELSE speculation[d]
        preempt == straggler /\ free /\ ~speculation[d].standing_rollback
        adopt == ~straggler /\ free /\ speculation[d].already_taken
    IN  /\ pc[t] = "process"
        /\ ~Suppressed(t)
        /\ time < EpochLimit
        /\ \E c \in Copies :
              LET e == [kind |-> NextSend(t), copy |-> c]
              IN  /\ IsFresh(e)
                  /\ log_queue' = [log_queue EXCEPT ![o] =
                        Append(@, [event |-> e, send_time |-> Time(event[t][1])])]
                  /\ Insert(e)
        /\ pending_events' = pending_events + 1
        /\ speculation' = [speculation EXCEPT ![d] = IF preempt \/ adopt THEN Claimed(s, t) ELSE s]
        /\ object_stack' = [object_stack EXCEPT ![t] =
                IF preempt THEN Push(PushBottom(@, o), d) ELSE IF adopt THEN Push(@, d) ELSE @]
        /\ status' = StackStatus(object_stack'[t])
        /\ target' = [target EXCEPT ![t] = IF preempt THEN NoObject ELSE @]
        /\ Continue(t, Tail(outbox[t]))
        /\ UNCHANGED <<model, fallback_queue, retractable_queue, speculation_queue, filter_message,
                       history, epochs, dispensers, speculation_events, end, inited, rollback_time>>

-----------------------------------------------------------------------------
(* The end of an epoch *)

\* retractable_queue_flush: the executed events of one object are freed.
Retract(t) ==
    LET o == retractable_object_identifiers
    IN  /\ pc[t] = "retract"
        /\ IF o < OBJECTS
           THEN /\ retractable_object_identifiers' = o + 1
                /\ retractable_queue' = [retractable_queue EXCEPT ![o] = <<>>]
                /\ UNCHANGED pc
           ELSE /\ Goto(t, "flush")
                /\ UNCHANGED <<retractable_object_identifiers, retractable_queue>>
        /\ UNCHANGED <<model, queue, fallback_queue, speculation_queue, log_queue, objects, epochs,
                       object_identifiers, shadow_object_identifiers, counters, inited, locals,
                       status>>

\* A defect: the bound of the object counter is inclusive.
Flush_OnePastTheEnd(t) ==
    /\ pc[t] = "flush"
    /\ shadow_object_identifiers <= OBJECTS
    /\ shadow_object_identifiers' = shadow_object_identifiers + 1
    /\ target' = [target EXCEPT ![t] = shadow_object_identifiers]
    /\ Goto(t, "commit")
    /\ UNCHANGED <<model, queues, objects, epochs, object_identifiers,
                   retractable_object_identifiers, counters, inited, object_stack, current,
                   rollback_time, event, outbox, status>>

\* speculation_queue_flush: the thread takes an object and resets its status.
Flush(t) ==
    LET o == shadow_object_identifiers
    IN  /\ pc[t] = "flush"
        /\ o < OBJECTS
        /\ shadow_object_identifiers' = o + 1
        /\ target' = [target EXCEPT ![t] = o]
        /\ speculation' = [speculation EXCEPT ![o] =
                [Released(@) EXCEPT !.causality_violation_time = 0, !.standing_rollback = FALSE,
                                    !.already_taken = FALSE]]
        /\ filter_message' = [filter_message EXCEPT ![o] = EpochLimit - Epsilon]
        /\ log_queue' = [log_queue EXCEPT ![o] = <<>>]
        /\ Goto(t, "commit")
        /\ UNCHANGED <<model, queue, fallback_queue, retractable_queue, speculation_queue, history,
                       epochs, object_identifiers, retractable_object_identifiers, counters,
                       inited, object_stack, current, rollback_time, event, outbox, status>>

\* A send the object has withheld is committed. (The code corrects
\* speculation_events once per object; nobody reads it before the barrier.)
Commit(t) ==
    LET o == target[t]
    IN  /\ pc[t] = "commit"
        /\ speculation_queue[o] # <<>>
        /\ QueueInsert(t, Head(speculation_queue[o]).event)
        /\ speculation_queue' = [speculation_queue EXCEPT ![o] = Tail(@)]
        /\ speculation_events' = speculation_events - 1
        /\ UNCHANGED <<model, retractable_queue, log_queue, objects, epochs, dispensers, end,
                       inited, pc, locals, status>>

\* set_ckpt: from now on the object is restored to this state.
Checkpoint(t) ==
    LET o == target[t]
    IN  /\ pc[t] = "commit"
        /\ speculation_queue[o] = <<>>
        /\ history' = [history EXCEPT ![o] = <<>>]
        /\ Goto(t, "flush")
        /\ UNCHANGED <<model, queues, speculation, filter_message, epochs, dispensers, counters,
                       inited, locals, status>>

FlushDone(t) ==
    /\ pc[t] = "flush"
    /\ shadow_object_identifiers = OBJECTS
    /\ Goto(t, "flushed")
    /\ UNCHANGED <<model, queues, objects, epochs, dispensers, counters, inited, locals, status>>

\* update_timing, by the thread the barrier elects.
UpdateTiming(t) ==
    /\ pc[t] = "update"
    /\ epochs < LastEpoch
    /\ epochs' = epochs + 1
    /\ object_identifiers' = 0
    /\ shadow_object_identifiers' = 0
    /\ retractable_object_identifiers' = 0
    /\ end' = (end \/ (pending_events = 0 /\ speculation_events = 0))
    /\ Goto(t, "updated")
    /\ UNCHANGED <<model, queues, objects, pending_events, speculation_events, inited, locals,
                   status>>

\* A defect: the limit of the last slot is inclusive.
Due_UpToLimit(t) ==
    {i \in DOMAIN fallback_queue[t] : Time(fallback_queue[t][i]) <= current_max_limit}

\* fallback_check: the events that the last slot has reached leave the fallback.
Due(t) == {i \in DOMAIN fallback_queue[t] : Time(fallback_queue[t][i]) < current_max_limit}

FallbackInsert(t) ==
    /\ pc[t] = "fallback"
    /\ \E i \in Due(t) :
          /\ \A j \in Due(t) : i <= j
          /\ Insert(fallback_queue[t][i])
          /\ fallback_queue' = [fallback_queue EXCEPT ![t] = RemoveAt(@, i)]
    /\ UNCHANGED <<model, retractable_queue, speculation_queue, log_queue, objects, epochs,
                   dispensers, counters, inited, pc, locals, status>>

FallbackDone(t) ==
    /\ pc[t] = "fallback"
    /\ Due(t) = {}
    /\ target' = [target EXCEPT ![t] = NoObject]
    /\ Goto(t, "ready")
    /\ UNCHANGED <<model, queues, objects, epochs, dispensers, counters, inited,
                   object_stack, current, rollback_time, event, outbox, status>>

\* A barrier (module Rendezvous): the threads leave it together.
Barrier(from, to) ==
    /\ \A t \in Threads : pc[t] = from
    /\ pc' = [t \in Threads |-> to]

\* A defect: no barrier before the executed events are freed.
Barriers_NoneBeforeRetract ==
    /\ \/ Barrier("started", "idle")
       \/ \E t \in Threads : pc[t] = "quiet" /\ Goto(t, "retract")
    /\ UNCHANGED <<model, queues, objects, epochs, dispensers, counters, inited, locals, status>>

Barriers ==
    /\ \/ Barrier("started", "idle")
       \/ Barrier("quiet", "retract")
       \/ /\ \A t \in Threads : pc[t] = "flushed"
          /\ \E w \in Threads : pc' = [t \in Threads |-> IF t = w THEN "update" ELSE "updated"]
       \/ Barrier("updated", "fallback")
       \/ Barrier("ready", "dispense")
    /\ UNCHANGED <<model, queues, objects, epochs, dispensers, counters, inited, locals, status>>

-----------------------------------------------------------------------------
Step(t) ==
    \/ InitObject(t) \/ InitSend(t) \/ InitDone(t)
    \/ GetEvent(t) \/ Dispense(t) \/ Finish(t) \/ Take(t) \/ TakenByOther(t)
    \/ Restore(t) \/ Annihilate(t) \/ Reinsert(t)
    \/ Release(t) \/ Keep(t) \/ Redo(t) \/ Extract(t)
    \/ Process(t) \/ ReadFreed(t) \/ SendFiltered(t) \/ SendLater(t) \/ SendNow(t)
    \/ Retract(t) \/ Flush(t) \/ Commit(t) \/ Checkpoint(t) \/ FlushDone(t)
    \/ UpdateTiming(t) \/ FallbackInsert(t) \/ FallbackDone(t)

\* The process has exited, every thread has returned, or the bound is reached.
Stopped ==
    \/ status # "running"
    \/ \A t \in Threads : pc[t] = "done"
    \/ epochs = LastEpoch /\ \E t \in Threads : pc[t] = "update"

Next ==
    \/ /\ status = "running"
       /\ Barriers \/ \E t \in Threads : Step(t)
    \/ Stopped /\ UNCHANGED vars

Spec == Init /\ [][Next]_vars

\* Every thread runs on a CPU of its own and no critical section blocks, so a
\* thread that can take a step takes one; so does a full barrier.
FairSpec ==
    /\ Spec
    /\ WF_vars(status = "running" /\ Barriers)
    /\ \A t \in Threads : WF_vars(status = "running" /\ Step(t))
=============================================================================
