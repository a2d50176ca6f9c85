------------------------ MODULE SpeculationProperties ------------------------
(***************************************************************************)
(* What must be true of the speculative engine: the ownership of objects,  *)
(* the consistency of the lists that make an execution undoable, and what  *)
(* an epoch commits.                                                       *)
(***************************************************************************)
EXTENDS SpeculativeEngine

-----------------------------------------------------------------------------
(* Types *)

Statuses ==
    [the_state : {"FREE", "BUSY"}, owner : Threads \cup {NoThread},
     standing_rollback : BOOLEAN, causality_violation_time : Nat,
     current_time : Nat, already_taken : BOOLEAN]

QueueTypes ==
    /\ queue \in [Objects -> [Slots -> Seq(Events)]]
    /\ fallback_queue \in [Threads -> Seq(Events)]
    /\ retractable_queue \in [Objects -> Seq(Events)]
    /\ speculation_queue \in [Objects -> Seq(Sends)]
    /\ log_queue \in [Objects -> Seq(Sends)]

ObjectTypes ==
    /\ speculation \in [Objects -> Statuses]
    /\ filter_message \in [Objects -> Int]
    /\ history \in [Objects -> Seq(Kinds)]

CounterTypes ==
    /\ epochs \in Nat
    /\ object_identifiers \in 0..OBJECTS
    /\ shadow_object_identifiers \in 0..OBJECTS
    /\ retractable_object_identifiers \in 0..OBJECTS
    /\ pending_events \in Int
    /\ speculation_events \in Int
    /\ end \in BOOLEAN
    /\ inited \subseteq Objects

ThreadTypes ==
    /\ pc \in [Threads -> Labels]
    /\ target \in [Threads -> Objects \cup {NoObject}]
    /\ object_stack \in [Threads -> Seq(Objects)]
    /\ current \in [Threads -> Objects \cup {NoObject}]
    /\ rollback_time \in [Threads -> Nat]
    /\ event \in [Threads -> Seq(Events)]
    /\ outbox \in [Threads -> Seq(Kinds)]
    /\ status \in {"running", "stack full", "use after free"}

\* Every variable of the runtime stays within its type.
TypeOK == QueueTypes /\ ObjectTypes /\ CounterTypes /\ ThreadTypes

-----------------------------------------------------------------------------
(* Ownership of objects (the_state, owner and the object stacks) *)

\* Thread t is rolling back object o, choosing its next event or executing it.
Runs(t, o) ==
    \/ pc[t] \in {"restore", "undo", "check", "extract", "copy"} /\ target[t] = o
    \/ pc[t] = "process" /\ current[t] = o

\* A thread that works on an object is its registered owner: no release, no
\* claim by the sender of a straggler and no flush takes the object from it.
RunnerOwns ==
    \A t \in Threads, o \in Objects :
        Runs(t, o) => speculation[o].the_state = "BUSY" /\ speculation[o].owner = t

\* The state of an object is never touched by two threads at once, although
\* GetEvent, ProcessEvent and run_rollback hold no lock.
ExclusiveExecution ==
    \A t, u \in Threads, o \in Objects : Runs(t, o) /\ Runs(u, o) => t = u

\* An object that is BUSY is one its owner works on or will come back to: no
\* object is claimed and then forgotten, which would strand its events.
BusyIsHeld ==
    \A o \in Objects :
        speculation[o].the_state = "BUSY" =>
            LET t == speculation[o].owner
            IN  Runs(t, o) \/ target[t] = o \/ o \in ToSet(object_stack[t])

-----------------------------------------------------------------------------
(* The lists *)

TimeOrdered(q) == \A i, j \in DOMAIN q : i < j => Time(q[i]) <= Time(q[j])

\* Whatever is inserted, retracted and put back, every list of events of an
\* object is in timestamp order (verify_queue_order and its sibling) and holds
\* events of this object, in the slot computed from the timestamp.
QueuesInOrder ==
    /\ \A o \in Objects, s \in Slots :
          /\ TimeOrdered(queue[o][s])
          /\ \A e \in ToSet(queue[o][s]) : Dest(e) = o /\ SlotOf(e) = s
    /\ \A o \in Objects :
          /\ TimeOrdered(retractable_queue[o])
          /\ \A e \in ToSet(retractable_queue[o]) : Dest(e) = o

\* Between the first and the last step of an epoch.
InEpoch == \E t \in Threads : pc[t] \in
    {"idle", "dispense", "take", "restore", "undo", "check", "extract", "copy", "process"}

\* Slots are reused every NUM_SLOTS epochs: a slot never holds an event of the
\* past or of a later turn of the slot, and the fallback queue of a thread
\* holds nothing that the slots could take.
EventsInWindow ==
    /\ \A o \in Objects, s \in Slots : \A e \in ToSet(queue[o][s]) :
          Time(e) \in current_min_limit..(current_max_limit - 1)
    /\ InEpoch => \A t \in Threads : \A e \in ToSet(fallback_queue[t]) :
          Time(e) >= current_max_limit

RollingBack(o) == \E t \in Threads : pc[t] \in {"restore", "undo"} /\ target[t] = o

\* No rollback of the object is pending or under way.
Settled(o) == ~speculation[o].standing_rollback /\ ~RollingBack(o)

\* What an object has executed in this epoch is never later than what it still
\* has to execute, unless it has something to undo (the check "causality violation
\* order" of queue_extract, made at all times and against all events of the epoch;
\* what is compared is what has been executed, as an epoch starts with the clock
\* ahead of any event that has been left behind in the slot).
CausalOrder ==
    \A o \in Objects : Settled(o) =>
        \A e \in ToSet(retractable_queue[o]), f \in ToSet(queue[o][current_index]) :
            Time(e) <= Time(f)

\* A send log points only to events that are still allocated, in the lists from
\* which annihilation unlinks them, and no two entries to the same event: an
\* annihilation never touches freed memory.  And sends are logged in the order
\* of their send times, which is what lets a rollback undo from the tail only
\* ("monotonic log assumption").
LogsAreLive ==
    InEpoch =>
    \A o \in Objects : \A i \in DOMAIN log_queue[o] :
        LET e == log_queue[o][i].event
        IN  /\ e \in ToSet(queue[Dest(e)][current_index]) \cup ToSet(retractable_queue[Dest(e)])
            /\ \A p \in Objects : \A j \in DOMAIN log_queue[p] :
                  log_queue[p][j].event = e => p = o /\ i = j
            /\ \A j \in DOMAIN log_queue[o] :
                  i < j => log_queue[o][i].send_time <= log_queue[o][j].send_time

\* The events of a run are apart: two different timestamps differ by at least
\* the constant with which a rollback sets the filter below its time.
TimesApart ==
    \A m \in Models : \A k, l \in Kinds :
        m.time[k] < m.time[l] => m.time[k] <= m.time[l] - Epsilon

\* There is more than one slot, and epsilon is no longer than an epoch:
\* NUM_SLOTS is 2000 (queue.h:8), LOOKAHEAD 1.0 (run.h:11) and epsilon 2.3e-10
\* (random.h:2).
SlotsApart == NUM_SLOTS > 1 /\ Epsilon <= LOOKAHEAD

\* Kind k schedules kind l within its own epoch.
Within(k, l) ==
    l \in ToSet(model.next[k]) /\ model.time[l] \div LOOKAHEAD = model.time[k] \div LOOKAHEAD

\* An object to which events are sent within an epoch does not itself send
\* within an epoch.
FeedForward ==
    \A k, l, p, q \in Kinds : Within(k, l) /\ Within(p, q) => model.dest[l] # model.dest[p]

\* A thread has extracted an event of o but not executed it yet.
Executing(o) == \E t \in Threads : pc[t] = "copy" /\ target[t] = o

\* The state of a settled object is its checkpoint plus the events of its
\* retractable queue, in order: what a rollback would put back is exactly what
\* the restored checkpoint would lose.
HistoryIsRetractable ==
    InEpoch => \A o \in Objects : Settled(o) /\ ~Executing(o) =>
        history[o] = [i \in DOMAIN retractable_queue[o] |-> retractable_queue[o][i].kind]

\* No event exists twice: what a rollback repeats, it had undone.
NothingSentTwice == \A e, f \in Allocated : e.kind = f.kind => e = f

\* "Coasting forward": a send that is suppressed after a rollback is one whose
\* first delivery, logged or withheld, still stands.
CoastingForward ==
    \A t \in Threads : pc[t] = "process" /\ Filtered(t) =>
        \E x \in ToSet(log_queue[current[t]]) \cup ToSet(speculation_queue[current[t]]) :
            x.event.kind = NextSend(t) /\ x.send_time = Time(event[t][1])

-----------------------------------------------------------------------------
(* What an epoch commits *)

EpochOver == \A t \in Threads : pc[t] = "quiet"

\* When the threads meet at the end of an epoch, no object still has to roll
\* back (verify_speculation_status).
NoRollbackLeft == EpochOver => \A o \in Objects : ~speculation[o].standing_rollback

\* The kinds a sequential simulation executes: everything that INIT schedules,
\* and everything that an executed kind schedules.
Scheduled ==
    LET From(S) == S \cup UNION {ToSet(model.next[k]) : k \in S}
        f[n \in 0..Cardinality(Kinds)] ==
            IF n = 0 THEN UNION {ToSet(model.init[o]) : o \in Objects} ELSE From(f[n - 1])
    IN  f[Cardinality(Kinds)]

\* Every epoch commits what a sequential simulation would have executed: on
\* each object all events of the epoch, each once, in timestamp order.
CommitsSequentialRun ==
    EpochOver => \A o \in Objects :
        LET expected == {k \in Scheduled : /\ model.dest[k] = o
                                           /\ model.time[k] \in current_min_limit..(EpochLimit - 1)}
        IN  /\ ToSet(history[o]) = expected
            /\ Len(history[o]) = Cardinality(expected)
            /\ \A i, j \in DOMAIN history[o] :
                  i < j => model.time[history[o][i]] <= model.time[history[o][j]]

\* Rolling back does not go on for ever: each epoch reaches its end, unless the
\* process exits or the simulation is over.
EpochsEnd ==
    \A n \in 0..(LastEpoch - 1) :
        epochs = n ~> epochs = n + 1 \/ status # "running" \/ end
=============================================================================
