------------------------- MODULE ConservativeProofs -------------------------
(***************************************************************************)
(* The conservative engine, for all threads, objects and models.           *)
(*                                                                         *)
(* Execution is exclusive: ProcessEvent holds no lock, and that two        *)
(* threads never run the same object rests on the dispenser alone, which   *)
(* gives out an identifier once per window, and on the barrier, which      *)
(* resets it only when nobody runs an object any more.                     *)
(*                                                                         *)
(* The engine implements Simulation, for every model that respects the     *)
(* lookahead.  A window ends when the dispenser is exhausted and every     *)
(* thread has passed the barrier: that no event is left behind in it needs *)
(* that all its events lie in the slot the engine looks at, that an object *)
(* not yet given out still has its events there, and that no thread        *)
(* inserts into a window whose objects have been given out.  InOrder       *)
(* states this; Once says that an event is in one place only.              *)
(***************************************************************************)
EXTENDS ConservativeEngine, TLAPS, FiniteSetTheorems, SequenceTheorems

-----------------------------------------------------------------------------
(* The inductive invariant *)

\* The state of an engine that runs some simulation model.
ModelOK == model \in Models

\* An object being run has been given out by the dispenser in this window.
GivenOut ==
    \A t \in Threads : pc[t] \in {"extract", "process"} =>
        target[t] \in Objects /\ target[t] < object_identifiers

IInv == TypeOK /\ ModelOK /\ GivenOut /\ ExclusiveExecution

Assumptions == ConservativeAssumption /\ Sim!SimulationAssumption

-----------------------------------------------------------------------------
LEMMA Constants ==
  ASSUME Assumptions
  PROVE  /\ OBJECTS \in Nat /\ LOOKAHEAD \in Nat /\ NUM_SLOTS \in Nat
         /\ OBJECTS > 0 /\ LOOKAHEAD > 0 /\ NUM_SLOTS > 0
         /\ 0 \in Slots
  BY DEF Assumptions, ConservativeAssumption, Slots

LEMMA SlotOfAny ==
  ASSUME Assumptions, NEW i \in Nat
  PROVE  i % NUM_SLOTS \in Slots
  BY DEF Assumptions, ConservativeAssumption, Slots

LEMMA ModelTypes ==
  ASSUME Assumptions, ModelOK
  PROVE  /\ model.init \in [Objects -> Seq(Kinds)]
         /\ model.dest \in [Kinds -> Objects]
         /\ model.time \in [Kinds -> Nat]
         /\ model.next \in [Kinds -> Seq(Kinds)]
  BY DEF Assumptions, ModelOK, Sim!SimulationAssumption, Sim!IsModel

LEMMA InsertedType ==
  ASSUME NEW q \in Seq(Kinds), NEW k \in Kinds
  PROVE  InsertInOrder(q, k) \in Seq(Kinds)
  <1> DEFINE S == {i \in DOMAIN q : \A j \in 1..i : Time(q[j]) <= Time(k)}
             n == Cardinality(S)
  <1>1. IsFiniteSet(1..Len(q))
    BY FS_Interval
  <1>2. Cardinality(1..Len(q)) = IF 1 > Len(q) THEN 0 ELSE Len(q) - 1 + 1
    BY FS_Interval
  <1>3. S \subseteq 1..Len(q)
    OBVIOUS
  <1>4. n \in Nat /\ n <= Len(q)
    BY <1>1, <1>2, <1>3, FS_Subset, FS_CardinalityType
  <1> HIDE DEF n
  <1>5. SubSeq(q, 1, n) \in Seq(Kinds) /\ SubSeq(q, n + 1, Len(q)) \in Seq(Kinds)
    BY <1>4
  <1>6. SubSeq(q, 1, n) \o <<k>> \o SubSeq(q, n + 1, Len(q)) \in Seq(Kinds)
    BY <1>5
  <1> QED
    BY <1>6 DEF InsertInOrder, n

LEMMA RemoveAtType ==
  ASSUME NEW q \in Seq(Kinds), NEW i \in DOMAIN q
  PROVE  RemoveAt(q, i) \in Seq(Kinds)
  <1>1. SubSeq(q, 1, i - 1) \in Seq(Kinds) /\ SubSeq(q, i + 1, Len(q)) \in Seq(Kinds)
    OBVIOUS
  <1> QED
    BY <1>1 DEF RemoveAt

\* Any event can be inserted: its object is one, and so is its slot.
LEMMA InsertType ==
  ASSUME Assumptions, IInv, NEW k \in Kinds, Insert(k)
  PROVE  queue' \in [Objects -> [Slots -> Seq(Kinds)]]
  <1>1. Dest(k) \in Objects /\ Time(k) \in Nat
    BY ModelTypes DEF IInv, Dest, Time
  <1>2. Time(k) \div LOOKAHEAD \in Nat
    BY <1>1, Constants
  <1>3. SlotOf(k) \in Slots
    BY <1>2, SlotOfAny DEF SlotOf
  <1>4. queue[Dest(k)][SlotOf(k)] \in Seq(Kinds)
    BY <1>1, <1>3 DEF IInv, TypeOK
  <1>5. InsertInOrder(queue[Dest(k)][SlotOf(k)], k) \in Seq(Kinds)
    BY <1>4, InsertedType
  <1> QED
    BY <1>1, <1>3, <1>5 DEF Insert, IInv, TypeOK

-----------------------------------------------------------------------------
(* The steps *)

LEMMA InitEstablishes ==
  ASSUME Assumptions, Init
  PROVE  IInv
  <1>1. TypeOK
    <2>1. object_identifiers \in 0..OBJECTS /\ my_index \in [Threads -> Slots]
      BY Constants DEF Init
    <2>2. /\ queue \in [Objects -> [Slots -> Seq(Kinds)]]
          /\ fallback_queue \in [Threads -> Seq(Kinds)]
          /\ executed \in [Objects -> Seq(Kinds)] /\ outbox \in [Threads -> Seq(Kinds)]
      BY DEF Init
    <2>3. pending_events \in Int /\ epochs \in Nat /\ inited \subseteq Objects
      BY DEF Init
    <2>4. end \in BOOLEAN
      BY DEF Init
    <2>5. pc \in [Threads -> Labels] /\ target \in [Threads -> Objects \cup {NoObject, OBJECTS}]
      BY DEF Init, Labels
    <2> QED
      BY <2>1, <2>2, <2>3, <2>4, <2>5 DEF TypeOK
  <1>2. ModelOK
    BY DEF Init, ModelOK
  <1>3. GivenOut /\ ExclusiveExecution
    BY DEF Init, GivenOut, ExclusiveExecution, Runs
  <1> QED
    BY <1>1, <1>2, <1>3 DEF IInv

\* What the steps of INIT, of the queues and of the barriers leave alone.
LEMMA NobodyStarts ==
  ASSUME IInv, model' = model,
         object_identifiers' = object_identifiers,
         \A t \in Threads : pc'[t] \in {"extract", "process"} =>
             pc[t] \in {"extract", "process"} /\ target'[t] = target[t]
  PROVE  ModelOK' /\ GivenOut' /\ ExclusiveExecution'
  <1>1. ModelOK' /\ GivenOut'
    BY DEF IInv, ModelOK, GivenOut
  <1>2. ExclusiveExecution'
    BY DEF IInv, ExclusiveExecution, Runs
  <1> QED
    BY <1>1, <1>2

LEMMA InitObjectPreserves ==
  ASSUME Assumptions, IInv, NEW t \in Threads, InitObject(t)
  PROVE  IInv'
  <1>1. TypeOK'
    <2>1. PICK o \in Objects : inited' = inited \cup {o} /\ outbox' = [outbox EXCEPT ![t] = model.init[o]]
      BY DEF InitObject
    <2>2. model.init[o] \in Seq(Kinds)
      BY ModelTypes DEF IInv
    <2> QED
      BY <2>1, <2>2 DEF InitObject, IInv, TypeOK, queues, window
  <1> QED
    BY <1>1, NobodyStarts DEF InitObject, IInv, window

LEMMA ScheduleNewEventPreserves ==
  ASSUME Assumptions, IInv, NEW t \in Threads, ScheduleNewEvent(t)
  PROVE  IInv'
  <1> DEFINE k == Head(outbox[t])
  <1>1. k \in Kinds /\ Tail(outbox[t]) \in Seq(Kinds)
    BY DEF ScheduleNewEvent, IInv, TypeOK
  <1>2. outbox' \in [Threads -> Seq(Kinds)]
    BY <1>1 DEF ScheduleNewEvent, IInv, TypeOK
  <1>3. /\ queue' \in [Objects -> [Slots -> Seq(Kinds)]]
        /\ fallback_queue' \in [Threads -> Seq(Kinds)]
        /\ pending_events' \in Int
    <2>1. QueueInsert(t, k)
      BY DEF ScheduleNewEvent
    <2>2. CASE Time(k) < current_min_limit
      BY <2>1, <2>2 DEF QueueInsert, queues, IInv, TypeOK
    <2>3. CASE ~(Time(k) < current_min_limit) /\ Time(k) < current_max_limit
      BY <2>1, <2>3, <1>1, InsertType DEF QueueInsert, IInv, TypeOK
    <2>4. CASE ~(Time(k) < current_min_limit) /\ ~(Time(k) < current_max_limit)
      <3>1. Append(fallback_queue[t], k) \in Seq(Kinds)
        BY <1>1 DEF IInv, TypeOK
      <3>2. /\ fallback_queue' = [fallback_queue EXCEPT ![t] = Append(@, k)]
            /\ queue' = queue /\ pending_events' = pending_events + 1
        BY <2>1, <2>4 DEF QueueInsert
      <3> QED
        BY <3>1, <3>2 DEF IInv, TypeOK
    <2> QED
      BY <2>2, <2>3, <2>4
  <1>4. TypeOK'
    BY <1>2, <1>3 DEF ScheduleNewEvent, IInv, TypeOK, window
  <1> QED
    BY <1>4, NobodyStarts DEF ScheduleNewEvent, IInv, window

\* An identifier is given out once, so nobody else runs the object.
LEMMA DispensePreserves ==
  ASSUME Assumptions, IInv, NEW t \in Threads, Dispense(t)
  PROVE  IInv'
  <1>1. CASE object_identifiers < OBJECTS
    <2> DEFINE o == object_identifiers
    <2>1. /\ o \in Objects /\ object_identifiers' = o + 1 /\ object_identifiers' \in 0..OBJECTS
          /\ pc' = [pc EXCEPT ![t] = "extract"] /\ target' = [target EXCEPT ![t] = o]
          /\ model' = model
      <3>1. o \in Nat /\ o \in Objects /\ o + 1 \in 0..OBJECTS
        BY <1>1, Constants DEF IInv, TypeOK, Objects
      <3> QED
        BY <1>1, <3>1 DEF Dispense, Goto
    <2>2. TypeOK'
      BY <2>1 DEF Dispense, IInv, TypeOK, queues, Labels
    <2>3. GivenOut'
      <3> SUFFICES ASSUME NEW u \in Threads, pc'[u] \in {"extract", "process"}
                   PROVE  target'[u] \in Objects /\ target'[u] < object_identifiers'
        BY DEF GivenOut
      <3>1. CASE u = t
        BY <3>1, <2>1, Constants DEF IInv, TypeOK, Objects
      <3>2. CASE u # t
        <4>1. target'[u] = target[u] /\ target[u] \in Objects /\ target[u] < o
          BY <3>2, <2>1 DEF IInv, TypeOK, GivenOut
        <4> QED
          BY <4>1, <2>1, Constants DEF Objects
      <3> QED
        BY <3>1, <3>2
    <2>4. ExclusiveExecution'
      <3> SUFFICES ASSUME NEW u \in Threads, NEW v \in Threads, NEW p \in Objects,
                          Runs(u, p)', Runs(v, p)', u # v
                   PROVE  FALSE
        BY DEF ExclusiveExecution
      <3>1. \A w \in Threads \ {t} : Runs(w, p)' => Runs(w, p) /\ p < o
        BY <2>1 DEF IInv, TypeOK, GivenOut, Runs
      <3>2. Runs(t, p)' => p = o
        BY <2>1 DEF IInv, TypeOK, Runs
      <3> QED
        BY <3>1, <3>2, <2>1, Constants DEF IInv, ExclusiveExecution, Objects
    <2> QED
      BY <2>1, <2>2, <2>3, <2>4 DEF IInv, ModelOK
  <1>2. CASE ~(object_identifiers < OBJECTS)
    <2>1. /\ object_identifiers = OBJECTS /\ object_identifiers' = object_identifiers
          /\ pc' = [pc EXCEPT ![t] = "quiet"] /\ target' = [target EXCEPT ![t] = OBJECTS]
          /\ model' = model
      <3>1. object_identifiers = OBJECTS
        BY <1>2, Constants DEF IInv, TypeOK
      <3> QED
        BY <1>2, <3>1 DEF Dispense, Goto
    <2>2. TypeOK'
      BY <2>1 DEF Dispense, IInv, TypeOK, queues, Labels
    <2>3. \A u \in Threads : pc'[u] \in {"extract", "process"} =>
              pc[u] \in {"extract", "process"} /\ target'[u] = target[u]
      BY <2>1 DEF IInv, TypeOK
    <2> QED
      BY <2>1, <2>2, <2>3, NobodyStarts DEF IInv
  <1> QED
    BY <1>1, <1>2

LEMMA ExtractPreserves ==
  ASSUME Assumptions, IInv, NEW t \in Threads, Extract(t)
  PROVE  IInv'
  <1> DEFINE o == target[t]
             s == my_index[t]
             k == Head(queue[o][s])
  <1>1. o \in Objects /\ s \in Slots /\ queue[o][s] \in Seq(Kinds) /\ queue[o][s] # <<>>
    BY DEF Extract, Slot, IInv, TypeOK, GivenOut
  <1>2. k \in Kinds /\ Tail(queue[o][s]) \in Seq(Kinds)
    BY <1>1
  <1>3. queue' \in [Objects -> [Slots -> Seq(Kinds)]]
    BY <1>1, <1>2 DEF Extract, Slot, IInv, TypeOK
  <1>4. executed' \in [Objects -> Seq(Kinds)]
    <2>1. Append(executed[o], k) \in Seq(Kinds)
      BY <1>1, <1>2 DEF IInv, TypeOK
    <2> QED
      BY <1>1, <2>1 DEF Extract, Slot, IInv, TypeOK
  <1>5. outbox' \in [Threads -> Seq(Kinds)]
    <2>1. model.next[k] \in Seq(Kinds)
      BY <1>2, ModelTypes DEF IInv
    <2> QED
      BY <2>1 DEF Extract, Slot, IInv, TypeOK
  <1>6. TypeOK'
    BY <1>3, <1>4, <1>5 DEF Extract, IInv, TypeOK, window, Goto, Labels
  <1>7. /\ model' = model /\ object_identifiers' = object_identifiers
        /\ \A u \in Threads : pc'[u] \in {"extract", "process"} =>
              pc[u] \in {"extract", "process"} /\ target'[u] = target[u]
    BY DEF Extract, window, Goto, IInv, TypeOK
  <1> QED
    BY <1>6, <1>7, NobodyStarts DEF IInv

LEMMA FallbackInsertPreserves ==
  ASSUME Assumptions, IInv, NEW t \in Threads, FallbackInsert(t)
  PROVE  IInv'
  <1>1. PICK i \in Due(t) : /\ Insert(fallback_queue[t][i])
                            /\ fallback_queue' = [fallback_queue EXCEPT ![t] = RemoveAt(@, i)]
    BY DEF FallbackInsert
  <1>2. /\ fallback_queue[t] \in Seq(Kinds) /\ i \in DOMAIN fallback_queue[t]
        /\ fallback_queue[t][i] \in Kinds
    BY <1>1, ElementOfSeq DEF Due, IInv, TypeOK
  <1>3. RemoveAt(fallback_queue[t], i) \in Seq(Kinds)
    BY <1>2, RemoveAtType
  <1>4. fallback_queue' \in [Threads -> Seq(Kinds)]
    BY <1>1, <1>3 DEF IInv, TypeOK
  <1>5. queue' \in [Objects -> [Slots -> Seq(Kinds)]]
    BY <1>1, <1>2, InsertType
  <1>6. TypeOK'
    BY <1>4, <1>5 DEF FallbackInsert, IInv, TypeOK, window
  <1> QED
    BY <1>6, NobodyStarts DEF FallbackInsert, IInv, window

LEMMA FallbackDonePreserves ==
  ASSUME Assumptions, IInv, NEW t \in Threads, FallbackDone(t)
  PROVE  IInv'
  <1>1. current_index \in Slots
    BY SlotOfAny DEF current_index, IInv, TypeOK
  <1>2. TypeOK'
    BY <1>1 DEF FallbackDone, Goto, IInv, TypeOK, queues, window, Labels
  <1>3. /\ model' = model /\ object_identifiers' = object_identifiers
        /\ \A u \in Threads : pc'[u] \in {"extract", "process"} =>
              pc[u] \in {"extract", "process"} /\ target'[u] = target[u]
    BY DEF FallbackDone, Goto, window, IInv, TypeOK
  <1> QED
    BY <1>2, <1>3, NobodyStarts DEF IInv

\* The steps of a thread that only move its program counter.
LEMMA MovePreserves ==
  ASSUME Assumptions, IInv, NEW t \in Threads, 
         InitDone(t) \/ Finish(t) \/ Empty(t) \/ GetEvent(t)
  PROVE  IInv'
  <1>1. /\ UNCHANGED <<model, queues, window, inited, executed, target, my_index, outbox>>
        /\ pc' \in [Threads -> Labels]
        /\ \A u \in Threads : pc'[u] \in {"extract", "process"} => pc[u] \in {"extract", "process"}
    BY DEF InitDone, Finish, Empty, GetEvent, Goto, IInv, TypeOK, Labels
  <1>2. TypeOK'
    BY <1>1 DEF IInv, TypeOK, queues, window
  <1> QED
    BY <1>1, <1>2, NobodyStarts DEF IInv, window

\* Nobody runs an object when the dispenser is reset.
LEMMA BarriersPreserve ==
  ASSUME Assumptions, IInv, Barriers
  PROVE  IInv'
  <1>1. CASE UpdateTiming
    <2>1. TypeOK'
      <3>1. object_identifiers' \in 0..OBJECTS /\ epochs' \in Nat /\ end' \in BOOLEAN
        BY <1>1, Constants DEF UpdateTiming, IInv, TypeOK
      <3> QED
        BY <1>1, <3>1 DEF UpdateTiming, IInv, TypeOK, queues, Labels
    <2>2. GivenOut' /\ ExclusiveExecution'
      BY <1>1 DEF UpdateTiming, GivenOut, ExclusiveExecution, Runs
    <2> QED
      BY <1>1, <2>1, <2>2 DEF UpdateTiming, IInv, ModelOK
  <1>2. CASE Barrier("started") \/ Barrier("ready")
    <2>1. /\ UNCHANGED <<model, queues, window, inited, executed, target, my_index, outbox>>
          /\ pc' = [t \in Threads |-> "dispense"]
      BY <1>2 DEF Barrier
    <2>2. TypeOK'
      BY <2>1 DEF IInv, TypeOK, queues, window, Labels
    <2> QED
      BY <2>1, <2>2, NobodyStarts DEF IInv, window
  <1> QED
    BY <1>1, <1>2 DEF Barriers

LEMMA StepPreserves ==
  ASSUME Assumptions
  PROVE  IInv /\ [Next]_vars => IInv'
  <1> SUFFICES ASSUME IInv, [Next]_vars PROVE IInv'
    OBVIOUS
  <1>1. CASE Barriers
    BY <1>1, BarriersPreserve
  <1>2. ASSUME NEW t \in Threads, Step(t) PROVE IInv'
    BY <1>2, InitObjectPreserves, ScheduleNewEventPreserves, DispensePreserves, ExtractPreserves,
       FallbackInsertPreserves, FallbackDonePreserves, MovePreserves DEF Step
  <1>3. CASE UNCHANGED vars
    BY <1>3 DEF vars, queues, window, IInv, TypeOK, ModelOK, GivenOut, ExclusiveExecution, Runs
  <1> QED
    BY <1>1, <1>2, <1>3 DEF Next

-----------------------------------------------------------------------------
(* Theorems *)

LEMMA Inductive ==
  ASSUME Assumptions
  PROVE  Spec => []IInv
  <1>1. Init => IInv
    BY InitEstablishes
  <1>2. IInv /\ [Next]_vars => IInv'
    BY StepPreserves
  <1> QED
    BY <1>1, <1>2, PTL DEF Spec

\* Every variable keeps its type: an index stays within the slots and the
\* dispenser within the objects, for any threads, objects, slots and models.
THEOREM TypeCorrect ==
  ASSUME Assumptions
  PROVE  Spec => []TypeOK
  <1>1. IInv => TypeOK
    BY DEF IInv
  <1> QED
    BY <1>1, Inductive, PTL

\* No two threads ever run the same object, although ProcessEvent holds no
\* lock (engine.c), for any number of threads and objects.
THEOREM ExecutionIsExclusive ==
  ASSUME Assumptions
  PROVE  Spec => []ExclusiveExecution
  <1>1. IInv => ExclusiveExecution
    BY DEF IInv
  <1> QED
    BY <1>1, Inductive, PTL

-----------------------------------------------------------------------------
(* Lists of events *)

\* A list is in the order of the timestamps.
Sorted(q) == \A i, j \in DOMAIN q : i < j => Time(q[i]) <= Time(q[j])

LEMMA Elements ==
  ASSUME NEW q \in Seq(Kinds)
  PROVE  /\ Len(q) \in Nat /\ DOMAIN q = 1..Len(q)
         /\ \A i \in 1..Len(q) : q[i] \in Kinds
         /\ \A p \in ToSet(q) : p \in Kinds /\ \E i \in 1..Len(q) : p = q[i]
  <1>1. Len(q) \in Nat /\ DOMAIN q = 1..Len(q)
    OBVIOUS
  <1>2. \A i \in 1..Len(q) : q[i] \in Kinds
    BY ElementOfSeq
  <1> QED
    BY <1>1, <1>2 DEF ToSet

\* Part of a list.
LEMMA Sublist ==
  ASSUME NEW q \in Seq(Kinds), NEW m \in Nat \ {0}, NEW n \in 0..Len(q), m <= n + 1
  PROVE  LET r == SubSeq(q, m, n)
         IN  /\ r \in Seq(Kinds) /\ Len(r) = (n - m) + 1
             /\ \A i \in 1..((n - m) + 1) : r[i] = q[(m + i) - 1]
  <1>1. Len(q) \in Nat /\ \A i \in 1..Len(q) : q[i] \in Kinds
    BY Elements
  <1>2. m \in Int /\ n \in Int /\ m..n \subseteq 1..Len(q)
    BY <1>1
  <1>3. /\ SubSeq(q, m, n) \in Seq(Kinds)
        /\ Len(SubSeq(q, m, n)) = IF m <= n THEN n - m + 1 ELSE 0
        /\ \A i \in 1..(n - m + 1) : SubSeq(q, m, n)[i] = q[m + i - 1]
    BY <1>1, <1>2, SubSeqProperties
  <1>4. (IF m <= n THEN n - m + 1 ELSE 0) = (n - m) + 1
    BY <1>2
  <1> QED
    BY <1>3, <1>4

\* Where InsertInOrder puts an event: behind n events that are not later, in
\* front of one that is.
LEMMA InsertedAt ==
  ASSUME NEW q \in Seq(Kinds), NEW k \in Kinds
  PROVE  \E n \in 0..Len(q) :
            /\ InsertInOrder(q, k) = SubSeq(q, 1, n) \o <<k>> \o SubSeq(q, n + 1, Len(q))
            /\ \A i \in 1..n : Time(q[i]) <= Time(k)
            /\ n < Len(q) => ~(Time(q[n + 1]) <= Time(k))
  <1> DEFINE S == {i \in DOMAIN q : \A j \in 1..i : Time(q[j]) <= Time(k)}
             n == Cardinality(S)
  <1>1. Len(q) \in Nat /\ DOMAIN q = 1..Len(q)
    OBVIOUS
  <1>2. \A i \in Nat : IsFiniteSet(1..i) /\ Cardinality(1..i) = i
    <2> SUFFICES ASSUME NEW i \in Nat PROVE IsFiniteSet(1..i) /\ Cardinality(1..i) = i
      OBVIOUS
    <2>1. IsFiniteSet(1..i) /\ Cardinality(1..i) = IF 1 > i THEN 0 ELSE i - 1 + 1
      BY FS_Interval
    <2> QED
      BY <2>1
  <1>3. S \in SUBSET (1..Len(q))
    BY <1>1
  <1>4. IsFiniteSet(S) /\ n \in 0..Len(q)
    <2>1. IsFiniteSet(S) /\ n <= Cardinality(1..Len(q))
      BY <1>1, <1>2, <1>3, FS_Subset
    <2> QED
      BY <1>1, <1>2, <2>1, FS_CardinalityType
  <1>5. \A i \in S : i <= n
    <2> SUFFICES ASSUME NEW i \in S PROVE i <= n
      OBVIOUS
    <2>1. 1..i \in SUBSET S
      BY <1>1
    <2>2. Cardinality(1..i) <= n
      BY <2>1, <1>4, FS_Subset
    <2> QED
      BY <2>2, <1>1, <1>2
  <1>6. S = 1..n
    <2>1. S \in SUBSET (1..n)
      BY <1>5, <1>3, <1>4
    <2>2. Cardinality(1..n) = Cardinality(S) /\ IsFiniteSet(1..n)
      BY <1>2, <1>4
    <2> QED
      BY <2>1, <2>2, FS_Subset
  <1>7. InsertInOrder(q, k) = SubSeq(q, 1, n) \o <<k>> \o SubSeq(q, n + 1, Len(q))
    BY DEF InsertInOrder
  <1> HIDE DEF n
  <1>8. \A i \in 1..n : Time(q[i]) <= Time(k)
    <2> SUFFICES ASSUME NEW i \in 1..n PROVE Time(q[i]) <= Time(k)
      OBVIOUS
    <2>1. i \in S /\ i \in 1..i
      BY <1>4, <1>6
    <2> QED
      BY <2>1
  <1>9. n < Len(q) => ~(Time(q[n + 1]) <= Time(k))
    <2> SUFFICES ASSUME n < Len(q), Time(q[n + 1]) <= Time(k) PROVE FALSE
      OBVIOUS
    <2>1. n + 1 \in DOMAIN q /\ n + 1 \notin 1..n
      BY <1>1, <1>4
    <2>2. \A j \in 1..(n + 1) : Time(q[j]) <= Time(k)
      BY <1>4, <1>8
    <2>3. n + 1 \in S
      BY <2>1, <2>2
    <2> QED
      BY <2>1, <2>3, <1>6
  <1> QED
    BY <1>4, <1>7, <1>8, <1>9

\* InsertInOrder adds the event and keeps the order.
LEMMA Inserted ==
  ASSUME Assumptions, ModelOK, NEW q \in Seq(Kinds), NEW k \in Kinds
  PROVE  LET r == InsertInOrder(q, k)
         IN  /\ r \in Seq(Kinds) /\ DOMAIN r = 1..(Len(q) + 1)
             /\ ToSet(r) = ToSet(q) \cup {k}
             /\ Sorted(q) => Sorted(r)
             /\ IsInjective(q) /\ k \notin ToSet(q) => IsInjective(r)
  <1> DEFINE r == InsertInOrder(q, k)
  <1>t. \A p \in Kinds : Time(p) \in Nat
    BY ModelTypes DEF Time
  <1>1. PICK n \in 0..Len(q) :
            /\ r = SubSeq(q, 1, n) \o <<k>> \o SubSeq(q, n + 1, Len(q))
            /\ \A i \in 1..n : Time(q[i]) <= Time(k)
            /\ n < Len(q) => ~(Time(q[n + 1]) <= Time(k))
    BY InsertedAt
  <1>q. /\ Len(q) \in Nat /\ DOMAIN q = 1..Len(q) /\ n \in Nat /\ n <= Len(q)
        /\ \A i \in 1..Len(q) : q[i] \in Kinds
    BY Elements
  <1>2. /\ r \in Seq(Kinds) /\ Len(r) = Len(q) + 1 /\ DOMAIN r = 1..(Len(q) + 1)
        /\ \A i \in 1..n : r[i] = q[i]
        /\ r[n + 1] = k
        /\ \A i \in (n + 2)..(Len(q) + 1) : r[i] = q[i - 1]
    <2> DEFINE a == SubSeq(q, 1, n)
               b == SubSeq(q, n + 1, Len(q))
    <2>1. a \in Seq(Kinds) /\ Len(a) = n /\ \A i \in 1..n : a[i] = q[i]
      <3>1. /\ a \in Seq(Kinds) /\ Len(a) = (n - 1) + 1
            /\ \A i \in 1..((n - 1) + 1) : a[i] = q[(1 + i) - 1]
        <4> HIDE DEF a
        <4>1. 1 \in Nat \ {0} /\ n \in 0..Len(q) /\ 1 <= n + 1
          BY <1>q
        <4> QED
          BY <4>1, Sublist DEF a
      <3> HIDE DEF a
      <3> QED
        BY <3>1, <1>q
    <2>2. b \in Seq(Kinds) /\ Len(b) = Len(q) - n /\ \A i \in 1..(Len(q) - n) : b[i] = q[n + i]
      <3>1. /\ b \in Seq(Kinds) /\ Len(b) = (Len(q) - (n + 1)) + 1
            /\ \A i \in 1..((Len(q) - (n + 1)) + 1) : b[i] = q[((n + 1) + i) - 1]
        <4> HIDE DEF b
        <4>1. n + 1 \in Nat \ {0} /\ Len(q) \in 0..Len(q) /\ n + 1 <= Len(q) + 1
          BY <1>q
        <4> QED
          BY <4>1, Sublist DEF b
      <3> HIDE DEF b
      <3>2. /\ (Len(q) - (n + 1)) + 1 = Len(q) - n
            /\ \A i \in 1..(Len(q) - n) : ((n + 1) + i) - 1 = n + i
        BY <1>q
      <3> QED
        BY <3>1, <3>2
    <2>3. r = a \o <<k>> \o b
      BY <1>1
    <2> DEFINE c == a \o <<k>>
    <2>4. c \in Seq(Kinds) /\ Len(c) = n + 1
      BY <2>1, <1>q
    <2>5. (\A i \in 1..n : c[i] = q[i]) /\ c[n + 1] = k
      BY <2>1, <1>q
    <2> HIDE DEF a, b, c, r
    <2>6. r = c \o b
      BY <2>3 DEF c
    <2>7. r \in Seq(Kinds) /\ Len(r) = Len(q) + 1
      <3>1. r \in Seq(Kinds) /\ Len(r) = Len(c) + Len(b)
        BY <2>2, <2>4, <2>6, ConcatProperties
      <3> QED
        BY <3>1, <2>2, <2>4, <1>q
    <2>8. \A i \in 1..(n + 1) : r[i] = c[i]
      BY <2>2, <2>4, <2>6, <1>q
    <2>9. \A i \in (n + 2)..(Len(q) + 1) : r[i] = b[i - (n + 1)]
      BY <2>2, <2>4, <2>6, <1>q
    <2>10. \A i \in (n + 2)..(Len(q) + 1) :
              i - (n + 1) \in 1..(Len(q) - n) /\ n + (i - (n + 1)) = i - 1
      BY <1>q
    <2>11. \A i \in (n + 2)..(Len(q) + 1) : r[i] = q[i - 1]
      BY <2>2, <2>9, <2>10
    <2>12. \A i \in 1..n : r[i] = q[i]
      BY <2>5, <2>8, <1>q
    <2>13. r[n + 1] = k
      BY <2>5, <2>8, <1>q
    <2> QED
      BY <2>7, <2>11, <2>12, <2>13
  <1> HIDE DEF r
  <1>3. ToSet(r) = ToSet(q) \cup {k}
    <2>1. ASSUME NEW i \in 1..Len(q) PROVE \E j \in DOMAIN r : r[j] = q[i]
      <3>1. CASE i <= n
        <4>1. i \in 1..n /\ i \in DOMAIN r
          BY <3>1, <1>2, <1>q
        <4> QED
          BY <4>1, <1>2
      <3>2. CASE i > n
        <4>1. i + 1 \in (n + 2)..(Len(q) + 1) /\ i + 1 \in DOMAIN r /\ (i + 1) - 1 = i
          BY <3>2, <1>2, <1>q
        <4> QED
          BY <4>1, <1>2
      <3> QED
        BY <3>1, <3>2, <1>q
    <2>2. k \in ToSet(r)
      <3>1. n + 1 \in DOMAIN r
        BY <1>2, <1>q
      <3> QED
        BY <3>1, <1>2 DEF ToSet
    <2>3. ASSUME NEW i \in DOMAIN r PROVE r[i] \in ToSet(q) \cup {k}
      <3>1. CASE i \in 1..n
        BY <3>1, <1>2, <1>q DEF ToSet
      <3>2. CASE i = n + 1
        BY <3>2, <1>2
      <3>3. CASE i \in (n + 2)..(Len(q) + 1)
        <4>1. i - 1 \in DOMAIN q /\ r[i] = q[i - 1]
          BY <3>3, <1>2, <1>q
        <4> QED
          BY <4>1 DEF ToSet
      <3> QED
        BY <3>1, <3>2, <3>3, <1>2, <1>q
    <2> QED
      BY <2>1, <2>2, <2>3, <1>q DEF ToSet
  <1>4. ASSUME Sorted(q) PROVE Sorted(r)
    <2> SUFFICES ASSUME NEW i \in DOMAIN r, NEW j \in DOMAIN r, i < j
                 PROVE  Time(r[i]) <= Time(r[j])
      BY DEF Sorted
    <2>s. \A x, y \in 1..Len(q) : x <= y => Time(q[x]) <= Time(q[y])
      <3> SUFFICES ASSUME NEW x \in 1..Len(q), NEW y \in 1..Len(q), x <= y
                   PROVE  Time(q[x]) <= Time(q[y])
        OBVIOUS
      <3>1. CASE x = y
        BY <3>1, <1>q, <1>t
      <3>2. CASE x < y
        BY <3>2, <1>4, <1>q DEF Sorted
      <3> QED
        BY <3>1, <3>2
    <2>1. CASE j \in 1..n
      <3>1. i \in 1..n /\ i \in 1..Len(q) /\ j \in 1..Len(q) /\ i <= j
        BY <2>1, <1>2, <1>q
      <3> QED
        BY <3>1, <2>1, <2>s, <1>2
    <2>2. CASE j = n + 1
      <3>1. i \in 1..n
        BY <2>2, <1>2, <1>q
      <3> QED
        BY <3>1, <2>2, <1>1, <1>2
    <2>3. CASE j \in (n + 2)..(Len(q) + 1)
      <3>1. j - 1 \in 1..Len(q) /\ n + 1 \in 1..Len(q) /\ n + 1 <= j - 1 /\ n < Len(q) /\ r[j] = q[j - 1]
        BY <2>3, <1>2, <1>q
      <3>2. Time(k) <= Time(q[n + 1])
        BY <3>1, <1>1, <1>q, <1>t
      <3>3. Time(q[n + 1]) <= Time(q[j - 1])
        BY <3>1, <2>s
      <3>4. Time(k) \in Nat /\ Time(q[n + 1]) \in Nat /\ Time(q[j - 1]) \in Nat
        BY <3>1, <1>q, <1>t
      <3>5. CASE i \in 1..n
        <4>1. Time(q[i]) <= Time(k) /\ Time(q[i]) \in Nat /\ r[i] = q[i]
          BY <3>5, <1>1, <1>2, <1>q, <1>t
        <4> QED
          BY <4>1, <3>1, <3>2, <3>3, <3>4
      <3>6. CASE i = n + 1
        BY <3>6, <3>1, <3>2, <3>3, <3>4, <1>2
      <3>7. CASE i \in (n + 2)..(Len(q) + 1)
        <4>1. i - 1 \in 1..Len(q) /\ i - 1 <= j - 1 /\ r[i] = q[i - 1]
          BY <3>7, <2>3, <1>2, <1>q
        <4> QED
          BY <4>1, <3>1, <2>s
      <3> QED
        BY <3>5, <3>6, <3>7, <1>2, <1>q
    <2> QED
      BY <2>1, <2>2, <2>3, <1>2, <1>q
  <1>5. ASSUME IsInjective(q), k \notin ToSet(q) PROVE IsInjective(r)
    <2> SUFFICES ASSUME NEW i \in DOMAIN r, NEW j \in DOMAIN r, r[i] = r[j], i < j
                 PROVE  FALSE
      BY <1>2, <1>q DEF IsInjective
    <2>k. \A x \in 1..Len(q) : q[x] # k
      BY <1>5, <1>q DEF ToSet
    <2>i. \A x, y \in 1..Len(q) : q[x] = q[y] => x = y
      BY <1>5, <1>q DEF IsInjective
    <2>1. CASE j \in 1..n
      <3>1. i \in 1..n /\ i \in 1..Len(q) /\ j \in 1..Len(q)
        BY <2>1, <1>2, <1>q
      <3> QED
        BY <3>1, <2>1, <2>i, <1>2
    <2>2. CASE j = n + 1
      <3>1. i \in 1..n /\ i \in 1..Len(q)
        BY <2>2, <1>2, <1>q
      <3> QED
        BY <3>1, <2>2, <2>k, <1>2
    <2>3. CASE j \in (n + 2)..(Len(q) + 1)
      <3>1. j - 1 \in 1..Len(q) /\ r[j] = q[j - 1]
        BY <2>3, <1>2, <1>q
      <3>2. CASE i \in 1..n
        <4>1. i \in 1..Len(q) /\ r[i] = q[i] /\ i # j - 1
          BY <3>2, <2>3, <1>2, <1>q
        <4> QED
          BY <4>1, <3>1, <2>i
      <3>3. CASE i = n + 1
        BY <3>3, <3>1, <2>k, <1>2
      <3>4. CASE i \in (n + 2)..(Len(q) + 1)
        <4>1. i - 1 \in 1..Len(q) /\ r[i] = q[i - 1] /\ i - 1 # j - 1
          BY <3>4, <2>3, <1>2, <1>q
        <4> QED
          BY <4>1, <3>1, <2>i
      <3> QED
        BY <3>2, <3>3, <3>4, <1>2, <1>q
    <2> QED
      BY <2>1, <2>2, <2>3, <1>2, <1>q
  <1> QED
    BY <1>2, <1>3, <1>4, <1>5 DEF r

\* The first event of a list, and what is left without it.
LEMMA Tailed ==
  ASSUME Assumptions, ModelOK, NEW q \in Seq(Kinds), q # <<>>
  PROVE  /\ Head(q) \in Kinds /\ Tail(q) \in Seq(Kinds)
         /\ ToSet(q) = {Head(q)} \cup ToSet(Tail(q))
         /\ Sorted(q) => Sorted(Tail(q)) /\ \A p \in ToSet(q) : Time(Head(q)) <= Time(p)
         /\ IsInjective(q) => IsInjective(Tail(q)) /\ Head(q) \notin ToSet(Tail(q))
  <1> DEFINE r == Tail(q)
  <1>t. \A p \in Kinds : Time(p) \in Nat
    BY ModelTypes DEF Time
  <1>q. /\ Len(q) \in Nat /\ DOMAIN q = 1..Len(q) /\ Len(q) >= 1
        /\ \A i \in 1..Len(q) : q[i] \in Kinds
    BY Elements
  <1>1. /\ Head(q) = q[1] /\ q[1] \in Kinds
        /\ r \in Seq(Kinds) /\ Len(r) = Len(q) - 1 /\ DOMAIN r = 1..(Len(q) - 1)
        /\ \A i \in 1..(Len(q) - 1) : r[i] = q[i + 1]
    BY <1>q
  <1> HIDE DEF r
  <1>2. ToSet(q) = {q[1]} \cup ToSet(r)
    <2>1. ASSUME NEW i \in DOMAIN q PROVE q[i] \in {q[1]} \cup ToSet(r)
      <3>1. CASE i = 1
        BY <3>1
      <3>2. CASE i # 1
        <4>1. i - 1 \in DOMAIN r /\ r[i - 1] = q[i]
          BY <3>2, <1>q, <1>1
        <4> QED
          BY <4>1 DEF ToSet
      <3> QED
        BY <3>1, <3>2
    <2>2. ASSUME NEW i \in DOMAIN r PROVE r[i] \in ToSet(q)
      <3>1. i + 1 \in DOMAIN q /\ r[i] = q[i + 1]
        BY <1>q, <1>1
      <3> QED
        BY <3>1 DEF ToSet
    <2>3. q[1] \in ToSet(q)
      <3>1. 1 \in DOMAIN q
        BY <1>q
      <3> QED
        BY <3>1 DEF ToSet
    <2> QED
      BY <2>1, <2>2, <2>3 DEF ToSet
  <1>3. ASSUME Sorted(q) PROVE Sorted(r) /\ \A p \in ToSet(q) : Time(q[1]) <= Time(p)
    <2>1. Sorted(r)
      <3> SUFFICES ASSUME NEW i \in DOMAIN r, NEW j \in DOMAIN r, i < j
                   PROVE  Time(r[i]) <= Time(r[j])
        BY DEF Sorted
      <3>1. i + 1 \in DOMAIN q /\ j + 1 \in DOMAIN q /\ i + 1 < j + 1
        BY <1>q, <1>1
      <3> QED
        BY <3>1, <1>3, <1>1 DEF Sorted
    <2>2. ASSUME NEW p \in ToSet(q) PROVE Time(q[1]) <= Time(p)
      <3>1. PICK i \in DOMAIN q : p = q[i]
        BY <2>2 DEF ToSet
      <3>2. CASE i = 1
        BY <3>1, <3>2, <1>1, <1>t
      <3>3. CASE i # 1
        <4>1. 1 \in DOMAIN q /\ 1 < i
          BY <3>3, <1>q
        <4> QED
          BY <4>1, <3>1, <1>3 DEF Sorted
      <3> QED
        BY <3>2, <3>3
    <2> QED
      BY <2>1, <2>2
  <1>4. ASSUME IsInjective(q) PROVE IsInjective(r) /\ q[1] \notin ToSet(r)
    <2>1. IsInjective(r)
      <3> SUFFICES ASSUME NEW i \in DOMAIN r, NEW j \in DOMAIN r, r[i] = r[j] PROVE i = j
        BY DEF IsInjective
      <3>1. i + 1 \in DOMAIN q /\ j + 1 \in DOMAIN q /\ q[i + 1] = q[j + 1]
        BY <1>q, <1>1
      <3>2. i + 1 = j + 1
        BY <3>1, <1>4 DEF IsInjective
      <3> QED
        BY <3>2, <1>q, <1>1
    <2>2. ASSUME NEW i \in DOMAIN r, r[i] = q[1] PROVE FALSE
      <3>1. i + 1 \in DOMAIN q /\ 1 \in DOMAIN q /\ q[i + 1] = q[1] /\ i + 1 # 1
        BY <2>2, <1>q, <1>1
      <3> QED
        BY <3>1, <1>4 DEF IsInjective
    <2> QED
      BY <2>1, <2>2 DEF ToSet
  <1> QED
    BY <1>1, <1>2, <1>3, <1>4 DEF r

LEMMA Appended ==
  ASSUME NEW q \in Seq(Kinds), NEW k \in Kinds
  PROVE  /\ ToSet(Append(q, k)) = ToSet(q) \cup {k}
         /\ IsInjective(q) /\ k \notin ToSet(q) => IsInjective(Append(q, k))
  <1> DEFINE r == Append(q, k)
             n == Len(q)
  <1>1. /\ n \in Nat /\ DOMAIN q = 1..n /\ DOMAIN r = 1..(n + 1)
        /\ r[n + 1] = k /\ \A i \in 1..n : r[i] = q[i]
    OBVIOUS
  <1> HIDE DEF r, n
  <1>2. ToSet(r) = ToSet(q) \cup {k}
    <2>1. ASSUME NEW i \in DOMAIN r PROVE r[i] \in ToSet(q) \cup {k}
      <3>1. i = n + 1 \/ i \in DOMAIN q
        BY <1>1
      <3> QED
        BY <3>1, <1>1 DEF ToSet
    <2>2. n + 1 \in DOMAIN r /\ DOMAIN q \subseteq DOMAIN r
      BY <1>1
    <2> QED
      BY <2>1, <2>2, <1>1 DEF ToSet
  <1>3. ASSUME IsInjective(q), k \notin ToSet(q) PROVE IsInjective(r)
    <2> SUFFICES ASSUME NEW i \in DOMAIN r, NEW j \in DOMAIN r, r[i] = r[j] PROVE i = j
      BY DEF IsInjective
    <2>1. (i = n + 1 \/ i \in DOMAIN q) /\ (j = n + 1 \/ j \in DOMAIN q)
      BY <1>1
    <2> QED
      BY <2>1, <1>1, <1>3 DEF IsInjective, ToSet
  <1> QED
    BY <1>2, <1>3 DEF r

LEMMA Removed ==
  ASSUME NEW q \in Seq(Kinds), NEW x \in DOMAIN q
  PROVE  /\ DOMAIN RemoveAt(q, x) = 1..(Len(q) - 1)
         /\ ToSet(q) = ToSet(RemoveAt(q, x)) \cup {q[x]}
         /\ IsInjective(q) => /\ IsInjective(RemoveAt(q, x))
                              /\ q[x] \notin ToSet(RemoveAt(q, x))
  <1> DEFINE r == RemoveAt(q, x)
             n == Len(q)
             old(i) == IF i < x THEN i ELSE i + 1
  <1>1. n \in Nat /\ DOMAIN q = 1..n /\ x \in 1..n
    OBVIOUS
  <1>2. /\ DOMAIN r = 1..(n - 1)
        /\ \A i \in 1..(n - 1) : r[i] = q[old(i)]
    <2> DEFINE a == SubSeq(q, 1, x - 1)
               b == SubSeq(q, x + 1, n)
    <2>1. a \in Seq(Kinds) /\ Len(a) = x - 1 /\ \A i \in 1..(x - 1) : a[i] = q[i]
      <3>1. /\ a \in Seq(Kinds) /\ Len(a) = ((x - 1) - 1) + 1
            /\ \A i \in 1..(((x - 1) - 1) + 1) : a[i] = q[(1 + i) - 1]
        <4> HIDE DEF a
        <4>1. 1 \in Nat \ {0} /\ x - 1 \in 0..Len(q) /\ 1 <= (x - 1) + 1
          BY <1>1
        <4> QED
          BY <4>1, Sublist DEF a
      <3> HIDE DEF a
      <3> QED
        BY <3>1, <1>1
    <2>2. b \in Seq(Kinds) /\ Len(b) = n - x /\ \A i \in 1..(n - x) : b[i] = q[x + i]
      <3>1. /\ b \in Seq(Kinds) /\ Len(b) = (n - (x + 1)) + 1
            /\ \A i \in 1..((n - (x + 1)) + 1) : b[i] = q[((x + 1) + i) - 1]
        <4> HIDE DEF b
        <4>1. x + 1 \in Nat \ {0} /\ n \in 0..Len(q) /\ x + 1 <= n + 1
          BY <1>1
        <4> QED
          BY <4>1, Sublist DEF b
      <3> HIDE DEF b, n
      <3>2. (n - (x + 1)) + 1 = n - x /\ \A i \in 1..(n - x) : ((x + 1) + i) - 1 = x + i
        BY <1>1
      <3> QED
        BY <3>1, <3>2
    <2>3. r = a \o b
      BY DEF RemoveAt
    <2> HIDE DEF a, b, r, n
    <2>4. DOMAIN r = 1..(n - 1)
      BY <2>1, <2>2, <2>3, <1>1
    <2>5. \A i \in 1..(x - 1) : r[i] = a[i]
      BY <2>1, <2>2, <2>3, <1>1
    <2>6. \A i \in x..(n - 1) : r[i] = b[i - (x - 1)]
      BY <2>1, <2>2, <2>3, <1>1
    <2>7. \A i \in x..(n - 1) : i - (x - 1) \in 1..(n - x) /\ x + (i - (x - 1)) = i + 1
      BY <1>1
    <2>8. \A i \in x..(n - 1) : r[i] = q[i + 1]
      BY <2>2, <2>6, <2>7
    <2> QED
      BY <2>1, <2>4, <2>5, <2>8, <1>1
  <1> HIDE DEF r, n
  <1>3. \A i \in DOMAIN r : old(i) \in DOMAIN q /\ old(i) # x
    BY <1>1, <1>2
  <1>4. \A i, j \in DOMAIN r : old(i) = old(j) => i = j
    BY <1>1, <1>2
  <1>5. \A j \in DOMAIN q : j # x => \E i \in DOMAIN r : old(i) = j
    <2> SUFFICES ASSUME NEW j \in DOMAIN q, j # x PROVE \E i \in DOMAIN r : old(i) = j
      OBVIOUS
    <2>1. CASE j < x
      <3>1. j \in DOMAIN r /\ old(j) = j
        BY <2>1, <1>1, <1>2
      <3> QED
        BY <3>1
    <2>2. CASE j > x
      <3>1. j - 1 \in DOMAIN r /\ old(j - 1) = j
        BY <2>2, <1>1, <1>2
      <3> QED
        BY <3>1
    <2> QED
      BY <2>1, <2>2, <1>1
  <1> HIDE DEF old
  <1>6. ToSet(q) = ToSet(r) \cup {q[x]}
    BY <1>2, <1>3, <1>5 DEF ToSet
  <1>7. ASSUME IsInjective(q) PROVE IsInjective(r) /\ q[x] \notin ToSet(r)
    <2>1. \A i, j \in DOMAIN r : r[i] = r[j] => i = j
      BY <1>2, <1>3, <1>4, <1>7 DEF IsInjective
    <2>2. \A i \in DOMAIN r : r[i] # q[x]
      BY <1>2, <1>3, <1>7 DEF IsInjective
    <2> QED
      BY <2>1, <2>2 DEF IsInjective, ToSet
  <1> QED
    BY <1>2, <1>6, <1>7 DEF r, n

-----------------------------------------------------------------------------
(* Windows and slots *)

LEMMA Limits ==
  ASSUME Assumptions, IInv
  PROVE  /\ current_min_limit \in Nat /\ current_max_limit \in Nat
         /\ LOOKAHEAD \in Nat /\ LOOKAHEAD > 0
         /\ current_min_limit + LOOKAHEAD <= current_max_limit
         /\ \A k \in Kinds : Time(k) \in Nat /\ Dest(k) \in Objects /\ SlotOf(k) \in Slots
         /\ current_index \in Slots
  <1>1. epochs \in Nat /\ LOOKAHEAD \in Nat /\ NUM_SLOTS \in Nat /\ LOOKAHEAD > 0 /\ NUM_SLOTS > 0
    BY Constants DEF IInv, TypeOK
  <1>2. epochs * LOOKAHEAD \in Nat
    BY <1>1
  <1>3. NUM_SLOTS * LOOKAHEAD \in Nat /\ NUM_SLOTS * LOOKAHEAD >= LOOKAHEAD
    <2>1. (NUM_SLOTS - 1) * LOOKAHEAD \in Nat
      BY <1>1
    <2>2. NUM_SLOTS * LOOKAHEAD = (NUM_SLOTS - 1) * LOOKAHEAD + LOOKAHEAD
      BY <1>1
    <2> QED
      BY <1>1, <2>1, <2>2
  <1>4. /\ current_min_limit \in Nat /\ current_max_limit \in Nat
        /\ current_min_limit + LOOKAHEAD <= current_max_limit
    BY <1>1, <1>2, <1>3 DEF current_min_limit, current_max_limit
  <1>5. ASSUME NEW k \in Kinds
        PROVE  Time(k) \in Nat /\ Dest(k) \in Objects /\ SlotOf(k) \in Slots
    <2>1. Time(k) \in Nat /\ Dest(k) \in Objects
      BY ModelTypes DEF IInv, Time, Dest
    <2>2. Time(k) \div LOOKAHEAD \in Nat
      BY <2>1, <1>1
    <2> QED
      BY <2>1, <2>2, SlotOfAny DEF SlotOf
  <1>6. current_index \in Slots
    BY <1>1, SlotOfAny DEF current_index
  <1> QED
    BY <1>1, <1>4, <1>5, <1>6

\* Two numbers that are less than N apart and agree modulo N are equal.
LEMMA SameResidue ==
  ASSUME NEW N \in Nat, N > 0, NEW a \in Nat, NEW b \in Nat, a <= b, b < a + N, a % N = b % N
  PROVE  a = b
  <1> DEFINE x == a \div N
             y == b \div N
  <1>1. x \in Int /\ y \in Int /\ a = N * x + (a % N) /\ b = N * y + (b % N)
    OBVIOUS
  <1> HIDE DEF x, y
  <1>2. a % N \in Nat
    OBVIOUS
  <1>3. b - a = N * (y - x)
    BY <1>1, <1>2
  <1>4. ASSUME y - x >= 1 PROVE FALSE
    <2>1. N * (y - x) >= N
      BY <1>1, <1>4
    <2> QED
      BY <2>1, <1>3
  <1>5. ASSUME y - x <= -1 PROVE FALSE
    <2>1. N * (y - x) <= -N
      BY <1>1, <1>5
    <2> QED
      BY <2>1, <1>3
  <1> QED
    BY <1>1, <1>3, <1>4, <1>5

\* Of the events within the limits, those of the current window are exactly
\* those of the current slot.
LEMMA CurrentSlot ==
  ASSUME Assumptions, IInv, NEW k \in Kinds,
         current_min_limit <= Time(k), Time(k) < current_max_limit
  PROVE  SlotOf(k) = current_index <=> Time(k) < current_min_limit + LOOKAHEAD
  <1> DEFINE L == LOOKAHEAD
             N == NUM_SLOTS
             T == Time(k)
             w == T \div L
  <1>1. epochs \in Nat /\ L \in Nat /\ N \in Nat /\ L > 0 /\ N > 0 /\ T \in Nat
    BY Constants, Limits DEF IInv, TypeOK
  <1>2. epochs * L <= T /\ T < epochs * L + N * L
    BY DEF current_min_limit, current_max_limit
  <1>3. SlotOf(k) = w % N /\ current_index = epochs % N
    BY DEF SlotOf, current_index
  <1>4. T < current_min_limit + LOOKAHEAD <=> T < epochs * L + L
    BY DEF current_min_limit
  <1> HIDE DEF T, L, N
  <1>5. w \in Nat /\ L * w <= T /\ T < L * w + L
    BY <1>1
  <1> HIDE DEF w
  <1>6. epochs <= w
    <2>1. ASSUME w <= epochs - 1 PROVE FALSE
      <3>1. L * w <= L * (epochs - 1)
        BY <2>1, <1>1, <1>5
      <3>2. L * (epochs - 1) = epochs * L - L
        BY <1>1
      <3>3. epochs * L \in Nat /\ L * w \in Nat
        BY <1>1, <1>5
      <3> QED
        BY <3>1, <3>2, <3>3, <1>1, <1>2, <1>5
    <2> QED
      BY <2>1, <1>1, <1>5
  <1>7. w < epochs + N
    <2>1. ASSUME w >= epochs + N PROVE FALSE
      <3>1. L * w >= L * (epochs + N)
        BY <2>1, <1>1, <1>5
      <3>2. L * (epochs + N) = epochs * L + N * L
        BY <1>1
      <3>3. epochs * L \in Nat /\ L * w \in Nat /\ N * L \in Nat
        BY <1>1, <1>5
      <3> QED
        BY <3>1, <3>2, <3>3, <1>1, <1>2, <1>5
    <2> QED
      BY <2>1, <1>1, <1>5
  <1>8. ASSUME w % N = epochs % N PROVE T < epochs * L + L
    <2>1. epochs = w
      BY <1>1, <1>5, <1>6, <1>7, <1>8, SameResidue
    <2>2. epochs * L = L * w
      BY <2>1, <1>1
    <2> QED
      BY <2>2, <1>5
  <1>9. ASSUME T < epochs * L + L PROVE w % N = epochs % N
    <2>1. ASSUME w >= epochs + 1 PROVE FALSE
      <3>1. L * w >= L * (epochs + 1)
        BY <2>1, <1>1, <1>5
      <3>2. L * (epochs + 1) = epochs * L + L
        BY <1>1
      <3>3. epochs * L \in Nat /\ L * w \in Nat
        BY <1>1, <1>5
      <3> QED
        BY <3>1, <3>2, <3>3, <1>1, <1>5, <1>9
    <2>2. w = epochs
      BY <2>1, <1>1, <1>5, <1>6
    <2> QED
      BY <2>2
  <1> QED
    BY <1>3, <1>4, <1>8, <1>9 DEF T

-----------------------------------------------------------------------------
(* The inductive invariant *)

\* The phases between two barriers.
Starting == {"init", "started"}
Running == {"dispense", "extract", "process", "quiet", "done"}
Crossing == {"fallback", "ready"}

\* All threads are in the same phase.
Together ==
    \/ \A t \in Threads : pc[t] \in Starting
    \/ \A t \in Threads : pc[t] \in Running
    \/ \A t \in Threads : pc[t] \in Crossing

\* The dispenser is reset before a window and exhausted at the end of it.
Dispensed ==
    /\ \A t \in Threads : pc[t] \in Starting \cup Crossing => object_identifiers = 0
    /\ \A t \in Threads : pc[t] = "quiet" => object_identifiers = OBJECTS

\* INIT comes first.
Fresh ==
    \A t \in Threads : pc[t] \in Starting =>
        epochs = 0 /\ \A o \in Objects : executed[o] = <<>>

\* A thread that looks into a slot looks into the current one.
Indexed == \A t \in Threads : pc[t] # "fallback" => my_index[t] = current_index

\* The lists of the slots are sorted and hold events of their object and slot,
\* none before the window and none beyond the last slot.
InSlots ==
    \A o \in Objects, s \in Slots :
        /\ Sorted(queue[o][s])
        /\ \A p \in ToSet(queue[o][s]) :
              /\ Dest(p) = o /\ SlotOf(p) = s
              /\ current_min_limit <= Time(p) /\ Time(p) < current_max_limit

\* An object that was given out and is not being run is done with the window.
Exhausted ==
    \A o \in Objects :
        o < object_identifiers /\ (\A t \in Threads : ~Runs(t, o)) => queue[o][current_index] = <<>>

\* A fallback queue holds what no slot can take, until its thread has moved
\* what the new last slot can.
Beyond ==
    \A t \in Threads : \A p \in ToSet(fallback_queue[t]) :
        Time(p) >= current_max_limit - (IF pc[t] = "fallback" THEN LOOKAHEAD ELSE 0)

\* What a running event schedules for other objects is past the window.
InOutbox ==
    \A t \in Threads : \A p \in ToSet(outbox[t]) :
        /\ pc[t] \in {"init", "process"}
        /\ Time(p) >= current_min_limit
        /\ pc[t] = "process" /\ Dest(p) # target[t] => Time(p) >= current_min_limit + LOOKAHEAD

\* Nothing past the window has been executed; once it is over, nothing past
\* the start of the new one.
Horizon == current_min_limit + (IF \E t \in Threads : pc[t] \in Crossing THEN 0 ELSE LOOKAHEAD)
Behind == \A o \in Objects : \A e \in ToSet(executed[o]) : Time(e) < Horizon

\* What is still to be executed at an object is not earlier than what it has
\* executed.
NoStraggler ==
    \A o \in Objects : \A e \in ToSet(executed[o]) :
        /\ \A s \in Slots : \A p \in ToSet(queue[o][s]) : Time(e) <= Time(p)
        /\ \A t \in Threads : \A p \in ToSet(outbox[t]) : Dest(p) = o => Time(e) <= Time(p)

InOrder ==
    /\ Together /\ Dispensed /\ Fresh /\ Indexed
    /\ InSlots /\ Exhausted /\ Beyond /\ InOutbox
    /\ Behind /\ NoStraggler

LEMMA EmptyList ==
  /\ ToSet(<<>>) = {} /\ Sorted(<<>>) /\ IsInjective(<<>>)
  <1>1. DOMAIN <<>> = {}
    OBVIOUS
  <1> QED
    BY <1>1 DEF ToSet, Sorted, IsInjective

LEMMA OrderedAtFirst ==
  ASSUME Assumptions, Init
  PROVE  InOrder
  <1> IInv
    BY InitEstablishes
  <1>1. Together /\ Dispensed /\ Fresh
    BY DEF Init, Together, Dispensed, Fresh, Starting, Crossing
  <1>2. Indexed
    <2>1. 0 % NUM_SLOTS = 0
      BY Constants
    <2> QED
      BY <2>1 DEF Init, Indexed, current_index
  <1>3. InSlots
    BY EmptyList DEF Init, InSlots
  <1>4. Exhausted
    BY DEF Init, Exhausted, Objects
  <1>5. Beyond /\ InOutbox /\ Behind /\ NoStraggler
    BY EmptyList DEF Init, Beyond, InOutbox, Behind, NoStraggler
  <1> QED
    BY <1>1, <1>2, <1>3, <1>4, <1>5 DEF InOrder

-----------------------------------------------------------------------------
(* Lists of the state *)

LEMMA Listed ==
  ASSUME IInv
  PROVE  /\ \A o \in Objects, s \in Slots :
               queue[o][s] \in Seq(Kinds) /\ ToSet(queue[o][s]) \subseteq Kinds
         /\ \A t \in Threads : /\ fallback_queue[t] \in Seq(Kinds) /\ outbox[t] \in Seq(Kinds)
                               /\ ToSet(fallback_queue[t]) \subseteq Kinds
                               /\ ToSet(outbox[t]) \subseteq Kinds
         /\ \A o \in Objects : executed[o] \in Seq(Kinds) /\ ToSet(executed[o]) \subseteq Kinds
  <1>1. \A q \in Seq(Kinds) : ToSet(q) \subseteq Kinds
    BY Elements
  <1> QED
    BY <1>1 DEF IInv, TypeOK

\* The lists after an insertion.
LEMMA InsertEffect ==
  ASSUME Assumptions, IInv, NEW k \in Kinds, Insert(k), NEW o \in Objects, NEW s \in Slots
  PROVE  /\ o = Dest(k) /\ s = SlotOf(k) =>
               /\ queue'[o][s] = InsertInOrder(queue[o][s], k)
               /\ ToSet(queue'[o][s]) = ToSet(queue[o][s]) \cup {k}
         /\ ~(o = Dest(k) /\ s = SlotOf(k)) => queue'[o][s] = queue[o][s]
         /\ Sorted(queue[o][s]) => Sorted(queue'[o][s])
  <1>1. queue' = [queue EXCEPT ![Dest(k)][SlotOf(k)] = InsertInOrder(@, k)]
    BY DEF Insert
  <1>2. /\ queue \in [Objects -> [Slots -> Seq(Kinds)]]
        /\ Dest(k) \in Objects /\ SlotOf(k) \in Slots
    BY Limits DEF IInv, TypeOK
  <1>3. CASE o = Dest(k) /\ s = SlotOf(k)
    <2>1. queue'[o][s] = InsertInOrder(queue[o][s], k)
      BY <1>1, <1>2, <1>3
    <2>2. queue[o][s] \in Seq(Kinds) /\ ModelOK
      BY <1>2 DEF IInv
    <2> QED
      BY <1>3, <2>1, <2>2, Inserted
  <1>4. CASE ~(o = Dest(k) /\ s = SlotOf(k))
    <2>1. queue'[o][s] = queue[o][s]
      BY <1>1, <1>2, <1>4
    <2> QED
      BY <1>4, <2>1
  <1> QED
    BY <1>3, <1>4

\* An event within the limits that is not earlier than what its object has
\* executed can be inserted.
LEMMA InsertKeeps ==
  ASSUME Assumptions, IInv, InOrder, NEW k \in Kinds, Insert(k),
         current_min_limit <= Time(k), Time(k) < current_max_limit,
         UNCHANGED <<model, epochs, executed>>,
         \A e \in ToSet(executed[Dest(k)]) : Time(e) <= Time(k),
         \A t \in Threads : ToSet(outbox'[t]) \subseteq ToSet(outbox[t])
  PROVE  InSlots' /\ NoStraggler'
  <1>l. /\ current_min_limit' = current_min_limit /\ current_max_limit' = current_max_limit
        /\ \A p : Time(p)' = Time(p) /\ Dest(p)' = Dest(p) /\ SlotOf(p)' = SlotOf(p)
        /\ \A q : Sorted(q)' <=> Sorted(q)
    BY DEF current_min_limit, current_max_limit, Time, Dest, SlotOf, Sorted
  <1>q. \A o \in Objects, s \in Slots :
            /\ Sorted(queue[o][s]) => Sorted(queue'[o][s])
            /\ \A p \in ToSet(queue'[o][s]) :
                  p \in ToSet(queue[o][s]) \/ (p = k /\ o = Dest(k) /\ s = SlotOf(k))
    BY InsertEffect
  <1>1. InSlots'
    <2> SUFFICES ASSUME NEW o \in Objects, NEW s \in Slots
                 PROVE  /\ Sorted(queue'[o][s])
                        /\ \A p \in ToSet(queue'[o][s]) :
                              /\ Dest(p) = o /\ SlotOf(p) = s
                              /\ current_min_limit <= Time(p) /\ Time(p) < current_max_limit
      BY <1>l DEF InSlots
    <2> QED
      BY <1>q DEF InOrder, InSlots
  <1>2. NoStraggler'
    <2> SUFFICES ASSUME NEW o \in Objects, NEW e \in ToSet(executed[o])
                 PROVE  /\ \A s \in Slots : \A p \in ToSet(queue'[o][s]) : Time(e) <= Time(p)
                        /\ \A t \in Threads : \A p \in ToSet(outbox'[t]) :
                              Dest(p) = o => Time(e) <= Time(p)
      BY <1>l DEF NoStraggler
    <2> QED
      BY <1>q DEF InOrder, NoStraggler
  <1> QED
    BY <1>1, <1>2

-----------------------------------------------------------------------------
(* The steps of a thread *)

\* What moves and schedules leave alone.
LEMMA SameHorizon ==
  ASSUME UNCHANGED <<epochs, executed, model>>, Behind,
         \A t \in Threads : pc'[t] \in Crossing <=> pc[t] \in Crossing
  PROVE  Behind' /\ current_min_limit' = current_min_limit
         /\ current_max_limit' = current_max_limit /\ current_index' = current_index
  <1>1. current_min_limit' = current_min_limit
    BY DEF current_min_limit
  <1>2. Horizon' = Horizon
    BY <1>1 DEF Horizon
  <1>3. Behind'
    BY <1>2 DEF Behind, Time
  <1> QED
    BY <1>1, <1>3 DEF current_max_limit, current_index, current_min_limit

\* INIT: nothing has been executed, and the first window starts at time 0.
LEMMA InitObjectOrdered ==
  ASSUME Assumptions, IInv, InOrder, NEW t \in Threads, InitObject(t)
  PROVE  InOrder'
  <1>1. PICK o \in Objects : outbox' = [outbox EXCEPT ![t] = model.init[o]]
    BY DEF InitObject
  <1>2. /\ UNCHANGED <<model, queue, fallback_queue, object_identifiers, epochs, executed, pc,
                       target, my_index>>
        /\ pc[t] = "init" /\ epochs = 0
        /\ \A p \in Objects : executed[p] = <<>>
    BY DEF InitObject, queues, window, InOrder, Fresh, Starting
  <1>3. Together' /\ Dispensed' /\ Fresh' /\ Indexed'
    BY <1>2 DEF InOrder, Together, Dispensed, Fresh, Indexed, current_index
  <1>4. InSlots' /\ Exhausted' /\ Beyond'
    BY <1>2 DEF InOrder, InSlots, Exhausted, Beyond, Runs, Time, Dest, SlotOf, Sorted,
                current_min_limit, current_max_limit, current_index
  <1>5. InOutbox'
    <2> SUFFICES ASSUME NEW u \in Threads, NEW p \in ToSet(outbox'[u])
                 PROVE  /\ pc[u] \in {"init", "process"}
                        /\ Time(p) >= current_min_limit
                        /\ pc[u] = "process" /\ Dest(p) # target[u] =>
                              Time(p) >= current_min_limit + LOOKAHEAD
      BY <1>2 DEF InOutbox, Time, Dest, current_min_limit
    <2>1. CASE u = t
      <3>1. outbox'[u] = model.init[o] /\ model.init[o] \in Seq(Kinds)
        BY <2>1, <1>1, ModelTypes DEF IInv, TypeOK
      <3>2. p \in Kinds
        BY <3>1, Elements
      <3>3. Time(p) \in Nat /\ current_min_limit = 0
        BY <3>2, <1>2, Limits, Constants DEF current_min_limit
      <3> QED
        BY <3>3, <2>1, <1>2
    <2>2. CASE u # t
      <3>1. outbox'[u] = outbox[u]
        BY <2>2, <1>1 DEF IInv, TypeOK
      <3> QED
        BY <3>1 DEF InOrder, InOutbox
    <2> QED
      BY <2>1, <2>2
  <1>6. Behind' /\ NoStraggler'
    BY <1>2, EmptyList DEF Behind, NoStraggler
  <1> QED
    BY <1>3, <1>4, <1>5, <1>6 DEF InOrder

\* The steps that only move a program counter, within a phase.
LEMMA MoveOrdered ==
  ASSUME Assumptions, IInv, InOrder, NEW t \in Threads,
         InitDone(t) \/ Finish(t) \/ Empty(t) \/ GetEvent(t)
  PROVE  InOrder'
  <1>1. /\ UNCHANGED <<model, queue, fallback_queue, object_identifiers, epochs, executed,
                       target, my_index, outbox>>
        /\ \A u \in Threads : u # t => pc'[u] = pc[u]
        /\ \/ pc[t] = "init" /\ pc'[t] = "started" /\ outbox[t] = <<>>
           \/ pc[t] = "dispense" /\ pc'[t] = "done"
           \/ pc[t] = "extract" /\ pc'[t] = "dispense" /\ Slot(t) = <<>>
           \/ pc[t] = "process" /\ pc'[t] = "extract" /\ outbox[t] = <<>>
    BY DEF InitDone, Finish, Empty, GetEvent, Goto, queues, window, IInv, TypeOK
  <1>p. /\ \A u \in Threads : pc'[u] \in Starting <=> pc[u] \in Starting
        /\ \A u \in Threads : pc'[u] \in Running <=> pc[u] \in Running
        /\ \A u \in Threads : pc'[u] \in Crossing <=> pc[u] \in Crossing
        /\ \A u \in Threads : pc'[u] = "quiet" => pc[u] = "quiet"
        /\ \A u \in Threads : pc'[u] = "fallback" <=> pc[u] = "fallback"
    BY <1>1 DEF Starting, Running, Crossing
  <1>2. Together' /\ Fresh'
    BY <1>1, <1>p DEF InOrder, Together, Fresh
  <1>3. Dispensed'
    BY <1>1, <1>p DEF InOrder, Dispensed
  <1>4. Indexed' /\ InSlots' /\ Beyond'
    <2>1. Indexed'
      BY <1>1, <1>p DEF InOrder, Indexed, current_index
    <2>2. InSlots'
      BY <1>1 DEF InOrder, InSlots, Time, Dest, SlotOf, Sorted, current_min_limit, current_max_limit
    <2>3. Beyond'
      BY <1>1, <1>p DEF InOrder, Beyond, Time, current_min_limit, current_max_limit
    <2> QED
      BY <2>1, <2>2, <2>3
  <1>5. Exhausted'
    <2> SUFFICES ASSUME NEW o \in Objects, o < object_identifiers,
                        \A u \in Threads : ~Runs(u, o)'
                 PROVE  queue[o][current_index] = <<>>
      BY <1>1 DEF Exhausted, current_index
    <2>1. CASE \A u \in Threads : ~Runs(u, o)
      BY <2>1 DEF InOrder, Exhausted
    <2>2. CASE \E u \in Threads : Runs(u, o)
      <3>1. Runs(t, o) /\ ~Runs(t, o)'
        BY <2>2, <1>1 DEF Runs
      <3>2. pc[t] = "extract" /\ Slot(t) = <<>> /\ target[t] = o
        BY <3>1, <1>1 DEF Runs
      <3>3. my_index[t] = current_index
        BY <3>2 DEF InOrder, Indexed
      <3> QED
        BY <3>2, <3>3 DEF Slot
    <2> QED
      BY <2>1, <2>2
  <1>6. InOutbox'
    <2>1. \A u \in Threads : \A p \in ToSet(outbox[u]) : pc'[u] = pc[u]
      BY <1>1, EmptyList DEF InOrder, InOutbox
    <2> QED
      BY <2>1, <1>1 DEF InOrder, InOutbox, Time, Dest, current_min_limit
  <1>7. Behind' /\ NoStraggler'
    <2>1. Behind'
      BY <1>1, <1>p, SameHorizon DEF InOrder
    <2> QED
      BY <2>1, <1>1 DEF InOrder, NoStraggler, Time, Dest
  <1> QED
    BY <1>2, <1>3, <1>4, <1>5, <1>6, <1>7 DEF InOrder

\* An event is never refused: the first of an outbox is not of the past.
LEMMA NotRefused ==
  ASSUME Assumptions, IInv, InOrder, NEW t \in Threads, outbox[t] # <<>>
  PROVE  /\ Head(outbox[t]) \in Kinds /\ Head(outbox[t]) \in ToSet(outbox[t])
         /\ ToSet(Tail(outbox[t])) \subseteq ToSet(outbox[t])
         /\ Time(Head(outbox[t])) >= current_min_limit
  <1>1. outbox[t] \in Seq(Kinds) /\ ModelOK
    BY DEF IInv, TypeOK
  <1>2. /\ Head(outbox[t]) \in Kinds
        /\ ToSet(outbox[t]) = {Head(outbox[t])} \cup ToSet(Tail(outbox[t]))
    BY <1>1, Tailed
  <1> QED
    BY <1>2 DEF InOrder, InOutbox

LEMMA ScheduleNewEventOrdered ==
  ASSUME Assumptions, IInv, InOrder, NEW t \in Threads, ScheduleNewEvent(t)
  PROVE  InOrder'
  <1> DEFINE k == Head(outbox[t])
             new == Tail(outbox[t])
  <1>1. /\ UNCHANGED <<model, object_identifiers, epochs, executed, pc, target, my_index>>
        /\ pc[t] \in {"init", "process"} /\ outbox[t] # <<>>
        /\ QueueInsert(t, k)
        /\ outbox' = [outbox EXCEPT ![t] = new]
    BY DEF ScheduleNewEvent, window
  <1>k. /\ k \in Kinds /\ k \in ToSet(outbox[t]) /\ ToSet(new) \subseteq ToSet(outbox[t])
        /\ Time(k) >= current_min_limit /\ Time(k) \in Nat
    BY <1>1, NotRefused, Limits
  <1> HIDE DEF k, new
  <1>n. /\ current_min_limit \in Nat /\ current_max_limit \in Nat /\ LOOKAHEAD \in Nat
        /\ current_min_limit' = current_min_limit /\ current_max_limit' = current_max_limit
        /\ current_index' = current_index
        /\ \A p : Time(p)' = Time(p) /\ Dest(p)' = Dest(p)
    BY <1>1, Limits DEF current_min_limit, current_max_limit, current_index, Time, Dest
  <1>o. \A u \in Threads : ToSet(outbox'[u]) \subseteq ToSet(outbox[u])
    BY <1>1, <1>k DEF IInv, TypeOK
  <1>2. Together' /\ Dispensed' /\ Fresh' /\ Indexed'
    BY <1>1, <1>n DEF InOrder, Together, Dispensed, Fresh, Indexed
  <1>3. InOutbox'
    BY <1>1, <1>n, <1>o DEF InOrder, InOutbox
  <1>4. Behind'
    BY <1>1, SameHorizon DEF InOrder
  <1>5. CASE Time(k) < current_max_limit
    <2>1. Insert(k) /\ fallback_queue' = fallback_queue
      BY <1>1, <1>5, <1>k, <1>n DEF QueueInsert
    <2>2. \A e \in ToSet(executed[Dest(k)]) : Time(e) <= Time(k)
      BY <1>k, Limits DEF InOrder, NoStraggler
    <2>3. InSlots' /\ NoStraggler'
      BY <2>1, <2>2, <1>1, <1>5, <1>k, <1>o, InsertKeeps
    <2>4. Beyond'
      BY <2>1, <1>1, <1>n DEF InOrder, Beyond
    <2>5. Exhausted'
      <3> SUFFICES ASSUME NEW o \in Objects, o < object_identifiers,
                          \A u \in Threads : ~Runs(u, o)
                   PROVE  queue'[o][current_index] = <<>>
        BY <1>1, <1>n DEF Exhausted, Runs
      <3>1. queue[o][current_index] = <<>>
        BY DEF InOrder, Exhausted
      <3>2. pc[t] = "process"
        <4>1. pc[t] = "init" => object_identifiers = 0
          BY DEF InOrder, Dispensed, Starting
        <4> QED
          BY <4>1, <1>1 DEF Objects
      <3>3. CASE o = Dest(k)
        <4>1. target[t] # o
          BY <3>2 DEF Runs
        <4>2. Time(k) >= current_min_limit + LOOKAHEAD
          BY <4>1, <3>2, <3>3, <1>k DEF InOrder, InOutbox
        <4>3. SlotOf(k) # current_index
          BY <4>2, <1>5, <1>k, <1>n, CurrentSlot
        <4> QED
          BY <4>3, <3>1, <2>1, <1>k, InsertEffect, Limits
      <3>4. CASE o # Dest(k)
        BY <3>4, <3>1, <2>1, <1>k, InsertEffect, Limits
      <3> QED
        BY <3>3, <3>4
    <2> QED
      BY <1>2, <1>3, <1>4, <2>3, <2>4, <2>5 DEF InOrder
  <1>6. CASE ~(Time(k) < current_max_limit)
    <2>1. queue' = queue /\ fallback_queue' = [fallback_queue EXCEPT ![t] = Append(@, k)]
      BY <1>1, <1>6, <1>k, <1>n DEF QueueInsert
    <2>2. InSlots'
      BY <2>1, <1>1, <1>n DEF InOrder, InSlots, SlotOf, Time, Sorted
    <2>3. NoStraggler'
      BY <2>1, <1>1, <1>n, <1>o DEF InOrder, NoStraggler
    <2>4. Exhausted'
      BY <2>1, <1>1, <1>n DEF InOrder, Exhausted, Runs
    <2>5. Beyond'
      <3>1. \A u \in Threads : \A p \in ToSet(fallback_queue'[u]) :
                p \in ToSet(fallback_queue[u]) \/ (u = t /\ p = k)
        <4>1. fallback_queue[t] \in Seq(Kinds)
          BY DEF IInv, TypeOK
        <4>2. ToSet(Append(fallback_queue[t], k)) = ToSet(fallback_queue[t]) \cup {k}
          BY <4>1, <1>k, Appended
        <4> QED
          BY <4>2, <2>1 DEF IInv, TypeOK
      <3>2. pc[t] # "fallback" /\ Time(k) >= current_max_limit
        BY <1>1, <1>6, <1>k, <1>n
      <3> QED
        BY <3>1, <3>2, <1>1, <1>n DEF InOrder, Beyond
    <2> QED
      BY <1>2, <1>3, <1>4, <2>2, <2>3, <2>4, <2>5 DEF InOrder
  <1> QED
    BY <1>5, <1>6

\* An object given out is being run until its slot is empty.
LEMMA DispenseOrdered ==
  ASSUME Assumptions, IInv, InOrder, NEW t \in Threads, Dispense(t)
  PROVE  InOrder'
  <1>1. /\ UNCHANGED <<model, queue, fallback_queue, epochs, executed, my_index, outbox>>
        /\ pc[t] = "dispense" /\ pc'[t] \in {"extract", "quiet"}
        /\ \A u \in Threads : u # t => pc'[u] = pc[u] /\ target'[u] = target[u]
    BY DEF Dispense, Goto, queues, IInv, TypeOK
  <1>n. /\ current_min_limit' = current_min_limit /\ current_max_limit' = current_max_limit
        /\ current_index' = current_index
        /\ \A p : Time(p)' = Time(p) /\ Dest(p)' = Dest(p) /\ SlotOf(p)' = SlotOf(p)
        /\ \A q : Sorted(q)' <=> Sorted(q)
    BY <1>1 DEF current_min_limit, current_max_limit, current_index, Time, Dest, SlotOf, Sorted
  <1>p. \A u \in Threads : pc[u] \in Running /\ pc'[u] \in Running
    <2>1. \A u \in Threads : pc[u] \in Running
      BY <1>1 DEF InOrder, Together, Starting, Running, Crossing
    <2> QED
      BY <2>1, <1>1 DEF Running
  <1>r. \A u \in Threads : pc[u] \notin Starting \cup Crossing /\ pc'[u] \notin Starting \cup Crossing
                           /\ pc[u] # "init" /\ pc[u] # "fallback" /\ pc'[u] # "fallback"
    BY <1>p DEF Starting, Running, Crossing
  <1>2. Together' /\ Fresh' /\ Indexed'
    BY <1>1, <1>n, <1>p, <1>r DEF InOrder, Together, Fresh, Indexed
  <1>3. InSlots'
    BY <1>1, <1>n DEF InOrder, InSlots
  <1>4. Beyond'
    BY <1>1, <1>n, <1>r DEF InOrder, Beyond
  <1>5. Behind' /\ NoStraggler'
    <2>1. Behind'
      BY <1>1, <1>r, SameHorizon DEF InOrder
    <2> QED
      BY <2>1, <1>1, <1>n DEF InOrder, NoStraggler
  <1>6. InOutbox'
    <2>1. \A u \in Threads : \A p \in ToSet(outbox[u]) : u # t
      BY <1>1 DEF InOrder, InOutbox
    <2> QED
      BY <2>1, <1>1, <1>n DEF InOrder, InOutbox
  <1>7. CASE object_identifiers < OBJECTS
    <2>1. /\ object_identifiers' = object_identifiers + 1 /\ pc'[t] = "extract"
          /\ target'[t] = object_identifiers /\ object_identifiers \in Nat
      BY <1>7, Constants DEF Dispense, Goto, IInv, TypeOK
    <2>2. Dispensed'
      <3>1. \A u \in Threads : pc[u] = "quiet" => FALSE
        BY <1>7, Constants DEF InOrder, Dispensed
      <3> QED
        BY <3>1, <2>1, <1>1, <1>r DEF Dispensed, Starting, Crossing
    <2>3. Exhausted'
      <3> SUFFICES ASSUME NEW o \in Objects, o < object_identifiers + 1,
                          \A u \in Threads : ~Runs(u, o)'
                   PROVE  queue[o][current_index] = <<>>
        BY <1>1, <1>n, <2>1 DEF Exhausted
      <3>1. o # object_identifiers
        BY <2>1 DEF Runs
      <3>2. o < object_identifiers
        BY <3>1, <2>1, Constants DEF Objects
      <3>3. \A u \in Threads : ~Runs(u, o)
        BY <1>1 DEF Runs
      <3> QED
        BY <3>2, <3>3 DEF InOrder, Exhausted
    <2> QED
      BY <1>2, <1>3, <1>4, <1>5, <1>6, <2>2, <2>3 DEF InOrder
  <1>8. CASE ~(object_identifiers < OBJECTS)
    <2>1. object_identifiers' = object_identifiers /\ object_identifiers = OBJECTS /\ pc'[t] = "quiet"
      BY <1>8, Constants DEF Dispense, Goto, IInv, TypeOK
    <2>2. Dispensed'
      BY <2>1, <1>1, <1>r DEF InOrder, Dispensed
    <2>3. Exhausted'
      <3>1. \A o \in Objects, u \in Threads : Runs(u, o) => Runs(u, o)'
        BY <1>1 DEF Runs
      <3> QED
        BY <3>1, <2>1, <1>1, <1>n DEF InOrder, Exhausted
    <2> QED
      BY <1>2, <1>3, <1>4, <1>5, <1>6, <2>2, <2>3 DEF InOrder
  <1> QED
    BY <1>7, <1>8

\* What an event schedules: events due later, and a LOOKAHEAD later at another
\* object.
LEMMA Schedules ==
  ASSUME Assumptions, ModelOK, NEW k \in Kinds, NEW p \in ToSet(model.next[k])
  PROVE  /\ p \in Kinds /\ Time(p) > Time(k)
         /\ Dest(p) # Dest(k) => Time(p) >= Time(k) + LOOKAHEAD
  <1>1. model.next[k] \in Seq(Kinds)
    BY ModelTypes
  <1>2. PICK i \in DOMAIN model.next[k] : p = model.next[k][i]
    BY DEF ToSet
  <1>3. p \in Kinds
    BY <1>1, <1>2, ElementOfSeq
  <1> QED
    BY <1>2, <1>3 DEF Assumptions, ModelOK, Sim!SimulationAssumption, Sim!IsModel, Time, Dest

\* The first event of the current slot of the object that is being run is in
\* the window, no event that waits for the object is earlier, and none it has
\* executed is later.
LEMMA HeadIsNext ==
  ASSUME Assumptions, IInv, InOrder, NEW t \in Threads, Extract(t)
  PROVE  LET o == target[t]
             k == Head(Slot(t))
         IN  /\ o \in Objects /\ my_index[t] = current_index /\ outbox[t] = <<>>
             /\ k \in Kinds /\ k \in ToSet(queue[o][current_index]) /\ Dest(k) = o
             /\ Time(k) < current_min_limit + LOOKAHEAD
             /\ \A s \in Slots : \A p \in ToSet(queue[o][s]) : Time(k) <= Time(p)
             /\ \A u \in Threads : \A p \in ToSet(outbox[u]) : Dest(p) = o => Time(k) <= Time(p)
             /\ \A u \in Threads : \A p \in ToSet(fallback_queue[u]) : Time(k) <= Time(p)
             /\ \A e \in ToSet(executed[o]) : Time(e) <= Time(k)
             /\ \A u \in Threads : pc[u] \in Running
  <1> DEFINE o == target[t]
             q == queue[o][current_index]
             k == Head(q)
  <1>1. /\ pc[t] = "extract" /\ o \in Objects /\ my_index[t] = current_index /\ current_index \in Slots
        /\ Slot(t) = q /\ q # <<>> /\ q \in Seq(Kinds) /\ ModelOK
    <2>1. pc[t] = "extract" /\ my_index[t] = current_index /\ current_index \in Slots
      BY Limits DEF Extract, InOrder, Indexed
    <2>2. o \in Objects
      BY <2>1 DEF IInv, GivenOut
    <2> QED
      BY <2>1, <2>2 DEF Extract, Slot, IInv, TypeOK
  <1>2. /\ k \in Kinds /\ k \in ToSet(q)
        /\ Sorted(q) => \A p \in ToSet(q) : Time(k) <= Time(p)
    BY <1>1, Tailed
  <1> HIDE DEF q, k
  <1>3. /\ Dest(k) = o /\ SlotOf(k) = current_index /\ Sorted(q)
        /\ current_min_limit <= Time(k) /\ Time(k) < current_max_limit
    BY <1>1, <1>2 DEF InOrder, InSlots, q
  <1>4. Time(k) < current_min_limit + LOOKAHEAD
    BY <1>2, <1>3, CurrentSlot
  <1>n. /\ current_min_limit \in Nat /\ current_max_limit \in Nat /\ LOOKAHEAD \in Nat
        /\ current_min_limit + LOOKAHEAD <= current_max_limit
        /\ \A p \in Kinds : Time(p) \in Nat
    BY Limits
  <1>5. ASSUME NEW s \in Slots, NEW p \in ToSet(queue[o][s]) PROVE Time(k) <= Time(p)
    <2>1. CASE s = current_index
      BY <2>1, <1>2, <1>3, <1>5 DEF q
    <2>2. CASE s # current_index
      <3>1. p \in Kinds
        BY <1>1, <1>5, Listed
      <3>2. SlotOf(p) = s /\ current_min_limit <= Time(p) /\ Time(p) < current_max_limit
        BY <1>1, <1>5 DEF InOrder, InSlots
      <3>3. ~(Time(p) < current_min_limit + LOOKAHEAD)
        BY <2>2, <3>1, <3>2, CurrentSlot
      <3> QED
        BY <3>1, <3>3, <1>2, <1>4, <1>n
    <2> QED
      BY <2>1, <2>2
  <1>r. \A u \in Threads : pc[u] \in Running
    BY <1>1 DEF InOrder, Together, Starting, Running, Crossing
  <1>6. ASSUME NEW u \in Threads, NEW p \in ToSet(outbox[u]), Dest(p) = o PROVE Time(k) <= Time(p)
    <2>1. pc[u] = "process"
      BY <1>6, <1>r DEF InOrder, InOutbox, Running
    <2>2. target[u] # o
      BY <2>1, <1>1 DEF IInv, ExclusiveExecution, Runs
    <2>3. Time(p) >= current_min_limit + LOOKAHEAD
      BY <2>1, <2>2, <1>6 DEF InOrder, InOutbox
    <2>4. p \in Kinds
      BY <1>6, Listed
    <2> QED
      BY <2>3, <2>4, <1>2, <1>4, <1>n
  <1>7. ASSUME NEW u \in Threads, NEW p \in ToSet(fallback_queue[u]) PROVE Time(k) <= Time(p)
    <2>1. Time(p) >= current_max_limit
      <3>1. pc[u] # "fallback"
        BY <1>r DEF Running
      <3> QED
        BY <3>1, <1>7, <1>n DEF InOrder, Beyond
    <2>2. p \in Kinds
      BY <1>7, Listed
    <2> QED
      BY <2>1, <2>2, <1>2, <1>4, <1>n
  <1>8. \A e \in ToSet(executed[o]) : Time(e) <= Time(k)
    BY <1>1, <1>2 DEF InOrder, NoStraggler, q
  <1>9. outbox[t] = <<>>
    <2>1. ToSet(outbox[t]) = {}
      BY <1>1 DEF InOrder, InOutbox
    <2>2. outbox[t] \in Seq(Kinds) /\ (outbox[t] # <<>> => Head(outbox[t]) \in ToSet(outbox[t]))
      BY NotRefused DEF IInv, TypeOK
    <2> QED
      BY <2>1, <2>2
  <1>10. k = Head(Slot(t)) /\ q = queue[o][current_index]
    BY <1>1 DEF k, q
  <1> QED
    BY <1>1, <1>2, <1>3, <1>4, <1>5, <1>6, <1>7, <1>8, <1>9, <1>10, <1>r

LEMMA ExtractOrdered ==
  ASSUME Assumptions, IInv, InOrder, NEW t \in Threads, Extract(t)
  PROVE  InOrder'
  <1> DEFINE o == target[t]
             k == Head(Slot(t))
  <1>k. /\ o \in Objects /\ my_index[t] = current_index
        /\ k \in Kinds /\ k \in ToSet(queue[o][current_index]) /\ Dest(k) = o
        /\ Time(k) < current_min_limit + LOOKAHEAD
        /\ \A s \in Slots : \A p \in ToSet(queue[o][s]) : Time(k) <= Time(p)
        /\ \A u \in Threads : \A p \in ToSet(outbox[u]) : Dest(p) = o => Time(k) <= Time(p)
        /\ \A e \in ToSet(executed[o]) : Time(e) <= Time(k)
        /\ \A u \in Threads : pc[u] \in Running
    BY HeadIsNext
  <1>1. /\ UNCHANGED <<model, fallback_queue, object_identifiers, epochs, target, my_index>>
        /\ pc[t] = "extract" /\ pc'[t] = "process"
        /\ \A u \in Threads : u # t => pc'[u] = pc[u]
    BY DEF Extract, Goto, window, IInv, TypeOK
  <1>q. \A x \in Objects, s \in Slots :
            /\ ToSet(queue'[x][s]) \subseteq ToSet(queue[x][s])
            /\ Sorted(queue[x][s]) => Sorted(queue'[x][s])
            /\ x # o => queue'[x][s] = queue[x][s]
    <2>1. /\ Slot(t) = queue[o][current_index] /\ current_index \in Slots
          /\ Slot(t) \in Seq(Kinds) /\ Slot(t) # <<>> /\ ModelOK
      BY <1>k, Limits DEF Extract, Slot, IInv, TypeOK
    <2>2. queue' = [queue EXCEPT ![o][current_index] = Tail(Slot(t))]
      BY <1>k, <2>1 DEF Extract
    <2>3. /\ ToSet(Tail(Slot(t))) \subseteq ToSet(Slot(t))
          /\ Sorted(Slot(t)) => Sorted(Tail(Slot(t)))
      BY <2>1, Tailed
    <2> SUFFICES ASSUME NEW x \in Objects, NEW s \in Slots
                 PROVE  /\ ToSet(queue'[x][s]) \subseteq ToSet(queue[x][s])
                        /\ Sorted(queue[x][s]) => Sorted(queue'[x][s])
                        /\ x # o => queue'[x][s] = queue[x][s]
      OBVIOUS
    <2>4. CASE x = o /\ s = current_index
      <3>1. queue'[x][s] = Tail(Slot(t)) /\ queue[x][s] = Slot(t)
        BY <2>1, <2>2, <2>4, <1>k DEF IInv, TypeOK
      <3> QED
        BY <3>1, <2>3, <2>4
    <2>5. CASE ~(x = o /\ s = current_index)
      <3>1. queue'[x][s] = queue[x][s]
        BY <2>1, <2>2, <2>5, <1>k DEF IInv, TypeOK
      <3> QED
        BY <3>1
    <2> QED
      BY <2>4, <2>5
  <1>e. /\ ToSet(executed'[o]) = ToSet(executed[o]) \cup {k}
        /\ \A x \in Objects : x # o => executed'[x] = executed[x]
    <2>1. executed' = [executed EXCEPT ![o] = Append(@, k)] /\ executed[o] \in Seq(Kinds)
      BY <1>k DEF Extract, IInv, TypeOK
    <2>2. ToSet(Append(executed[o], k)) = ToSet(executed[o]) \cup {k}
      BY <2>1, <1>k, Appended
    <2> HIDE DEF k
    <2> QED
      BY <2>1, <2>2, <1>k DEF IInv, TypeOK
  <1>b. /\ \A u \in Threads : u # t => outbox'[u] = outbox[u]
        /\ \A p \in ToSet(outbox'[t]) :
              /\ p \in Kinds /\ Time(p) > Time(k)
              /\ Dest(p) # o => Time(p) >= Time(k) + LOOKAHEAD
    <2>1. outbox' = [outbox EXCEPT ![t] = model.next[k]] /\ ModelOK
      BY DEF Extract, IInv
    <2> HIDE DEF k
    <2>2. outbox'[t] = model.next[k]
      BY <2>1 DEF IInv, TypeOK
    <2> QED
      BY <2>1, <2>2, <1>k, Schedules DEF IInv, TypeOK
  <1> HIDE DEF k
  <1>n. /\ current_min_limit \in Nat /\ current_max_limit \in Nat /\ LOOKAHEAD \in Nat
        /\ current_min_limit' = current_min_limit /\ current_max_limit' = current_max_limit
        /\ current_index' = current_index
        /\ \A p : Time(p)' = Time(p) /\ Dest(p)' = Dest(p) /\ SlotOf(p)' = SlotOf(p)
        /\ \A q : Sorted(q)' <=> Sorted(q)
        /\ \A p \in Kinds : Time(p) \in Nat
    BY <1>1, Limits DEF current_min_limit, current_max_limit, current_index, Time, Dest, SlotOf, Sorted
  <1>p. \A u \in Threads : /\ pc[u] \in Running /\ pc'[u] \in Running
                           /\ pc[u] \notin Starting \cup Crossing /\ pc'[u] \notin Starting \cup Crossing
                           /\ pc[u] # "init" /\ pc'[u] # "fallback" /\ pc[u] # "fallback"
    BY <1>1, <1>k DEF Running, Starting, Crossing
  <1>m. current_min_limit <= Time(k)
    BY <1>k, Limits DEF InOrder, InSlots
  <1>h. Horizon = current_min_limit + LOOKAHEAD /\ Horizon' = current_min_limit + LOOKAHEAD
    BY <1>p, <1>n DEF Horizon
  <1>2. Together' /\ Fresh' /\ Dispensed' /\ Indexed'
    BY <1>1, <1>n, <1>p DEF InOrder, Together, Fresh, Dispensed, Indexed
  <1>3. InSlots'
    BY <1>q, <1>n DEF InOrder, InSlots
  <1>4. Beyond'
    BY <1>1, <1>n, <1>p DEF InOrder, Beyond
  <1>5. Exhausted'
    <2> SUFFICES ASSUME NEW x \in Objects, x < object_identifiers, \A u \in Threads : ~Runs(u, x)'
                 PROVE  queue'[x][current_index] = <<>>
      BY <1>1, <1>n DEF Exhausted
    <2>1. x # o /\ \A u \in Threads : ~Runs(u, x)
      BY <1>1 DEF Runs
    <2> QED
      BY <2>1, <1>q, Limits DEF InOrder, Exhausted
  <1>6. InOutbox'
    <2> SUFFICES ASSUME NEW u \in Threads, NEW p \in ToSet(outbox'[u])
                 PROVE  /\ pc'[u] = "process" /\ Time(p) >= current_min_limit
                        /\ Dest(p) # target[u] => Time(p) >= current_min_limit + LOOKAHEAD
      BY <1>1, <1>n DEF InOutbox
    <2>1. CASE u = t
      BY <2>1, <1>1, <1>b, <1>n, <1>m, <1>k
    <2>2. CASE u # t
      BY <2>2, <1>1, <1>b, <1>p DEF InOrder, InOutbox
    <2> QED
      BY <2>1, <2>2
  <1>7. Behind'
    BY <1>e, <1>h, <1>n, <1>k DEF InOrder, Behind
  <1>8. NoStraggler'
    <2> SUFFICES ASSUME NEW x \in Objects, NEW e \in ToSet(executed'[x])
                 PROVE  /\ \A s \in Slots : \A p \in ToSet(queue'[x][s]) : Time(e) <= Time(p)
                        /\ \A u \in Threads : \A p \in ToSet(outbox'[u]) :
                              Dest(p) = x => Time(e) <= Time(p)
      BY <1>n DEF NoStraggler
    <2>1. \A s \in Slots : \A p \in ToSet(queue'[x][s]) : Time(e) <= Time(p)
      BY <1>q, <1>e, <1>k DEF InOrder, NoStraggler
    <2>2. ASSUME NEW u \in Threads, NEW p \in ToSet(outbox'[u]), Dest(p) = x PROVE Time(e) <= Time(p)
      <3>1. CASE u # t
        BY <3>1, <2>2, <1>b, <1>e, <1>k DEF InOrder, NoStraggler
      <3>2. CASE u = t
        <4>1. p \in Kinds /\ Time(p) > Time(k) /\ (x # o => Time(p) >= Time(k) + LOOKAHEAD)
          BY <3>2, <2>2, <1>b
        <4>2. CASE x = o
          <5>1. e \in Kinds /\ Time(e) <= Time(k)
            BY <4>2, <1>e, <1>k, <1>n, Listed
          <5> QED
            BY <5>1, <4>1, <1>k, <1>n
        <4>3. CASE x # o
          <5>1. e \in ToSet(executed[x]) /\ e \in Kinds
            BY <4>3, <1>e, Listed
          <5>2. Time(e) < current_min_limit + LOOKAHEAD
            BY <5>1, <1>h DEF InOrder, Behind
          <5>3. Time(p) >= current_min_limit + LOOKAHEAD
            BY <4>1, <4>3, <1>m, <1>n, <1>k
          <5> QED
            BY <5>1, <5>2, <5>3, <4>1, <1>n
        <4> QED
          BY <4>2, <4>3
      <3> QED
        BY <3>1, <3>2
    <2> QED
      BY <2>1, <2>2
  <1> QED
    BY <1>2, <1>3, <1>4, <1>5, <1>6, <1>7, <1>8 DEF InOrder

\* The events of the objects of the fallback queue of a thread that can go into
\* the new last slot go there.
LEMMA FallbackInsertOrdered ==
  ASSUME Assumptions, IInv, InOrder, NEW t \in Threads, FallbackInsert(t)
  PROVE  InOrder'
  <1>1. PICK i \in Due(t) : /\ Insert(fallback_queue[t][i])
                            /\ fallback_queue' = [fallback_queue EXCEPT ![t] = RemoveAt(@, i)]
    BY DEF FallbackInsert
  <1> DEFINE k == fallback_queue[t][i]
  <1>2. /\ UNCHANGED <<model, object_identifiers, epochs, executed, pc, target, my_index, outbox>>
        /\ pc[t] = "fallback"
    BY DEF FallbackInsert, window
  <1>f. /\ fallback_queue[t] \in Seq(Kinds) /\ i \in DOMAIN fallback_queue[t]
        /\ Time(k) < current_max_limit
    BY DEF Due, IInv, TypeOK
  <1>g. ToSet(fallback_queue[t]) = ToSet(RemoveAt(fallback_queue[t], i)) \cup {k}
    BY <1>f, Removed
  <1>k. k \in Kinds /\ k \in ToSet(fallback_queue[t])
    BY <1>f, <1>g, Elements
  <1> HIDE DEF k
  <1>n. /\ current_min_limit \in Nat /\ current_max_limit \in Nat /\ LOOKAHEAD \in Nat
        /\ current_min_limit + LOOKAHEAD <= current_max_limit
        /\ current_min_limit' = current_min_limit /\ current_max_limit' = current_max_limit
        /\ current_index' = current_index
        /\ \A p : Time(p)' = Time(p) /\ Dest(p)' = Dest(p)
        /\ Time(k) \in Nat /\ Dest(k) \in Objects
        /\ \A p \in Kinds : Time(p) \in Nat
    BY <1>2, <1>k, Limits DEF current_min_limit, current_max_limit, current_index, Time, Dest
  <1>m. current_min_limit <= Time(k)
    <2>1. Time(k) >= current_max_limit - LOOKAHEAD
      BY <1>2, <1>k DEF InOrder, Beyond
    <2> QED
      BY <2>1, <1>n
  <1>e. \A e \in ToSet(executed[Dest(k)]) : Time(e) <= Time(k)
    <2> SUFFICES ASSUME NEW e \in ToSet(executed[Dest(k)]) PROVE Time(e) <= Time(k)
      OBVIOUS
    <2>1. Horizon = current_min_limit
      BY <1>2, <1>n DEF Horizon, Crossing
    <2>2. Time(e) < current_min_limit
      BY <2>1, <1>n DEF InOrder, Behind
    <2>3. e \in Kinds
      BY <1>n, Listed
    <2> QED
      BY <2>2, <2>3, <1>m, <1>n
  <1>3. Together' /\ Dispensed' /\ Fresh' /\ Indexed' /\ InOutbox'
    BY <1>2, <1>n DEF InOrder, Together, Dispensed, Fresh, Indexed, InOutbox
  <1>4. Behind'
    BY <1>2, SameHorizon DEF InOrder
  <1>5. InSlots' /\ NoStraggler'
    <2>1. Insert(k)
      BY <1>1 DEF k
    <2> QED
      BY <2>1, <1>2, <1>k, <1>f, <1>m, <1>e, InsertKeeps
  <1>6. Exhausted'
    <2>1. object_identifiers = 0
      BY <1>2 DEF InOrder, Dispensed, Crossing
    <2> QED
      BY <2>1, <1>2 DEF Exhausted, Objects
  <1>7. Beyond'
    <2>1. \A u \in Threads : ToSet(fallback_queue'[u]) \subseteq ToSet(fallback_queue[u])
      BY <1>1, <1>g DEF IInv, TypeOK
    <2> QED
      BY <2>1, <1>2, <1>n DEF InOrder, Beyond
  <1> QED
    BY <1>3, <1>4, <1>5, <1>6, <1>7 DEF InOrder

LEMMA FallbackDoneOrdered ==
  ASSUME Assumptions, IInv, InOrder, NEW t \in Threads, FallbackDone(t)
  PROVE  InOrder'
  <1>1. /\ UNCHANGED <<model, queue, fallback_queue, object_identifiers, epochs, executed, outbox>>
        /\ pc[t] = "fallback" /\ pc'[t] = "ready" /\ Due(t) = {}
        /\ my_index'[t] = current_index
        /\ \A u \in Threads : u # t => /\ pc'[u] = pc[u] /\ my_index'[u] = my_index[u]
                                       /\ target'[u] = target[u]
    BY DEF FallbackDone, Goto, queues, window, IInv, TypeOK
  <1>n. /\ current_min_limit' = current_min_limit /\ current_max_limit' = current_max_limit
        /\ current_index' = current_index /\ current_max_limit \in Nat
        /\ \A p : Time(p)' = Time(p) /\ Dest(p)' = Dest(p) /\ SlotOf(p)' = SlotOf(p)
        /\ \A q : Sorted(q)' <=> Sorted(q)
        /\ \A p \in Kinds : Time(p) \in Nat
    BY <1>1, Limits DEF current_min_limit, current_max_limit, current_index, Time, Dest, SlotOf, Sorted
  <1>p. \A u \in Threads : pc[u] \in Crossing /\ pc'[u] \in Crossing
    <2>1. \A u \in Threads : pc[u] \in Crossing
      BY <1>1 DEF InOrder, Together, Starting, Running, Crossing
    <2> QED
      BY <2>1, <1>1 DEF Crossing
  <1>r. \A u \in Threads : /\ pc[u] \notin Starting /\ pc'[u] \notin Starting
                           /\ pc[u] # "process" /\ pc[u] # "init" /\ pc'[u] # "quiet"
    BY <1>p DEF Starting, Crossing
  <1>2. Together' /\ Dispensed' /\ Fresh'
    BY <1>1, <1>p, <1>r DEF InOrder, Together, Dispensed, Fresh
  <1>3. Indexed'
    BY <1>1, <1>n DEF InOrder, Indexed
  <1>4. InSlots'
    BY <1>1, <1>n DEF InOrder, InSlots
  <1>5. Exhausted'
    <2>1. object_identifiers = 0
      BY <1>1 DEF InOrder, Dispensed, Crossing
    <2> QED
      BY <2>1, <1>1 DEF Exhausted, Objects
  <1>6. Beyond'
    <2> SUFFICES ASSUME NEW u \in Threads, NEW p \in ToSet(fallback_queue[u])
                 PROVE  Time(p) >= current_max_limit - (IF pc'[u] = "fallback" THEN LOOKAHEAD ELSE 0)
      BY <1>1, <1>n DEF Beyond
    <2>1. CASE u = t
      <3>1. p \in Kinds /\ \E i \in DOMAIN fallback_queue[t] : p = fallback_queue[t][i]
        BY <2>1, Listed DEF ToSet
      <3>2. ~(Time(p) < current_max_limit)
        BY <3>1, <1>1 DEF Due
      <3> QED
        BY <3>1, <3>2, <2>1, <1>1, <1>n
    <2>2. CASE u # t
      BY <2>2, <1>1 DEF InOrder, Beyond
    <2> QED
      BY <2>1, <2>2
  <1>7. InOutbox'
    <2>1. \A u \in Threads : \A p \in ToSet(outbox[u]) : FALSE
      BY <1>r DEF InOrder, InOutbox
    <2> QED
      BY <2>1, <1>1 DEF InOutbox
  <1>8. Behind' /\ NoStraggler'
    <2>1. Behind'
      BY <1>1, <1>p, SameHorizon DEF InOrder
    <2> QED
      BY <2>1, <1>1, <1>n DEF InOrder, NoStraggler
  <1> QED
    BY <1>2, <1>3, <1>4, <1>5, <1>6, <1>7, <1>8 DEF InOrder

-----------------------------------------------------------------------------
(* The barriers *)

LEMMA SomeThread ==
  ASSUME Assumptions
  PROVE  \E t \in Threads : TRUE
  <1>1. 0 \in Objects
    BY Constants DEF Objects
  <1> QED
    BY <1>1 DEF Assumptions, ConservativeAssumption

\* At the end of a window every object has been given out and nobody runs one,
\* so nothing of the window is left anywhere.
LEMMA WindowIsOver ==
  ASSUME Assumptions, IInv, InOrder, \A t \in Threads : pc[t] = "quiet"
  PROVE  /\ \A o \in Objects, s \in Slots : \A p \in ToSet(queue[o][s]) :
                Time(p) >= current_min_limit + LOOKAHEAD
         /\ \A t \in Threads : \A p \in ToSet(fallback_queue[t]) :
                Time(p) >= current_max_limit
         /\ \A t \in Threads : outbox[t] = <<>>
  <1>1. object_identifiers = OBJECTS
    BY SomeThread DEF InOrder, Dispensed
  <1>2. \A o \in Objects : queue[o][current_index] = <<>>
    BY <1>1, Constants DEF InOrder, Exhausted, Runs, Objects
  <1>3. ASSUME NEW o \in Objects, NEW s \in Slots, NEW p \in ToSet(queue[o][s])
        PROVE  Time(p) >= current_min_limit + LOOKAHEAD
    <2>1. /\ SlotOf(p) = s /\ current_min_limit <= Time(p) /\ Time(p) < current_max_limit
          /\ p \in Kinds
      BY <1>3, Listed DEF InOrder, InSlots
    <2>2. s # current_index
      BY <1>2, <1>3, EmptyList
    <2>3. ~(Time(p) < current_min_limit + LOOKAHEAD)
      BY <2>1, <2>2, CurrentSlot
    <2> QED
      BY <2>1, <2>3, Limits
  <1>4. ASSUME NEW t \in Threads, NEW p \in ToSet(fallback_queue[t])
        PROVE  Time(p) >= current_max_limit
    BY <1>4, Limits DEF InOrder, Beyond
  <1>5. ASSUME NEW t \in Threads PROVE outbox[t] = <<>>
    <2>1. ToSet(outbox[t]) = {}
      BY DEF InOrder, InOutbox
    <2>2. outbox[t] \in Seq(Kinds) /\ (outbox[t] # <<>> => Head(outbox[t]) \in ToSet(outbox[t]))
      BY NotRefused DEF IInv, TypeOK
    <2> QED
      BY <2>1, <2>2
  <1> QED
    BY <1>3, <1>4, <1>5

LEMMA NextWindow ==
  ASSUME Assumptions, IInv, epochs' = epochs + 1
  PROVE  /\ current_min_limit' = current_min_limit + LOOKAHEAD
         /\ current_max_limit' = current_max_limit + LOOKAHEAD
  <1>1. epochs \in Nat /\ LOOKAHEAD \in Nat /\ NUM_SLOTS \in Nat
    BY Constants DEF IInv, TypeOK
  <1>2. (epochs + 1) * LOOKAHEAD = epochs * LOOKAHEAD + LOOKAHEAD
    BY <1>1
  <1>3. epochs * LOOKAHEAD \in Nat /\ NUM_SLOTS * LOOKAHEAD \in Nat
    BY <1>1
  <1> QED
    BY <1>1, <1>2, <1>3 DEF current_min_limit, current_max_limit

LEMMA UpdateTimingOrdered ==
  ASSUME Assumptions, IInv, InOrder, UpdateTiming
  PROVE  InOrder'
  <1>1. /\ UNCHANGED <<model, queue, fallback_queue, executed, target, my_index, outbox>>
        /\ \A t \in Threads : pc[t] = "quiet" /\ pc'[t] = "fallback"
        /\ epochs' = epochs + 1 /\ object_identifiers' = 0
    BY DEF UpdateTiming, queues
  <1>w. /\ \A o \in Objects, s \in Slots : \A p \in ToSet(queue[o][s]) :
                Time(p) >= current_min_limit + LOOKAHEAD
        /\ \A t \in Threads : \A p \in ToSet(fallback_queue[t]) : Time(p) >= current_max_limit
        /\ \A t \in Threads : outbox[t] = <<>>
    BY <1>1, WindowIsOver
  <1>n. /\ current_min_limit \in Nat /\ current_max_limit \in Nat /\ LOOKAHEAD \in Nat
        /\ current_min_limit' = current_min_limit + LOOKAHEAD
        /\ current_max_limit' = current_max_limit + LOOKAHEAD
        /\ \A p : Time(p)' = Time(p) /\ Dest(p)' = Dest(p) /\ SlotOf(p)' = SlotOf(p)
        /\ \A q : Sorted(q)' <=> Sorted(q)
        /\ \A p \in Kinds : Time(p) \in Nat
    BY <1>1, Limits, NextWindow DEF Time, Dest, SlotOf, Sorted
  <1>2. Together' /\ Dispensed' /\ Fresh' /\ Indexed'
    BY <1>1 DEF Together, Dispensed, Fresh, Indexed, Starting, Crossing
  <1>3. InSlots'
    <2> SUFFICES ASSUME NEW o \in Objects, NEW s \in Slots
                 PROVE  /\ Sorted(queue[o][s])
                        /\ \A p \in ToSet(queue[o][s]) :
                              /\ Dest(p) = o /\ SlotOf(p) = s
                              /\ current_min_limit + LOOKAHEAD <= Time(p)
                              /\ Time(p) < current_max_limit + LOOKAHEAD
      BY <1>1, <1>n DEF InSlots
    <2>1. ASSUME NEW p \in ToSet(queue[o][s])
          PROVE  /\ Dest(p) = o /\ SlotOf(p) = s
                 /\ current_min_limit + LOOKAHEAD <= Time(p)
                 /\ Time(p) < current_max_limit + LOOKAHEAD
      <3>1. Dest(p) = o /\ SlotOf(p) = s /\ Time(p) < current_max_limit /\ p \in Kinds
        BY <2>1, Listed DEF InOrder, InSlots
      <3> QED
        BY <3>1, <2>1, <1>w, <1>n
    <2> QED
      BY <2>1 DEF InOrder, InSlots
  <1>4. Exhausted'
    BY <1>1 DEF Exhausted, Objects
  <1>5. Beyond'
    <2> SUFFICES ASSUME NEW t \in Threads, NEW p \in ToSet(fallback_queue[t])
                 PROVE  Time(p) >= current_max_limit + LOOKAHEAD - LOOKAHEAD
      BY <1>1, <1>n DEF Beyond
    <2> QED
      BY <1>w, <1>n
  <1>6. InOutbox'
    BY <1>1, <1>w, EmptyList DEF InOutbox
  <1>7. Behind'
    <2>1. Horizon = current_min_limit + LOOKAHEAD
      BY <1>1, <1>n DEF Horizon, Crossing
    <2>2. Horizon' = current_min_limit + LOOKAHEAD
      BY <1>1, <1>n, SomeThread DEF Horizon, Crossing
    <2> QED
      BY <2>1, <2>2, <1>1, <1>n DEF InOrder, Behind
  <1>8. NoStraggler'
    BY <1>1, <1>n DEF InOrder, NoStraggler
  <1> QED
    BY <1>2, <1>3, <1>4, <1>5, <1>6, <1>7, <1>8 DEF InOrder

LEMMA BarrierOrdered ==
  ASSUME Assumptions, IInv, InOrder, Barrier("started") \/ Barrier("ready")
  PROVE  InOrder'
  <1>1. /\ UNCHANGED <<model, queue, fallback_queue, object_identifiers, epochs, executed,
                       target, my_index, outbox>>
        /\ \A t \in Threads : pc[t] \in {"started", "ready"} /\ pc'[t] = "dispense"
    BY DEF Barrier, queues, window
  <1>n. /\ current_min_limit \in Nat /\ current_max_limit \in Nat /\ LOOKAHEAD \in Nat
        /\ current_min_limit' = current_min_limit /\ current_max_limit' = current_max_limit
        /\ current_index' = current_index
        /\ \A p : Time(p)' = Time(p) /\ Dest(p)' = Dest(p) /\ SlotOf(p)' = SlotOf(p)
        /\ \A q : Sorted(q)' <=> Sorted(q)
        /\ \A p \in Kinds : Time(p) \in Nat
    BY <1>1, Limits DEF current_min_limit, current_max_limit, current_index, Time, Dest, SlotOf, Sorted
  <1>2. Together' /\ Dispensed' /\ Fresh'
    BY <1>1 DEF Together, Dispensed, Fresh, Starting, Running, Crossing
  <1>3. Indexed'
    BY <1>1, <1>n DEF InOrder, Indexed
  <1>4. InSlots'
    BY <1>1, <1>n DEF InOrder, InSlots
  <1>5. Exhausted'
    <2>1. object_identifiers = 0
      BY <1>1, SomeThread DEF InOrder, Dispensed, Starting, Crossing
    <2> QED
      BY <2>1, <1>1 DEF Exhausted, Objects
  <1>6. Beyond'
    BY <1>1, <1>n DEF InOrder, Beyond
  <1>7. InOutbox'
    BY <1>1 DEF InOrder, InOutbox
  <1>8. Behind'
    <2> SUFFICES ASSUME NEW o \in Objects, NEW e \in ToSet(executed[o])
                 PROVE  Time(e) < Horizon'
      BY <1>1, <1>n DEF Behind
    <2>1. Time(e) < Horizon /\ e \in Kinds
      BY Listed DEF InOrder, Behind
    <2>2. Horizon' = current_min_limit + LOOKAHEAD
      BY <1>1, <1>n DEF Horizon, Crossing
    <2>3. Horizon \in Nat /\ Horizon <= current_min_limit + LOOKAHEAD
      BY <1>n DEF Horizon
    <2> QED
      BY <2>1, <2>2, <2>3, <1>n
  <1>9. NoStraggler'
    BY <1>1, <1>n DEF InOrder, NoStraggler
  <1> QED
    BY <1>2, <1>3, <1>4, <1>5, <1>6, <1>7, <1>8, <1>9 DEF InOrder

LEMMA StepOrdered ==
  ASSUME Assumptions
  PROVE  IInv /\ InOrder /\ [Next]_vars => InOrder'
  <1> SUFFICES ASSUME IInv, InOrder, [Next]_vars PROVE InOrder'
    OBVIOUS
  <1>1. CASE Barriers
    BY <1>1, UpdateTimingOrdered, BarrierOrdered DEF Barriers
  <1>2. ASSUME NEW t \in Threads, Step(t) PROVE InOrder'
    BY <1>2, InitObjectOrdered, ScheduleNewEventOrdered, DispenseOrdered, ExtractOrdered,
       FallbackInsertOrdered, FallbackDoneOrdered, MoveOrdered DEF Step
  <1>3. CASE UNCHANGED vars
    <2>1. /\ UNCHANGED <<model, queue, fallback_queue, object_identifiers, epochs, executed, pc,
                         target, my_index, outbox>>
      BY <1>3 DEF vars, queues, window
    <2> QED
      BY <2>1 DEF InOrder, Together, Dispensed, Fresh, Indexed, InSlots, Exhausted, Beyond,
                  InOutbox, Behind, NoStraggler, Horizon, Runs, Time, Dest, SlotOf, Sorted,
                  current_min_limit, current_max_limit, current_index
  <1> QED
    BY <1>1, <1>2, <1>3 DEF Next

\* The order in which an object executes: nothing it has executed is later
\* than the event it executes next.
LEMMA TimeOrderKept ==
  ASSUME Assumptions
  PROVE  IInv /\ InOrder /\ Sim!InTimeOrder /\ [Next]_vars => Sim!InTimeOrder'
  <1> SUFFICES ASSUME IInv, InOrder, Sim!InTimeOrder, [Next]_vars PROVE Sim!InTimeOrder'
    OBVIOUS
  <1>1. ASSUME NEW t \in Threads, Extract(t) PROVE Sim!InTimeOrder'
    <2> DEFINE o == target[t]
               k == Head(Slot(t))
               old == executed[o]
    <2>1. o \in Objects /\ k \in Kinds /\ \A e \in ToSet(old) : Time(e) <= Time(k)
      BY <1>1, HeadIsNext
    <2>2. executed' = [executed EXCEPT ![o] = Append(@, k)] /\ model' = model
      BY <1>1 DEF Extract
    <2> HIDE DEF k, o
    <2>3. old \in Seq(Kinds) /\ \A x \in Objects : x # o => executed'[x] = executed[x]
      BY <2>1, <2>2 DEF IInv, TypeOK
    <2>4. /\ executed'[o] = Append(old, k) /\ Len(old) \in Nat /\ DOMAIN old = 1..Len(old)
          /\ DOMAIN executed'[o] = 1..(Len(old) + 1)
          /\ executed'[o][Len(old) + 1] = k
          /\ \A i \in 1..Len(old) : executed'[o][i] = old[i]
      BY <2>1, <2>2, <2>3 DEF IInv, TypeOK
    <2> SUFFICES ASSUME NEW x \in Objects, NEW i \in DOMAIN executed'[x],
                        NEW j \in DOMAIN executed'[x], i < j
                 PROVE  Time(executed'[x][i]) <= Time(executed'[x][j])
      BY <2>2 DEF Sim!InTimeOrder, Time
    <2>5. CASE x # o
      BY <2>5, <2>3 DEF Sim!InTimeOrder, Time
    <2>6. CASE x = o /\ j \in 1..Len(old)
      <3>1. i \in DOMAIN old /\ j \in DOMAIN old
        BY <2>4, <2>6
      <3>2. Time(old[i]) <= Time(old[j])
        BY <3>1, <2>1 DEF Sim!InTimeOrder, Time
      <3> QED
        BY <3>1, <3>2, <2>4, <2>6
    <2>7. CASE x = o /\ j = Len(old) + 1
      <3>1. i \in DOMAIN old /\ executed'[x][i] = old[i] /\ executed'[x][j] = k
        BY <2>4, <2>7
      <3>2. old[i] \in ToSet(old)
        BY <3>1 DEF ToSet
      <3> QED
        BY <3>1, <3>2, <2>1
    <2> QED
      BY <2>4, <2>5, <2>6, <2>7
  <1>2. CASE UNCHANGED <<model, executed>>
    BY <1>2 DEF Sim!InTimeOrder
  <1>3. \/ UNCHANGED <<model, executed>>
        \/ \E t \in Threads : Extract(t)
    BY DEF Next, Barriers, Barrier, UpdateTiming, Step, InitObject, InitDone, ScheduleNewEvent,
           Dispense, Finish, Empty, GetEvent, FallbackInsert, FallbackDone, vars
  <1> QED
    BY <1>1, <1>2, <1>3

-----------------------------------------------------------------------------
(* Every event is in one place *)

\* The lists that hold events: those of the engine, those of the objects'
\* states, and those that INIT and the events not yet executed will schedule.
Places ==
    {<<"slot", o, s>> : o \in Objects, s \in Slots}
    \cup {<<"fallback", t, 0>> : t \in Threads} \cup {<<"outbox", t, 0>> : t \in Threads}
    \cup {<<"executed", o, 0>> : o \in Objects} \cup {<<"init", o, 0>> : o \in Objects}
    \cup {<<"next", k, 0>> : k \in Kinds}

IsExecuted(k) == \E o \in Objects : k \in ToSet(executed[o])

ListAt(c) ==
    CASE c[1] = "slot" -> queue[c[2]][c[3]]
      [] c[1] = "fallback" -> fallback_queue[c[2]]
      [] c[1] = "outbox" -> outbox[c[2]]
      [] c[1] = "executed" -> executed[c[2]]
      [] c[1] = "init" -> IF c[2] \in inited THEN <<>> ELSE model.init[c[2]]
      [] OTHER -> IF IsExecuted(c[2]) THEN <<>> ELSE model.next[c[2]]
Lists == [c \in Places |-> ListAt(c)]

\* No event occurs twice, in a list or in two.
Unique(P, f) ==
    /\ \A c \in P : IsInjective(f[c])
    /\ \A c, d \in P : c # d => ToSet(f[c]) \cap ToSet(f[d]) = {}

\* A thread past INIT has started all its objects.
Started ==
    \A t \in Threads, o \in Objects : pc[t] # "init" /\ HomeThread[o] = t => o \in inited

Once == Unique(Places, Lists) /\ Started

\* An event moves from a list to another one.
Moves(P, f, g, k, a, b) ==
    /\ a \in P /\ b \in P /\ a # b /\ k \in ToSet(f[a])
    /\ IsInjective(g[a]) /\ ToSet(g[a]) \subseteq ToSet(f[a]) \ {k}
    /\ IsInjective(g[b]) /\ ToSet(g[b]) \subseteq ToSet(f[b]) \cup {k}
    /\ \A c \in P : c # a /\ c # b => g[c] = f[c]

LEMMA Moved ==
  ASSUME NEW P, NEW f, NEW g, Unique(P, f), NEW k, NEW a, NEW b, Moves(P, f, g, k, a, b)
  PROVE  Unique(P, g)
  <1>1. \A c \in P : IsInjective(g[c])
    BY DEF Moves, Unique
  <1>2. \A c \in P : c # a => k \notin ToSet(f[c])
    BY DEF Moves, Unique
  <1>3. ASSUME NEW c \in P, NEW d \in P, c # d, NEW x \in ToSet(g[c]), x \in ToSet(g[d])
        PROVE  FALSE
    <2>1. \A e \in P : x \in ToSet(g[e]) => \/ x \in ToSet(f[e]) /\ (e = a => x # k)
                                            \/ e = b /\ x = k
      BY DEF Moves
    <2> QED
      BY <2>1, <1>2, <1>3 DEF Unique
  <1> QED
    BY <1>1, <1>3 DEF Unique

\* A whole list becomes another one.
LEMMA Poured ==
  ASSUME NEW P, NEW f, NEW g, Unique(P, f), NEW a \in P, NEW b \in P, a # b,
         g[a] = <<>>, g[b] = f[a],
         \A c \in P : c # a /\ c # b => g[c] = f[c]
  PROVE  Unique(P, g)
  <1>1. \A c \in P : IsInjective(g[c])
    BY EmptyList DEF Unique
  <1>2. ASSUME NEW c \in P, NEW d \in P, c # d, NEW x \in ToSet(g[c]), x \in ToSet(g[d])
        PROVE  FALSE
    <2>1. c # a /\ d # a
      BY <1>2, EmptyList
    <2>2. CASE c = b
      BY <2>1, <2>2, <1>2 DEF Unique
    <2>3. CASE d = b
      BY <2>1, <2>3, <1>2 DEF Unique
    <2>4. CASE c # b /\ d # b
      BY <2>1, <2>4, <1>2 DEF Unique
    <2> QED
      BY <2>2, <2>3, <2>4
  <1> QED
    BY <1>1, <1>2 DEF Unique

LEMMA ListsNow ==
  /\ \A o \in Objects, s \in Slots :
        <<"slot", o, s>> \in Places /\ Lists[<<"slot", o, s>>] = queue[o][s]
  /\ \A t \in Threads :
        /\ <<"fallback", t, 0>> \in Places /\ Lists[<<"fallback", t, 0>>] = fallback_queue[t]
        /\ <<"outbox", t, 0>> \in Places /\ Lists[<<"outbox", t, 0>>] = outbox[t]
  /\ \A o \in Objects :
        /\ <<"executed", o, 0>> \in Places /\ Lists[<<"executed", o, 0>>] = executed[o]
        /\ <<"init", o, 0>> \in Places
        /\ Lists[<<"init", o, 0>>] = IF o \in inited THEN <<>> ELSE model.init[o]
  /\ \A k \in Kinds :
        /\ <<"next", k, 0>> \in Places
        /\ Lists[<<"next", k, 0>>] = IF IsExecuted(k) THEN <<>> ELSE model.next[k]
  BY DEF Places, Lists, ListAt

LEMMA ListsNext ==
  /\ \A o \in Objects, s \in Slots : Lists'[<<"slot", o, s>>] = queue'[o][s]
  /\ \A t \in Threads : /\ Lists'[<<"fallback", t, 0>>] = fallback_queue'[t]
                        /\ Lists'[<<"outbox", t, 0>>] = outbox'[t]
  /\ \A o \in Objects :
        /\ Lists'[<<"executed", o, 0>>] = executed'[o]
        /\ Lists'[<<"init", o, 0>>] = IF o \in inited' THEN <<>> ELSE model'.init[o]
  /\ \A k \in Kinds :
        Lists'[<<"next", k, 0>>] = IF IsExecuted(k)' THEN <<>> ELSE model'.next[k]
  BY DEF Places, Lists, ListAt

LEMMA PlaceIs ==
  ASSUME NEW c \in Places
  PROVE  \/ \E o \in Objects, s \in Slots : c = <<"slot", o, s>>
         \/ \E t \in Threads : c = <<"fallback", t, 0>>
         \/ \E t \in Threads : c = <<"outbox", t, 0>>
         \/ \E o \in Objects : c = <<"executed", o, 0>>
         \/ \E o \in Objects : c = <<"init", o, 0>>
         \/ \E k \in Kinds : c = <<"next", k, 0>>
  BY DEF Places

\* The places a step does not touch.
LEMMA OtherPlaces ==
  ASSUME NEW A, model' = model,
         \A o \in Objects, s \in Slots : <<"slot", o, s>> \notin A => queue'[o][s] = queue[o][s],
         \A t \in Threads : <<"fallback", t, 0>> \notin A => fallback_queue'[t] = fallback_queue[t],
         \A t \in Threads : <<"outbox", t, 0>> \notin A => outbox'[t] = outbox[t],
         \A o \in Objects : <<"executed", o, 0>> \notin A => executed'[o] = executed[o],
         \A o \in Objects : <<"init", o, 0>> \notin A => (o \in inited' <=> o \in inited),
         \A k \in Kinds : <<"next", k, 0>> \notin A => (IsExecuted(k)' <=> IsExecuted(k))
  PROVE  \A c \in Places : c \notin A => Lists'[c] = Lists[c]
  <1> SUFFICES ASSUME NEW c \in Places, c \notin A PROVE Lists'[c] = Lists[c]
    OBVIOUS
  <1>1. ASSUME NEW o \in Objects, NEW s \in Slots, c = <<"slot", o, s>> PROVE Lists'[c] = Lists[c]
    <2>1. queue'[o][s] = queue[o][s]
      BY <1>1
    <2>2. Lists[<<"slot", o, s>>] = queue[o][s]
      BY ListsNow
    <2>3. Lists'[<<"slot", o, s>>] = queue'[o][s]
      BY ListsNext
    <2> QED
      BY <1>1, <2>1, <2>2, <2>3
  <1>2. ASSUME NEW t \in Threads, c = <<"fallback", t, 0>> PROVE Lists'[c] = Lists[c]
    <2>1. fallback_queue'[t] = fallback_queue[t]
      BY <1>2
    <2>2. Lists[<<"fallback", t, 0>>] = fallback_queue[t]
      BY ListsNow
    <2>3. Lists'[<<"fallback", t, 0>>] = fallback_queue'[t]
      BY ListsNext
    <2> QED
      BY <1>2, <2>1, <2>2, <2>3
  <1>3. ASSUME NEW t \in Threads, c = <<"outbox", t, 0>> PROVE Lists'[c] = Lists[c]
    <2>1. outbox'[t] = outbox[t]
      BY <1>3
    <2>2. Lists[<<"outbox", t, 0>>] = outbox[t]
      BY ListsNow
    <2>3. Lists'[<<"outbox", t, 0>>] = outbox'[t]
      BY ListsNext
    <2> QED
      BY <1>3, <2>1, <2>2, <2>3
  <1>4. ASSUME NEW o \in Objects, c = <<"executed", o, 0>> PROVE Lists'[c] = Lists[c]
    <2>1. executed'[o] = executed[o]
      BY <1>4
    <2>2. Lists[<<"executed", o, 0>>] = executed[o]
      BY ListsNow
    <2>3. Lists'[<<"executed", o, 0>>] = executed'[o]
      BY ListsNext
    <2> QED
      BY <1>4, <2>1, <2>2, <2>3
  <1>5. ASSUME NEW o \in Objects, c = <<"init", o, 0>> PROVE Lists'[c] = Lists[c]
    <2>1. (o \in inited' <=> o \in inited) /\ model' = model
      BY <1>5
    <2>2. /\ Lists'[<<"init", o, 0>>] = IF o \in inited' THEN <<>> ELSE model'.init[o]
          /\ Lists[<<"init", o, 0>>] = IF o \in inited THEN <<>> ELSE model.init[o]
      BY ListsNow, ListsNext
    <2> QED
      BY <1>5, <2>1, <2>2
  <1>6. ASSUME NEW k \in Kinds, c = <<"next", k, 0>> PROVE Lists'[c] = Lists[c]
    <2>1. (IsExecuted(k)' <=> IsExecuted(k)) /\ model' = model
      BY <1>6
    <2>2. Lists[<<"next", k, 0>>] = IF IsExecuted(k) THEN <<>> ELSE model.next[k]
      BY ListsNow
    <2>3. Lists'[<<"next", k, 0>>] = IF IsExecuted(k)' THEN <<>> ELSE model'.next[k]
      BY ListsNext
    <2> QED
      BY <1>6, <2>1, <2>2, <2>3
  <1> QED
    BY <1>1, <1>2, <1>3, <1>4, <1>5, <1>6, PlaceIs

LEMMA OnceAtFirst ==
  ASSUME Assumptions, ScheduledOnce, Init
  PROVE  Once
  <1> IInv
    BY InitEstablishes
  <1> DEFINE filled(c) == \/ \E o \in Objects : c = <<"init", o, 0>>
                          \/ \E k \in Kinds : c = <<"next", k, 0>>
  <1>1. \A k \in Kinds : ~IsExecuted(k)
    BY EmptyList DEF Init, IsExecuted
  <1>2. \A o \in Objects : Lists[<<"init", o, 0>>] = model.init[o]
    BY ListsNow DEF Init
  <1>3. \A k \in Kinds : Lists[<<"next", k, 0>>] = model.next[k]
    BY ListsNow, <1>1
  <1>4. ASSUME NEW c \in Places, ~filled(c) PROVE Lists[c] = <<>>
    <2>1. ASSUME NEW o \in Objects, NEW s \in Slots, c = <<"slot", o, s>> PROVE Lists[c] = <<>>
      BY <2>1, ListsNow DEF Init
    <2>2. ASSUME NEW t \in Threads, c = <<"fallback", t, 0>> PROVE Lists[c] = <<>>
      BY <2>2, ListsNow DEF Init
    <2>3. ASSUME NEW t \in Threads, c = <<"outbox", t, 0>> PROVE Lists[c] = <<>>
      BY <2>3, ListsNow DEF Init
    <2>4. ASSUME NEW o \in Objects, c = <<"executed", o, 0>> PROVE Lists[c] = <<>>
      BY <2>4, ListsNow DEF Init
    <2> QED
      BY <1>4, <2>1, <2>2, <2>3, <2>4, PlaceIs
  <1> DEFINE cause(c) == IF c[1] = "init" THEN <<"init", c[2]>> ELSE <<"event", c[2]>>
  <1>5. ASSUME NEW c \in Places, filled(c)
        PROVE  cause(c) \in Causes /\ Lists[c] = CausedBy(model, cause(c))
    <2>1. ASSUME NEW o \in Objects, c = <<"init", o, 0>>
          PROVE  cause(c) \in Causes /\ Lists[c] = CausedBy(model, cause(c))
      BY <2>1, <1>2 DEF Causes, CausedBy
    <2>2. ASSUME NEW k \in Kinds, c = <<"next", k, 0>>
          PROVE  cause(c) \in Causes /\ Lists[c] = CausedBy(model, cause(c))
      BY <2>2, <1>3 DEF Causes, CausedBy
    <2> QED
      BY <1>5, <2>1, <2>2
  <1>6. \A c, d \in Places : filled(c) /\ filled(d) /\ cause(c) = cause(d) => c = d
    OBVIOUS
  <1>7. model \in Models
    BY DEF Init
  <1> HIDE DEF cause, filled
  <1>8. ASSUME NEW c \in Places, NEW d \in Places, NEW i \in DOMAIN Lists[c],
               NEW j \in DOMAIN Lists[d], Lists[c][i] = Lists[d][j]
        PROVE  c = d /\ i = j
    <2>1. filled(c) /\ filled(d)
      <3>1. DOMAIN <<>> = {}
        OBVIOUS
      <3> QED
        BY <3>1, <1>4, <1>8
    <2>2. cause(c) = cause(d) /\ i = j
      BY <2>1, <1>5, <1>7, <1>8 DEF ScheduledOnce
    <2> QED
      BY <2>1, <2>2, <1>6
  <1>9. Unique(Places, Lists)
    BY <1>8 DEF Unique, IsInjective, ToSet
  <1>10. Started
    BY DEF Init, Started
  <1> QED
    BY <1>9, <1>10 DEF Once

LEMMA StartedKept ==
  ASSUME Assumptions, IInv, Started, [Next]_vars
  PROVE  Started'
  <1>1. CASE \E t \in Threads : InitDone(t)
    <2>1. PICK t \in Threads : InitDone(t)
      BY <1>1
    <2> QED
      BY <2>1 DEF InitDone, Goto, Started, IInv, TypeOK
  <1>2. CASE /\ inited \subseteq inited'
             /\ \A t \in Threads : pc'[t] # "init" => pc[t] # "init"
    BY <1>2 DEF Started
  <1>3. CASE Barriers
    BY <1>3 DEF Barriers, Barrier, UpdateTiming, Started
  <1>4. ASSUME NEW t \in Threads, Step(t), ~InitDone(t)
        PROVE  /\ inited \subseteq inited'
               /\ \A u \in Threads : pc'[u] # "init" => pc[u] # "init"
    BY <1>4 DEF Step, InitObject, ScheduleNewEvent, Dispense, Finish, Empty, Extract, GetEvent,
                FallbackInsert, FallbackDone, Goto, IInv, TypeOK
  <1>5. CASE UNCHANGED vars
    BY <1>5 DEF vars, Started
  <1> QED
    BY <1>1, <1>2, <1>3, <1>4, <1>5 DEF Next

\* An insertion moves an event into the list of its slot.
LEMMA InsertMoves ==
  ASSUME Assumptions, IInv, Unique(Places, Lists), NEW k \in Kinds, Insert(k),
         NEW a \in Places, a # <<"slot", Dest(k), SlotOf(k)>>,
         k \in ToSet(Lists[a]),
         IsInjective(Lists'[a]), ToSet(Lists'[a]) \subseteq ToSet(Lists[a]) \ {k},
         \A c \in Places : c # a /\ c # <<"slot", Dest(k), SlotOf(k)>> => Lists'[c] = Lists[c]
  PROVE  Unique(Places, Lists)'
  <1> DEFINE o == Dest(k)
             s == SlotOf(k)
             b == <<"slot", o, s>>
  <1>1. o \in Objects /\ s \in Slots /\ queue[o][s] \in Seq(Kinds) /\ ModelOK
    BY Limits DEF IInv, TypeOK
  <1>2. b \in Places /\ Lists[b] = queue[o][s] /\ Lists'[b] = queue'[o][s]
    BY <1>1, ListsNow, ListsNext
  <1>3. queue'[o][s] = InsertInOrder(queue[o][s], k)
    BY <1>1, InsertEffect
  <1>4. k \notin ToSet(queue[o][s]) /\ IsInjective(queue[o][s])
    BY <1>2 DEF Unique
  <1>5. ToSet(Lists'[b]) = ToSet(Lists[b]) \cup {k} /\ IsInjective(Lists'[b])
    <2>1. /\ ToSet(InsertInOrder(queue[o][s], k)) = ToSet(queue[o][s]) \cup {k}
          /\ IsInjective(InsertInOrder(queue[o][s], k))
      BY <1>1, <1>4, Inserted
    <2> QED
      BY <1>2, <1>3, <2>1
  <1> HIDE DEF b
  <1>6. a # b /\ \A c \in Places : c # a /\ c # b => Lists'[c] = Lists[c]
    BY DEF b
  <1>7. Moves(Places, Lists, Lists', k, a, b)
    BY <1>2, <1>5, <1>6 DEF Moves
  <1>8. Unique(Places, Lists') /\ Places' = Places
    BY <1>7, Moved DEF Places
  <1> QED
    BY <1>8 DEF Unique

LEMMA SamePlaces == Places' = Places
  BY DEF Places

LEMMA InitObjectOnce ==
  ASSUME Assumptions, IInv, Unique(Places, Lists), NEW t \in Threads, InitObject(t)
  PROVE  Unique(Places, Lists)'
  <1>1. PICK o \in Objects \ inited : /\ inited' = inited \cup {o}
                                      /\ outbox' = [outbox EXCEPT ![t] = model.init[o]]
    BY DEF InitObject
  <1> DEFINE a == <<"init", o, 0>>
             b == <<"outbox", t, 0>>
  <1>2. UNCHANGED <<model, queue, fallback_queue, executed>> /\ outbox[t] = <<>>
    BY DEF InitObject, queues
  <1>3. a \in Places /\ b \in Places /\ a # b
    BY ListsNow
  <1>4. Lists'[a] = <<>> /\ Lists'[b] = Lists[a]
    <2>1. Lists[a] = model.init[o] /\ Lists'[a] = <<>>
      BY <1>1, ListsNow, ListsNext
    <2>2. Lists'[b] = model.init[o]
      BY <1>1, ListsNext DEF IInv, TypeOK
    <2> QED
      BY <2>1, <2>2
  <1>5. \A c \in Places : c \notin {a, b} => Lists'[c] = Lists[c]
    <2>1. \A k \in Kinds : IsExecuted(k)' <=> IsExecuted(k)
      BY <1>2 DEF IsExecuted
    <2>2. \A u \in Threads : <<"outbox", u, 0>> \notin {a, b} => outbox'[u] = outbox[u]
      BY <1>1 DEF IInv, TypeOK
    <2>3. \A p \in Objects : <<"init", p, 0>> \notin {a, b} => (p \in inited' <=> p \in inited)
      BY <1>1
    <2> HIDE DEF a, b
    <2> QED
      BY <1>2, <2>1, <2>2, <2>3, OtherPlaces
  <1> HIDE DEF a, b
  <1>6. Unique(Places, Lists')
    BY <1>3, <1>4, <1>5, Poured
  <1> QED
    BY <1>6, SamePlaces DEF Unique

LEMMA ScheduleNewEventOnce ==
  ASSUME Assumptions, IInv, InOrder, Unique(Places, Lists),
         NEW t \in Threads, ScheduleNewEvent(t)
  PROVE  Unique(Places, Lists)'
  <1> DEFINE k == Head(outbox[t])
             a == <<"outbox", t, 0>>
  <1>1. /\ UNCHANGED <<model, inited, executed>>
        /\ outbox[t] # <<>> /\ QueueInsert(t, k)
        /\ outbox' = [outbox EXCEPT ![t] = Tail(outbox[t])]
    BY DEF ScheduleNewEvent
  <1>2. k \in Kinds /\ Time(k) >= current_min_limit /\ Time(k) \in Nat /\ current_min_limit \in Nat
    BY <1>1, NotRefused, Limits
  <1>3. a \in Places /\ Lists[a] = outbox[t] /\ Lists'[a] = Tail(outbox[t])
    <2>1. outbox'[t] = Tail(outbox[t])
      BY <1>1 DEF IInv, TypeOK
    <2> QED
      BY <2>1, ListsNow, ListsNext
  <1>4. /\ k \in ToSet(Lists[a]) /\ IsInjective(Lists'[a])
        /\ ToSet(Lists'[a]) \subseteq ToSet(Lists[a]) \ {k}
    <2>1. outbox[t] \in Seq(Kinds) /\ ModelOK /\ IsInjective(outbox[t])
      BY <1>3 DEF IInv, TypeOK, Unique
    <2> QED
      BY <1>1, <1>3, <2>1, Tailed
  <1>5. /\ \A u \in Threads : u # t => outbox'[u] = outbox[u]
        /\ \A p \in Kinds : IsExecuted(p)' <=> IsExecuted(p)
    BY <1>1 DEF IInv, TypeOK, IsExecuted
  <1> HIDE DEF k
  <1>6. CASE Time(k) < current_max_limit
    <2> DEFINE b == <<"slot", Dest(k), SlotOf(k)>>
    <2>1. Insert(k) /\ fallback_queue' = fallback_queue
      BY <1>1, <1>2, <1>6 DEF QueueInsert
    <2>2. \A c \in Places : c \notin {a, b} => Lists'[c] = Lists[c]
      <3>1. \A o \in Objects, s \in Slots : <<"slot", o, s>> \notin {a, b} => queue'[o][s] = queue[o][s]
        BY <2>1, <1>2, InsertEffect
      <3>2. \A u \in Threads : <<"outbox", u, 0>> \notin {a, b} => outbox'[u] = outbox[u]
        BY <1>5
      <3> HIDE DEF a, b
      <3> QED
        BY <1>1, <1>5, <2>1, <3>1, <3>2, OtherPlaces
    <2>3. a # b
      OBVIOUS
    <2> HIDE DEF a
    <2> QED
      BY <1>2, <1>3, <1>4, <2>1, <2>2, <2>3, InsertMoves
  <1>7. CASE ~(Time(k) < current_max_limit)
    <2> DEFINE b == <<"fallback", t, 0>>
    <2>1. queue' = queue /\ fallback_queue' = [fallback_queue EXCEPT ![t] = Append(@, k)]
      BY <1>1, <1>2, <1>7 DEF QueueInsert
    <2>2. \A c \in Places : c \notin {a, b} => Lists'[c] = Lists[c]
      <3>1. \A u \in Threads : <<"fallback", u, 0>> \notin {a, b} => fallback_queue'[u] = fallback_queue[u]
        BY <2>1 DEF IInv, TypeOK
      <3>2. \A u \in Threads : <<"outbox", u, 0>> \notin {a, b} => outbox'[u] = outbox[u]
        BY <1>5
      <3> HIDE DEF a, b
      <3> QED
        BY <1>1, <1>5, <2>1, <3>1, <3>2, OtherPlaces
    <2>3. /\ b \in Places /\ a # b /\ Lists[b] = fallback_queue[t]
          /\ Lists'[b] = Append(fallback_queue[t], k) /\ fallback_queue[t] \in Seq(Kinds)
      <3>1. fallback_queue'[t] = Append(fallback_queue[t], k) /\ fallback_queue[t] \in Seq(Kinds)
        BY <2>1 DEF IInv, TypeOK
      <3> QED
        BY <3>1, ListsNow, ListsNext
    <2> HIDE DEF a, b
    <2>4. k \notin ToSet(Lists[b]) /\ IsInjective(Lists[b])
      BY <1>3, <1>4, <2>3 DEF Unique
    <2>5. IsInjective(Lists'[b]) /\ ToSet(Lists'[b]) \subseteq ToSet(Lists[b]) \cup {k}
      BY <1>2, <2>3, <2>4, Appended
    <2>6. \A c \in Places : c # a /\ c # b => Lists'[c] = Lists[c]
      BY <2>2
    <2>7. Moves(Places, Lists, Lists', k, a, b)
      BY <1>3, <1>4, <2>3, <2>5, <2>6 DEF Moves
    <2>8. Unique(Places, Lists')
      BY <2>7, Moved
    <2> QED
      BY <2>8, SamePlaces DEF Unique
  <1> QED
    BY <1>6, <1>7

LEMMA FallbackInsertOnce ==
  ASSUME Assumptions, IInv, Unique(Places, Lists), NEW t \in Threads, FallbackInsert(t)
  PROVE  Unique(Places, Lists)'
  <1>1. PICK i \in Due(t) : /\ Insert(fallback_queue[t][i])
                            /\ fallback_queue' = [fallback_queue EXCEPT ![t] = RemoveAt(@, i)]
    BY DEF FallbackInsert
  <1> DEFINE k == fallback_queue[t][i]
             a == <<"fallback", t, 0>>
             b == <<"slot", Dest(k), SlotOf(k)>>
  <1>2. UNCHANGED <<model, inited, executed, outbox>>
    BY DEF FallbackInsert
  <1>3. fallback_queue[t] \in Seq(Kinds) /\ i \in DOMAIN fallback_queue[t]
    BY DEF Due, IInv, TypeOK
  <1>4. /\ a \in Places /\ Lists[a] = fallback_queue[t]
        /\ Lists'[a] = RemoveAt(fallback_queue[t], i)
    <2>1. fallback_queue'[t] = RemoveAt(fallback_queue[t], i)
      BY <1>1 DEF IInv, TypeOK
    <2> QED
      BY <2>1, ListsNow, ListsNext
  <1>5. /\ k \in ToSet(Lists[a]) /\ k \in Kinds /\ IsInjective(Lists'[a])
        /\ ToSet(Lists'[a]) \subseteq ToSet(Lists[a]) \ {k}
    <2>1. IsInjective(fallback_queue[t])
      BY <1>4 DEF Unique
    <2>2. /\ ToSet(fallback_queue[t]) = ToSet(RemoveAt(fallback_queue[t], i)) \cup {k}
          /\ IsInjective(RemoveAt(fallback_queue[t], i))
          /\ k \notin ToSet(RemoveAt(fallback_queue[t], i))
      BY <1>3, <2>1, Removed
    <2>3. k \in Kinds
      BY <1>3, <2>2, Elements
    <2> HIDE DEF k
    <2> QED
      BY <1>4, <2>2, <2>3
  <1>k. Insert(k)
    BY <1>1
  <1> HIDE DEF k
  <1>6. \A c \in Places : c \notin {a, b} => Lists'[c] = Lists[c]
    <2>1. \A o \in Objects, s \in Slots : <<"slot", o, s>> \notin {a, b} => queue'[o][s] = queue[o][s]
      BY <1>k, <1>5, InsertEffect
    <2>2. \A u \in Threads : <<"fallback", u, 0>> \notin {a, b} => fallback_queue'[u] = fallback_queue[u]
      BY <1>1 DEF IInv, TypeOK
    <2>3. \A p \in Kinds : IsExecuted(p)' <=> IsExecuted(p)
      BY <1>2 DEF IsExecuted
    <2> HIDE DEF a, b
    <2> QED
      BY <1>2, <2>1, <2>2, <2>3, OtherPlaces
  <1>7. a # b
    OBVIOUS
  <1> HIDE DEF a
  <1> QED
    BY <1>4, <1>5, <1>6, <1>7, <1>k, InsertMoves

\* The event goes to the state of its object, and what it schedules to the
\* outbox.
LEMMA ExtractOnce ==
  ASSUME Assumptions, IInv, InOrder, Unique(Places, Lists), NEW t \in Threads, Extract(t)
  PROVE  /\ Unique(Places, Lists)'
         /\ ~IsExecuted(Head(Slot(t)))
  <1>k. PICK k \in Kinds, o \in Objects, s \in Slots :
            k = Head(Slot(t)) /\ o = target[t] /\ s = current_index
    BY HeadIsNext, Limits
  <1> DEFINE q == queue[o][s]
             a == <<"slot", o, s>>
             b == <<"executed", o, 0>>
             n == <<"next", k, 0>>
             d == <<"outbox", t, 0>>
  <1>1. my_index[t] = s /\ outbox[t] = <<>>
    BY <1>k, HeadIsNext
  <1>2. Slot(t) = q /\ q # <<>> /\ q \in Seq(Kinds) /\ k = Head(q) /\ ModelOK
    BY <1>1, <1>k DEF Extract, Slot, IInv, TypeOK
  <1>3. /\ queue' = [queue EXCEPT ![o][s] = Tail(q)]
        /\ executed' = [executed EXCEPT ![o] = Append(@, k)]
        /\ outbox' = [outbox EXCEPT ![t] = model.next[k]]
        /\ UNCHANGED <<model, fallback_queue, inited>>
    BY <1>1, <1>2, <1>k DEF Extract
  <1>4. /\ a \in Places /\ b \in Places /\ n \in Places /\ d \in Places
        /\ a # b /\ a # n /\ a # d /\ b # n /\ b # d /\ n # d
        /\ Lists[a] = q /\ Lists[b] = executed[o] /\ Lists[d] = <<>>
    BY <1>1, <1>2, ListsNow
  <1>5. /\ k \in ToSet(q) /\ IsInjective(Tail(q)) /\ ToSet(Tail(q)) \subseteq ToSet(q) \ {k}
    <2>1. IsInjective(q)
      BY <1>4 DEF Unique
    <2> QED
      BY <1>2, <2>1, Tailed
  <1>6. ~IsExecuted(k)
    <2> SUFFICES ASSUME NEW x \in Objects, k \in ToSet(executed[x]) PROVE FALSE
      BY DEF IsExecuted
    <2> DEFINE e == <<"executed", x, 0>>
    <2>1. e \in Places /\ e # a /\ Lists[e] = executed[x]
      BY ListsNow
    <2> HIDE DEF a, e
    <2> QED
      BY <2>1, <1>4, <1>5 DEF Unique
  <1>7. k \notin ToSet(executed[o]) /\ executed[o] \in Seq(Kinds) /\ IsInjective(executed[o])
    BY <1>1, <1>4, <1>6 DEF IsExecuted, IInv, TypeOK, Unique
  <1>8. /\ IsInjective(Append(executed[o], k))
        /\ ToSet(Append(executed[o], k)) = ToSet(executed[o]) \cup {k}
    BY <1>1, <1>7, Appended
  <1>9. /\ Lists'[a] = Tail(q) /\ Lists'[b] = Append(executed[o], k)
        /\ Lists'[d] = model.next[k] /\ Lists'[n] = <<>> /\ Lists[n] = model.next[k]
    <2>1. /\ queue'[o][s] = Tail(q) /\ executed'[o] = Append(executed[o], k)
          /\ outbox'[t] = model.next[k]
      BY <1>1, <1>2, <1>3 DEF IInv, TypeOK
    <2>2. IsExecuted(k)'
      BY <2>1, <1>1, <1>8 DEF IsExecuted
    <2> QED
      BY <2>1, <2>2, <1>1, <1>2, <1>6, ListsNow, ListsNext
  <1>10. \A c \in Places : c \notin {a, b, n, d} => Lists'[c] = Lists[c]
    <2>1. \A x \in Objects, y \in Slots : <<"slot", x, y>> \notin {a, b, n, d} => queue'[x][y] = queue[x][y]
      BY <1>1, <1>2, <1>3 DEF IInv, TypeOK
    <2>2. \A x \in Objects : <<"executed", x, 0>> \notin {a, b, n, d} => executed'[x] = executed[x]
      BY <1>1, <1>3 DEF IInv, TypeOK
    <2>3. \A u \in Threads : <<"outbox", u, 0>> \notin {a, b, n, d} => outbox'[u] = outbox[u]
      BY <1>3 DEF IInv, TypeOK
    <2>4. \A p \in Kinds : <<"next", p, 0>> \notin {a, b, n, d} => (IsExecuted(p)' <=> IsExecuted(p))
      <3> SUFFICES ASSUME NEW p \in Kinds, p # k PROVE IsExecuted(p)' <=> IsExecuted(p)
        OBVIOUS
      <3>1. \A x \in Objects : p \in ToSet(executed'[x]) <=> p \in ToSet(executed[x])
        <4> SUFFICES ASSUME NEW x \in Objects
                     PROVE  p \in ToSet(executed'[x]) <=> p \in ToSet(executed[x])
          OBVIOUS
        <4>1. CASE x = o
          <5>1. executed'[x] = Append(executed[o], k)
            BY <4>1, <1>1, <1>3 DEF IInv, TypeOK
          <5> QED
            BY <4>1, <5>1, <1>8
        <4>2. CASE x # o
          BY <4>2, <1>3 DEF IInv, TypeOK
        <4> QED
          BY <4>1, <4>2
      <3> QED
        BY <3>1 DEF IsExecuted
    <2> HIDE DEF a, b, n, d
    <2> QED
      BY <1>3, <2>1, <2>2, <2>3, <2>4, OtherPlaces
  <1> DEFINE g == [Lists EXCEPT ![a] = Tail(q), ![b] = Append(executed[o], k)]
  <1> HIDE DEF a, b, n, d, q
  <1>11. /\ g[a] = Tail(q) /\ g[b] = Append(executed[o], k)
         /\ \A c \in Places : c # a /\ c # b => g[c] = Lists[c]
    BY <1>4 DEF Lists
  <1> HIDE DEF g
  <1>12. Unique(Places, g)
    <2>1. /\ k \in ToSet(Lists[a]) /\ IsInjective(g[a]) /\ IsInjective(g[b])
          /\ ToSet(g[a]) \subseteq ToSet(Lists[a]) \ {k}
          /\ ToSet(g[b]) \subseteq ToSet(Lists[b]) \cup {k}
      BY <1>4, <1>5, <1>8, <1>11
    <2>2. Moves(Places, Lists, g, k, a, b)
      BY <1>4, <1>11, <2>1 DEF Moves
    <2> QED
      BY <2>2, Moved
  <1>13. /\ Lists'[n] = <<>> /\ Lists'[d] = g[n]
         /\ \A c \in Places : c # n /\ c # d => Lists'[c] = g[c]
    BY <1>4, <1>9, <1>10, <1>11
  <1>14. Unique(Places, Lists')
    BY <1>4, <1>12, <1>13, Poured
  <1> QED
    BY <1>6, <1>14, <1>k, SamePlaces DEF Unique

LEMMA OnceKept ==
  ASSUME Assumptions
  PROVE  IInv /\ InOrder /\ Once /\ [Next]_vars => Once'
  <1> SUFFICES ASSUME IInv, InOrder, Once, [Next]_vars PROVE Once'
    OBVIOUS
  <1>1. Started' /\ Unique(Places, Lists)
    BY StartedKept DEF Once
  <1>2. CASE UNCHANGED <<model, queue, fallback_queue, inited, executed, outbox>>
    <2>1. Lists' = Lists
      BY <1>2 DEF Lists, ListAt, IsExecuted, Places
    <2> QED
      BY <1>1, <2>1, SamePlaces DEF Once, Unique
  <1>3. ASSUME NEW t \in Threads,
               InitObject(t) \/ ScheduleNewEvent(t) \/ Extract(t) \/ FallbackInsert(t)
        PROVE  Unique(Places, Lists)'
    BY <1>1, <1>3, InitObjectOnce, ScheduleNewEventOnce, ExtractOnce, FallbackInsertOnce
  <1>4. \/ UNCHANGED <<model, queue, fallback_queue, inited, executed, outbox>>
        \/ \E t \in Threads :
              InitObject(t) \/ ScheduleNewEvent(t) \/ Extract(t) \/ FallbackInsert(t)
    BY DEF Next, Barriers, Barrier, UpdateTiming, Step, InitDone, Dispense, Finish, Empty, GetEvent,
           FallbackDone, vars, queues
  <1> QED
    BY <1>1, <1>2, <1>3, <1>4 DEF Once

-----------------------------------------------------------------------------
(* The refinement *)

LEMMA ScheduledNow ==
  \A p : p \in Scheduled <=>
      \/ \E o \in Objects, s \in Slots : p \in ToSet(queue[o][s])
      \/ \E t \in Threads : p \in ToSet(fallback_queue[t])
      \/ \E t \in Threads : p \in ToSet(outbox[t])
      \/ \E o \in Objects \ inited : p \in ToSet(model.init[o])
  BY DEF Scheduled

LEMMA ScheduledNext ==
  \A p : p \in Scheduled' <=>
      \/ \E o \in Objects, s \in Slots : p \in ToSet(queue'[o][s])
      \/ \E t \in Threads : p \in ToSet(fallback_queue'[t])
      \/ \E t \in Threads : p \in ToSet(outbox'[t])
      \/ \E o \in Objects \ inited' : p \in ToSet(model'.init[o])
  BY DEF Scheduled

LEMMA RefinesInit ==
  ASSUME Assumptions, Init
  PROVE  Sim!Init
  <1>1. model \in Models /\ executed = [o \in Objects |-> <<>>]
    BY DEF Init
  <1>2. current_min_limit + LOOKAHEAD = LOOKAHEAD
    BY Constants DEF Init, current_min_limit
  <1>3. Scheduled = UNION {ToSet(model.init[o]) : o \in Objects}
    <2>1. \A p : p \in Scheduled <=> \E o \in Objects : p \in ToSet(model.init[o])
      BY ScheduledNow, EmptyList DEF Init
    <2> QED
      BY <2>1
  <1> QED
    BY <1>1, <1>2, <1>3 DEF Sim!Init, Sim!ToSet, ToSet

\* A step that only moves events from list to list changes nothing that
\* Simulation sees.
LEMMA Stutters ==
  ASSUME UNCHANGED <<model, epochs, executed>>, Scheduled' = Scheduled
  PROVE  UNCHANGED Sim!vars
  BY DEF Sim!vars, current_min_limit

LEMMA InitObjectStutters ==
  ASSUME Assumptions, IInv, NEW t \in Threads, InitObject(t)
  PROVE  UNCHANGED Sim!vars
  <1>1. PICK o \in Objects \ inited : /\ inited' = inited \cup {o}
                                      /\ outbox' = [outbox EXCEPT ![t] = model.init[o]]
    BY DEF InitObject
  <1>2. UNCHANGED <<model, queue, fallback_queue, executed, epochs>> /\ outbox[t] = <<>>
    BY DEF InitObject, queues, window
  <1>3. /\ outbox'[t] = model.init[o]
        /\ \A u \in Threads : u # t => outbox'[u] = outbox[u]
    BY <1>1 DEF IInv, TypeOK
  <1>4. \A p : p \in Scheduled' <=> p \in Scheduled
    <2> SUFFICES ASSUME NEW p PROVE p \in Scheduled' <=> p \in Scheduled
      OBVIOUS
    <2>1. /\ \A u \in Threads : p \in ToSet(outbox[u]) => u # t
          /\ \A u \in Threads : p \in ToSet(outbox'[u]) <=>
                (u = t /\ p \in ToSet(model.init[o])) \/ p \in ToSet(outbox[u])
      BY <1>2, <1>3, EmptyList
    <2>2. \A x \in Objects : x \notin inited <=> x \notin inited' \/ x = o
      BY <1>1
    <2> QED
      BY <1>2, <2>1, <2>2, ScheduledNow, ScheduledNext
  <1>5. Scheduled' = Scheduled
    BY <1>4
  <1> QED
    BY <1>2, <1>5, Stutters

LEMMA ScheduleNewEventStutters ==
  ASSUME Assumptions, IInv, InOrder, NEW t \in Threads, ScheduleNewEvent(t)
  PROVE  UNCHANGED Sim!vars
  <1>1. PICK k \in Kinds : k = Head(outbox[t])
    BY NotRefused DEF ScheduleNewEvent
  <1>2. /\ UNCHANGED <<model, inited, executed, epochs>>
        /\ outbox[t] # <<>> /\ QueueInsert(t, k)
        /\ outbox' = [outbox EXCEPT ![t] = Tail(outbox[t])]
    BY <1>1 DEF ScheduleNewEvent, window
  <1>3. Time(k) >= current_min_limit /\ Time(k) \in Nat /\ current_min_limit \in Nat
    BY <1>1, <1>2, NotRefused, Limits
  <1>4. \A u \in Threads : \A p : p \in ToSet(outbox[u]) <=> p \in ToSet(outbox'[u]) \/ (u = t /\ p = k)
    <2>1. outbox'[t] = Tail(outbox[t]) /\ \A u \in Threads : u # t => outbox'[u] = outbox[u]
      BY <1>2 DEF IInv, TypeOK
    <2>2. ToSet(outbox[t]) = {k} \cup ToSet(Tail(outbox[t]))
      <3>1. outbox[t] \in Seq(Kinds) /\ ModelOK
        BY DEF IInv, TypeOK
      <3> QED
        BY <3>1, <1>1, <1>2, Tailed
    <2> QED
      BY <2>1, <2>2
  <1>5. CASE Time(k) < current_max_limit
    <2>1. Insert(k) /\ fallback_queue' = fallback_queue
      BY <1>2, <1>3, <1>5 DEF QueueInsert
    <2>2. \A o \in Objects, s \in Slots : \A p :
              p \in ToSet(queue'[o][s]) <=>
                  p \in ToSet(queue[o][s]) \/ (o = Dest(k) /\ s = SlotOf(k) /\ p = k)
      BY <2>1, InsertEffect
    <2>3. Dest(k) \in Objects /\ SlotOf(k) \in Slots
      BY Limits
    <2>4. \A p : p \in Scheduled' <=> p \in Scheduled
      <3> SUFFICES ASSUME NEW p PROVE p \in Scheduled' <=> p \in Scheduled
        OBVIOUS
      <3>1. (\E o \in Objects, s \in Slots : p \in ToSet(queue'[o][s])) <=>
                (\E o \in Objects, s \in Slots : p \in ToSet(queue[o][s])) \/ p = k
        BY <2>2, <2>3
      <3>2. (\E u \in Threads : p \in ToSet(outbox[u])) <=>
                (\E u \in Threads : p \in ToSet(outbox'[u])) \/ p = k
        BY <1>4
      <3> QED
        BY <1>2, <2>1, <3>1, <3>2, ScheduledNow, ScheduledNext
    <2> QED
      BY <1>2, <2>4, Stutters
  <1>6. CASE ~(Time(k) < current_max_limit)
    <2>1. queue' = queue /\ fallback_queue' = [fallback_queue EXCEPT ![t] = Append(@, k)]
      BY <1>2, <1>3, <1>6 DEF QueueInsert
    <2>2. \A u \in Threads : \A p :
              p \in ToSet(fallback_queue'[u]) <=> p \in ToSet(fallback_queue[u]) \/ (u = t /\ p = k)
      <3>1. fallback_queue[t] \in Seq(Kinds) /\ fallback_queue'[t] = Append(fallback_queue[t], k)
        BY <2>1 DEF IInv, TypeOK
      <3>2. ToSet(fallback_queue'[t]) = ToSet(fallback_queue[t]) \cup {k}
        BY <3>1, Appended
      <3> QED
        BY <3>2, <2>1 DEF IInv, TypeOK
    <2>3. \A p : p \in Scheduled' <=> p \in Scheduled
      <3> SUFFICES ASSUME NEW p PROVE p \in Scheduled' <=> p \in Scheduled
        OBVIOUS
      <3>1. (\E u \in Threads : p \in ToSet(fallback_queue'[u])) <=>
                (\E u \in Threads : p \in ToSet(fallback_queue[u])) \/ p = k
        BY <2>2
      <3>2. (\E u \in Threads : p \in ToSet(outbox[u])) <=>
                (\E u \in Threads : p \in ToSet(outbox'[u])) \/ p = k
        BY <1>4
      <3> QED
        BY <1>2, <2>1, <3>1, <3>2, ScheduledNow, ScheduledNext
    <2> QED
      BY <1>2, <2>3, Stutters
  <1> QED
    BY <1>5, <1>6

LEMMA FallbackInsertStutters ==
  ASSUME Assumptions, IInv, NEW t \in Threads, FallbackInsert(t)
  PROVE  UNCHANGED Sim!vars
  <1>1. PICK i \in Due(t) : /\ Insert(fallback_queue[t][i])
                            /\ fallback_queue' = [fallback_queue EXCEPT ![t] = RemoveAt(@, i)]
    BY DEF FallbackInsert
  <1>2. UNCHANGED <<model, inited, executed, outbox, epochs>>
    BY DEF FallbackInsert, window
  <1>3. fallback_queue[t] \in Seq(Kinds) /\ i \in DOMAIN fallback_queue[t]
    BY DEF Due, IInv, TypeOK
  <1>4. PICK k \in Kinds : k = fallback_queue[t][i]
    BY <1>3, ElementOfSeq
  <1>5. \A u \in Threads : \A p :
            p \in ToSet(fallback_queue[u]) <=> p \in ToSet(fallback_queue'[u]) \/ (u = t /\ p = k)
    <2>1. ToSet(fallback_queue[t]) = ToSet(RemoveAt(fallback_queue[t], i)) \cup {k}
      BY <1>3, <1>4, Removed
    <2> QED
      BY <2>1, <1>1 DEF IInv, TypeOK
  <1>6. \A o \in Objects, s \in Slots : \A p :
            p \in ToSet(queue'[o][s]) <=>
                p \in ToSet(queue[o][s]) \/ (o = Dest(k) /\ s = SlotOf(k) /\ p = k)
    BY <1>1, <1>4, InsertEffect
  <1>7. Dest(k) \in Objects /\ SlotOf(k) \in Slots
    BY Limits
  <1>8. \A p : p \in Scheduled' <=> p \in Scheduled
    <2> SUFFICES ASSUME NEW p PROVE p \in Scheduled' <=> p \in Scheduled
      OBVIOUS
    <2>1. (\E o \in Objects, s \in Slots : p \in ToSet(queue'[o][s])) <=>
              (\E o \in Objects, s \in Slots : p \in ToSet(queue[o][s])) \/ p = k
      BY <1>6, <1>7
    <2>2. (\E u \in Threads : p \in ToSet(fallback_queue[u])) <=>
              (\E u \in Threads : p \in ToSet(fallback_queue'[u])) \/ p = k
      BY <1>5
    <2> QED
      BY <1>2, <2>1, <2>2, ScheduledNow, ScheduledNext
  <1> QED
    BY <1>2, <1>8, Stutters

\* Past INIT, what is scheduled is in a queue or about to be.
LEMMA AllStarted ==
  ASSUME Assumptions, IInv, Started, \A t \in Threads : pc[t] # "init"
  PROVE  Objects \ inited = {}
  BY DEF Started, Assumptions, ConservativeAssumption

LEMMA ExtractExecutes ==
  ASSUME Assumptions, IInv, InOrder, Once, NEW t \in Threads, Extract(t)
  PROVE  \E k \in Kinds : Sim!Execute(k)
  <1>1. PICK k \in Kinds, o \in Objects, s \in Slots :
            k = Head(Slot(t)) /\ o = target[t] /\ s = current_index
    BY HeadIsNext, Limits
  <1> DEFINE q == queue[o][s]
  <1>2. /\ my_index[t] = s /\ outbox[t] = <<>> /\ k \in ToSet(q) /\ Dest(k) = o
        /\ Time(k) < current_min_limit + LOOKAHEAD
        /\ \A x \in Slots : \A p \in ToSet(queue[o][x]) : Time(k) <= Time(p)
        /\ \A u \in Threads : \A p \in ToSet(outbox[u]) : Dest(p) = o => Time(k) <= Time(p)
        /\ \A u \in Threads : \A p \in ToSet(fallback_queue[u]) : Time(k) <= Time(p)
        /\ \A u \in Threads : pc[u] \in Running
    BY <1>1, HeadIsNext
  <1>3. Slot(t) = q /\ q # <<>> /\ q \in Seq(Kinds) /\ k = Head(q) /\ ModelOK
    BY <1>1, <1>2 DEF Extract, Slot, IInv, TypeOK
  <1>4. /\ queue' = [queue EXCEPT ![o][s] = Tail(q)]
        /\ executed' = [executed EXCEPT ![o] = Append(@, k)]
        /\ outbox' = [outbox EXCEPT ![t] = model.next[k]]
        /\ UNCHANGED <<model, fallback_queue, inited, epochs>>
    BY <1>1, <1>2, <1>3 DEF Extract, window
  <1>5. Objects \ inited = {}
    <2>1. \A u \in Threads : pc[u] # "init"
      BY <1>2 DEF Running
    <2> QED
      BY <2>1, AllStarted DEF Once
  <1>6. \A p : p \in Scheduled <=>
            \/ \E x \in Objects, y \in Slots : p \in ToSet(queue[x][y])
            \/ \E u \in Threads : p \in ToSet(fallback_queue[u])
            \/ \E u \in Threads : p \in ToSet(outbox[u])
    BY <1>5, ScheduledNow
  <1>7. k \in Scheduled
    BY <1>2, <1>6
  <1>8. \A p \in Scheduled : Dest(p) = o => Time(k) <= Time(p)
    <2> SUFFICES ASSUME NEW p \in Scheduled, Dest(p) = o PROVE Time(k) <= Time(p)
      OBVIOUS
    <2>1. ASSUME NEW x \in Objects, NEW y \in Slots, p \in ToSet(queue[x][y])
          PROVE  Time(k) <= Time(p)
      <3>1. x = o
        BY <2>1 DEF InOrder, InSlots
      <3> QED
        BY <3>1, <2>1, <1>2
    <2> QED
      BY <2>1, <1>2, <1>6
  <1>u. /\ k \notin ToSet(Tail(q)) /\ ToSet(q) = {k} \cup ToSet(Tail(q))
        /\ \A x \in Objects, y \in Slots : ~(x = o /\ y = s) => k \notin ToSet(queue[x][y])
        /\ \A u \in Threads : k \notin ToSet(fallback_queue[u]) /\ k \notin ToSet(outbox[u])
    <2> DEFINE a == <<"slot", o, s>>
    <2>1. a \in Places /\ Lists[a] = q /\ Unique(Places, Lists)
      BY ListsNow DEF Once
    <2>2. \A c \in Places : c # a => k \notin ToSet(Lists[c])
      BY <2>1, <1>2 DEF Unique
    <2>3. IsInjective(q)
      BY <2>1 DEF Unique
    <2>4. k \notin ToSet(Tail(q)) /\ ToSet(q) = {k} \cup ToSet(Tail(q))
      BY <2>3, <1>3, Tailed
    <2>5. ASSUME NEW x \in Objects, NEW y \in Slots, ~(x = o /\ y = s)
          PROVE  k \notin ToSet(queue[x][y])
      <3>1. <<"slot", x, y>> \in Places /\ <<"slot", x, y>> # a
        BY <2>5, ListsNow
      <3> QED
        BY <3>1, <2>2, ListsNow
    <2>6. ASSUME NEW u \in Threads PROVE k \notin ToSet(fallback_queue[u]) /\ k \notin ToSet(outbox[u])
      <3>1. /\ <<"fallback", u, 0>> \in Places /\ <<"fallback", u, 0>> # a
            /\ <<"outbox", u, 0>> \in Places /\ <<"outbox", u, 0>> # a
        BY ListsNow
      <3> HIDE DEF a
      <3> QED
        BY <3>1, <2>2, ListsNow
    <2> QED
      BY <2>4, <2>5, <2>6
  <1>9. Scheduled' = (Scheduled \ {k}) \cup ToSet(model.next[k])
    <2>1. /\ queue'[o][s] = Tail(q) /\ outbox'[t] = model.next[k]
          /\ \A x \in Objects, y \in Slots : ~(x = o /\ y = s) => queue'[x][y] = queue[x][y]
          /\ \A u \in Threads : u # t => outbox'[u] = outbox[u]
      BY <1>4 DEF IInv, TypeOK
    <2> HIDE DEF q
    <2>2. \A p : (\E x \in Objects, y \in Slots : p \in ToSet(queue'[x][y])) <=>
              p # k /\ \E x \in Objects, y \in Slots : p \in ToSet(queue[x][y])
      <3>1. \A x \in Objects, y \in Slots : \A p :
                p \in ToSet(queue'[x][y]) <=> p # k /\ p \in ToSet(queue[x][y])
        <4> SUFFICES ASSUME NEW x \in Objects, NEW y \in Slots, NEW p
                     PROVE  p \in ToSet(queue'[x][y]) <=> p # k /\ p \in ToSet(queue[x][y])
          OBVIOUS
        <4>1. CASE x = o /\ y = s
          BY <4>1, <2>1, <1>u DEF q
        <4>2. CASE ~(x = o /\ y = s)
          BY <4>2, <2>1, <1>u
        <4> QED
          BY <4>1, <4>2
      <3> QED
        BY <3>1
    <2>3. \A p : (\E u \in Threads : p \in ToSet(outbox'[u])) <=>
              \/ p # k /\ \E u \in Threads : p \in ToSet(outbox[u])
              \/ p \in ToSet(model.next[k])
      BY <2>1, <1>2, <1>u, EmptyList
    <2>4. \A p : p \in Scheduled' <=> (p \in Scheduled /\ p # k) \/ p \in ToSet(model.next[k])
      BY <1>4, <1>5, <1>6, <1>u, <2>2, <2>3, ScheduledNext
    <2> QED
      BY <2>4
  <1>10. current_min_limit' = current_min_limit
    BY <1>4 DEF current_min_limit
  <1>11. Sim!Execute(k)
    BY <1>2, <1>4, <1>7, <1>8, <1>9, <1>10 DEF Sim!Execute, Time, Dest, Sim!ToSet, ToSet
  <1> QED
    BY <1>11

LEMMA UpdateTimingAdvances ==
  ASSUME Assumptions, IInv, InOrder, Once, UpdateTiming
  PROVE  Sim!Advance
  <1>1. /\ UNCHANGED <<model, queue, fallback_queue, inited, executed, outbox>>
        /\ \A t \in Threads : pc[t] = "quiet"
        /\ epochs' = epochs + 1
    BY DEF UpdateTiming, queues
  <1>2. /\ \A o \in Objects, s \in Slots : \A p \in ToSet(queue[o][s]) :
                Time(p) >= current_min_limit + LOOKAHEAD
        /\ \A t \in Threads : \A p \in ToSet(fallback_queue[t]) : Time(p) >= current_max_limit
        /\ \A t \in Threads : outbox[t] = <<>>
    BY <1>1, WindowIsOver
  <1>3. Objects \ inited = {}
    BY <1>1, AllStarted DEF Once
  <1>4. \A p \in Scheduled : Time(p) >= current_min_limit + LOOKAHEAD
    <2>1. ASSUME NEW t \in Threads, NEW p \in ToSet(fallback_queue[t])
          PROVE  Time(p) >= current_min_limit + LOOKAHEAD
      <3>1. p \in Kinds /\ Time(p) >= current_max_limit
        BY <2>1, <1>2, Listed
      <3> QED
        BY <3>1, Limits
    <2> QED
      BY <2>1, <1>2, <1>3, ScheduledNow, EmptyList
  <1>5. Scheduled' = Scheduled
    BY <1>1 DEF Scheduled
  <1>6. current_min_limit' = current_min_limit + LOOKAHEAD
    BY <1>1, NextWindow
  <1> QED
    BY <1>1, <1>4, <1>5, <1>6 DEF Sim!Advance, Time

LEMMA StepRefines ==
  ASSUME Assumptions
  PROVE  IInv /\ InOrder /\ Once /\ [Next]_vars => [Sim!Next]_(Sim!vars)
  <1> SUFFICES ASSUME IInv, InOrder, Once, [Next]_vars PROVE [Sim!Next]_(Sim!vars)
    OBVIOUS
  <1>1. ASSUME NEW t \in Threads, Extract(t) PROVE Sim!Next
    BY <1>1, ExtractExecutes DEF Sim!Next
  <1>2. ASSUME UpdateTiming PROVE Sim!Next
    BY <1>2, UpdateTimingAdvances DEF Sim!Next
  <1>3. ASSUME NEW t \in Threads, InitObject(t) \/ ScheduleNewEvent(t) \/ FallbackInsert(t)
        PROVE  UNCHANGED Sim!vars
    BY <1>3, InitObjectStutters, ScheduleNewEventStutters, FallbackInsertStutters
  <1>4. CASE UNCHANGED <<model, queue, fallback_queue, inited, executed, outbox, epochs>>
    <2>1. Scheduled' = Scheduled
      BY <1>4 DEF Scheduled
    <2> QED
      BY <1>4, <2>1, Stutters
  <1>5. \/ UNCHANGED <<model, queue, fallback_queue, inited, executed, outbox, epochs>>
        \/ UpdateTiming
        \/ \E t \in Threads :
              InitObject(t) \/ ScheduleNewEvent(t) \/ Extract(t) \/ FallbackInsert(t)
    BY DEF Next, Barriers, Barrier, Step, InitDone, Dispense, Finish, Empty, GetEvent,
           FallbackDone, vars, queues, window
  <1> QED
    BY <1>1, <1>2, <1>3, <1>4, <1>5

-----------------------------------------------------------------------------
(* Theorems *)

LEMMA AlwaysInOrder ==
  ASSUME Assumptions
  PROVE  Spec => [](IInv /\ InOrder)
  <1>1. Init => InOrder
    BY OrderedAtFirst
  <1>2. IInv /\ InOrder /\ [Next]_vars => InOrder'
    BY StepOrdered
  <1> QED
    BY <1>1, <1>2, Inductive, PTL DEF Spec

\* Every object executes its events in the order of their timestamps, for any
\* number of threads, objects and slots, in whatever order the threads take the
\* objects and insert what they schedule (queue.c), for any model that respects
\* the lookahead.
THEOREM CausalityRespected ==
  ASSUME Assumptions
  PROVE  Spec => []Sim!InTimeOrder
  <1>1. Init => Sim!InTimeOrder
    BY DEF Init, Sim!InTimeOrder
  <1>2. IInv /\ InOrder /\ Sim!InTimeOrder /\ [Next]_vars => Sim!InTimeOrder'
    BY TimeOrderKept
  <1> QED
    BY <1>1, <1>2, AlwaysInOrder, PTL DEF Spec

\* The queues, slots, fallback queues, dispenser and barriers do what Simulation
\* promises: of what is scheduled nothing is lost, refused or executed twice,
\* an object always executes the earliest of its events, and a window is left
\* when nothing scheduled falls into it.
THEOREM EngineImplementsSimulation ==
  ASSUME Assumptions, ScheduledOnce
  PROVE  Spec => ImplementsSimulation
  <1>1. Init => Sim!Init
    BY RefinesInit
  <1>2. Init => Once
    BY OnceAtFirst
  <1>3. IInv /\ InOrder /\ Once /\ [Next]_vars => Once'
    BY OnceKept
  <1>4. IInv /\ InOrder /\ Once /\ [Next]_vars => [Sim!Next]_(Sim!vars)
    BY StepRefines
  <1> QED
    BY <1>1, <1>2, <1>3, <1>4, AlwaysInOrder, PTL DEF Spec, ImplementsSimulation, Sim!Spec

-----------------------------------------------------------------------------
(* The counter of pending events *)

SlotLists == [p \in Objects \X Slots |-> queue[p[1]][p[2]]]

Counting ==
    /\ IsFiniteSet(Cells(SlotLists)) /\ IsFiniteSet(Cells(fallback_queue))
    /\ pending_events = Cardinality(Cells(SlotLists)) + Cardinality(Cells(fallback_queue))

\* When one list becomes longer by an element, there is one element more.
LEMMA OneLonger ==
  ASSUME NEW f, NEW g, DOMAIN f = DOMAIN g, NEW a \in DOMAIN f, NEW n \in Nat,
         DOMAIN f[a] = 1..n, DOMAIN g[a] = 1..(n + 1),
         \A p \in DOMAIN f \ {a} : DOMAIN g[p] = DOMAIN f[p]
  PROVE  /\ Cells(g) = Cells(f) \cup {<<a, n + 1>>} /\ Cells(f) = Cells(g) \ {<<a, n + 1>>}
         /\ IsFiniteSet(Cells(f)) => /\ IsFiniteSet(Cells(g))
                                     /\ Cardinality(Cells(g)) = Cardinality(Cells(f)) + 1
         /\ IsFiniteSet(Cells(g)) => /\ IsFiniteSet(Cells(f))
                                     /\ Cardinality(Cells(f)) = Cardinality(Cells(g)) - 1
  <1> DEFINE x == <<a, n + 1>>
  <1>1. 1..(n + 1) = (1..n) \cup {n + 1} /\ n + 1 \notin 1..n
    OBVIOUS
  <1>2. \A y : y \in Cells(f) <=> \E p \in DOMAIN f : \E i \in DOMAIN f[p] : y = <<p, i>>
    BY DEF Cells
  <1>3. \A y : y \in Cells(g) <=> \E p \in DOMAIN g : \E i \in DOMAIN g[p] : y = <<p, i>>
    BY DEF Cells
  <1>4. x \notin Cells(f)
    BY <1>1, <1>2
  <1>5. x \in Cells(g)
    BY <1>1, <1>3
  <1>6. \A y \in Cells(f) : y \in Cells(g)
    <2> TAKE y \in Cells(f)
    <2>1. PICK p \in DOMAIN f : \E i \in DOMAIN f[p] : y = <<p, i>>
      BY <1>2
    <2>2. PICK i \in DOMAIN f[p] : y = <<p, i>>
      BY <2>1
    <2>3. i \in DOMAIN g[p]
      BY <1>1
    <2> QED
      BY <1>3, <2>2, <2>3
  <1>7. \A y \in Cells(g) : y \in Cells(f) \/ y = x
    <2> TAKE y \in Cells(g)
    <2>1. PICK p \in DOMAIN g : \E i \in DOMAIN g[p] : y = <<p, i>>
      BY <1>3
    <2>2. PICK i \in DOMAIN g[p] : y = <<p, i>>
      BY <2>1
    <2>3. i \in DOMAIN f[p] \/ (p = a /\ i = n + 1)
      BY <1>1
    <2> QED
      BY <1>2, <2>2, <2>3
  <1> HIDE DEF x
  <1>8. Cells(g) = Cells(f) \cup {x} /\ Cells(f) = Cells(g) \ {x}
    BY <1>4, <1>5, <1>6, <1>7
  <1>9. IsFiniteSet(Cells(f)) => IsFiniteSet(Cells(g)) /\ Cardinality(Cells(g)) = Cardinality(Cells(f)) + 1
    <2> SUFFICES ASSUME IsFiniteSet(Cells(f))
                 PROVE  IsFiniteSet(Cells(g)) /\ Cardinality(Cells(g)) = Cardinality(Cells(f)) + 1
      OBVIOUS
    <2>1. /\ IsFiniteSet(Cells(f) \cup {x})
          /\ Cardinality(Cells(f) \cup {x}) = IF x \in Cells(f) THEN Cardinality(Cells(f))
                                                              ELSE Cardinality(Cells(f)) + 1
      BY FS_AddElement
    <2> QED
      BY <1>4, <1>8, <2>1
  <1>10. IsFiniteSet(Cells(g)) => IsFiniteSet(Cells(f)) /\ Cardinality(Cells(f)) = Cardinality(Cells(g)) - 1
    <2> SUFFICES ASSUME IsFiniteSet(Cells(g))
                 PROVE  IsFiniteSet(Cells(f)) /\ Cardinality(Cells(f)) = Cardinality(Cells(g)) - 1
      OBVIOUS
    <2>1. /\ IsFiniteSet(Cells(g) \ {x})
          /\ Cardinality(Cells(g) \ {x}) = IF x \in Cells(g) THEN Cardinality(Cells(g)) - 1
                                                            ELSE Cardinality(Cells(g))
      BY FS_RemoveElement
    <2> QED
      BY <1>5, <1>8, <2>1
  <1> QED
    BY <1>8, <1>9, <1>10 DEF x

LEMMA SlotListsAre ==
  /\ DOMAIN SlotLists = Objects \X Slots
  /\ \A o \in Objects, s \in Slots : SlotLists[<<o, s>>] = queue[o][s]
  /\ \A p \in Objects \X Slots : /\ p[1] \in Objects /\ p[2] \in Slots /\ p = <<p[1], p[2]>>
                               /\ SlotLists[p] = queue[p[1]][p[2]]
  BY DEF SlotLists

LEMMA SlotListsNext ==
  ASSUME UNCHANGED queue
  PROVE  SlotLists' = SlotLists
  BY DEF SlotLists

\* The change of one list of one object.
LEMMA OneList ==
  ASSUME NEW o \in Objects, NEW s \in Slots,
         \A p \in Objects, r \in Slots : ~(p = o /\ r = s) => queue'[p][r] = queue[p][r]
  PROVE  /\ DOMAIN SlotLists' = DOMAIN SlotLists /\ <<o, s>> \in DOMAIN SlotLists
         /\ SlotLists[<<o, s>>] = queue[o][s] /\ SlotLists'[<<o, s>>] = queue'[o][s]
         /\ \A p \in DOMAIN SlotLists \ {<<o, s>>} : SlotLists'[p] = SlotLists[p]
  BY DEF SlotLists

LEMMA InsertCounts ==
  ASSUME Assumptions, IInv, NEW k \in Kinds, Insert(k), IsFiniteSet(Cells(SlotLists))
  PROVE  /\ IsFiniteSet(Cells(SlotLists'))
         /\ Cardinality(Cells(SlotLists')) = Cardinality(Cells(SlotLists)) + 1
  <1>1. PICK o \in Objects, s \in Slots : o = Dest(k) /\ s = SlotOf(k)
    BY Limits DEF IInv
  <1>2. queue[o][s] \in Seq(Kinds) /\ queue'[o][s] = InsertInOrder(queue[o][s], k)
    BY <1>1, InsertEffect DEF IInv, TypeOK
  <1>3. \A p \in Objects, r \in Slots : ~(p = o /\ r = s) => queue'[p][r] = queue[p][r]
    BY <1>1, InsertEffect
  <1>4. PICK n \in Nat : n = Len(queue[o][s])
    BY <1>2
  <1>5. DOMAIN queue[o][s] = 1..n /\ DOMAIN queue'[o][s] = 1..(n + 1)
    <2>1. ModelOK /\ DOMAIN queue[o][s] = 1..n
      BY <1>2, <1>4 DEF IInv
    <2>2. DOMAIN InsertInOrder(queue[o][s], k) = 1..(Len(queue[o][s]) + 1)
      BY <1>2, <2>1, Inserted
    <2> QED
      BY <1>2, <1>4, <2>1, <2>2
  <1> DEFINE f == SlotLists
             g == SlotLists'
  <1>6. /\ DOMAIN g = DOMAIN f /\ <<o, s>> \in DOMAIN f
        /\ DOMAIN f[<<o, s>>] = 1..n /\ DOMAIN g[<<o, s>>] = 1..(n + 1)
        /\ \A p \in DOMAIN f \ {<<o, s>>} : DOMAIN g[p] = DOMAIN f[p]
    BY <1>3, <1>5, OneList
  <1>7. IsFiniteSet(Cells(f))
    OBVIOUS
  <1> HIDE DEF f, g
  <1>8. IsFiniteSet(Cells(g)) /\ Cardinality(Cells(g)) = Cardinality(Cells(f)) + 1
    BY <1>6, <1>7, OneLonger
  <1> QED
    BY <1>8 DEF f, g

LEMMA ExtractCounts ==
  ASSUME Assumptions, IInv, Counting, NEW t \in Threads, Extract(t)
  PROVE  Counting'
  <1>1. PICK o \in Objects, s \in Slots : o = target[t] /\ s = my_index[t]
    BY DEF Extract, IInv, GivenOut, TypeOK
  <1>2. queue[o][s] \in Seq(Kinds) /\ queue[o][s] # <<>> /\ queue \in [Objects -> [Slots -> Seq(Kinds)]]
    BY <1>1 DEF Extract, Slot, IInv, TypeOK
  <1>3. queue' = [queue EXCEPT ![o][s] = Tail(@)]
    BY <1>1 DEF Extract
  <1>4. /\ queue'[o][s] = Tail(queue[o][s])
        /\ \A p \in Objects, r \in Slots : ~(p = o /\ r = s) => queue'[p][r] = queue[p][r]
    BY <1>2, <1>3
  <1>5. PICK n \in Nat : n + 1 = Len(queue[o][s])
    <2>1. Len(queue[o][s]) \in Nat \ {0}
      BY <1>2, EmptySeq
    <2>2. Len(queue[o][s]) - 1 \in Nat /\ (Len(queue[o][s]) - 1) + 1 = Len(queue[o][s])
      BY <2>1
    <2> QED
      BY <2>2
  <1>6. DOMAIN queue[o][s] = 1..(n + 1) /\ DOMAIN queue'[o][s] = 1..n
    BY <1>2, <1>4, <1>5
  <1> DEFINE f == SlotLists'
             g == SlotLists
  <1>7. /\ DOMAIN g = DOMAIN f /\ <<o, s>> \in DOMAIN f
        /\ DOMAIN f[<<o, s>>] = 1..n /\ DOMAIN g[<<o, s>>] = 1..(n + 1)
        /\ \A p \in DOMAIN f \ {<<o, s>>} : DOMAIN g[p] = DOMAIN f[p]
    <2>1. /\ DOMAIN f = DOMAIN g /\ <<o, s>> \in DOMAIN g
          /\ g[<<o, s>>] = queue[o][s] /\ f[<<o, s>>] = queue'[o][s]
          /\ \A p \in DOMAIN g \ {<<o, s>>} : f[p] = g[p]
      BY <1>4, OneList
    <2> HIDE DEF f, g
    <2> QED
      BY <1>6, <2>1
  <1>8. IsFiniteSet(Cells(g))
    BY DEF Counting
  <1> HIDE DEF f, g
  <1>9. IsFiniteSet(Cells(f)) /\ Cardinality(Cells(f)) = Cardinality(Cells(g)) - 1
    BY <1>7, <1>8, OneLonger
  <1>10. /\ pending_events' = pending_events - 1 /\ fallback_queue' = fallback_queue
         /\ Cardinality(Cells(g)) \in Nat /\ Cardinality(Cells(fallback_queue)) \in Nat
    BY <1>8, FS_CardinalityType DEF Extract, Counting
  <1>11. Cells(SlotLists)' = Cells(f) /\ Cells(fallback_queue)' = Cells(fallback_queue)
    BY <1>10 DEF Cells, f
  <1> QED
    BY <1>9, <1>10, <1>11 DEF Counting, g

\* An event that is put into the fallback queue of a thread.
LEMMA AppendCounts ==
  ASSUME IInv, IsFiniteSet(Cells(fallback_queue)), NEW t \in Threads, NEW k \in Kinds,
         fallback_queue' = [fallback_queue EXCEPT ![t] = Append(@, k)]
  PROVE  /\ IsFiniteSet(Cells(fallback_queue'))
         /\ Cardinality(Cells(fallback_queue')) = Cardinality(Cells(fallback_queue)) + 1
  <1>1. fallback_queue \in [Threads -> Seq(Kinds)]
    BY DEF IInv, TypeOK
  <1>2. PICK n \in Nat : n = Len(fallback_queue[t])
    BY <1>1
  <1> DEFINE f == fallback_queue
             g == fallback_queue'
  <1>3. /\ DOMAIN g = DOMAIN f /\ t \in DOMAIN f
        /\ DOMAIN f[t] = 1..n /\ DOMAIN g[t] = 1..(n + 1)
        /\ \A p \in DOMAIN f \ {t} : DOMAIN g[p] = DOMAIN f[p]
    BY <1>1, <1>2
  <1>4. IsFiniteSet(Cells(f))
    OBVIOUS
  <1> HIDE DEF f, g
  <1>5. IsFiniteSet(Cells(g)) /\ Cardinality(Cells(g)) = Cardinality(Cells(f)) + 1
    BY <1>3, <1>4, OneLonger
  <1> QED
    BY <1>5 DEF f, g

LEMMA ScheduleCounts ==
  ASSUME Assumptions, IInv, Counting, NEW t \in Threads, ScheduleNewEvent(t)
  PROVE  Counting'
  <1> DEFINE k == Head(outbox[t])
  <1>1. k \in Kinds
    BY Listed DEF ScheduleNewEvent
  <1>2. QueueInsert(t, k)
    BY DEF ScheduleNewEvent
  <1> HIDE DEF k
  <1>3. Cardinality(Cells(SlotLists)) \in Nat /\ Cardinality(Cells(fallback_queue)) \in Nat
    BY FS_CardinalityType DEF Counting
  <1>4. CASE UNCHANGED queues
    <2>1. UNCHANGED <<queue, fallback_queue, pending_events>>
      BY <1>4 DEF queues
    <2>2. Cells(SlotLists)' = Cells(SlotLists) /\ Cells(fallback_queue)' = Cells(fallback_queue)
      BY <2>1 DEF SlotLists, Cells
    <2> QED
      BY <2>1, <2>2 DEF Counting
  <1>5. CASE Insert(k) /\ UNCHANGED fallback_queue /\ pending_events' = pending_events + 1
    <2>1. /\ IsFiniteSet(Cells(SlotLists'))
          /\ Cardinality(Cells(SlotLists')) = Cardinality(Cells(SlotLists)) + 1
      BY <1>1, <1>5, InsertCounts DEF Counting
    <2>2. Cells(SlotLists)' = Cells(SlotLists') /\ Cells(fallback_queue)' = Cells(fallback_queue)
      BY <1>5 DEF Cells
    <2> QED
      BY <1>3, <1>5, <2>1, <2>2 DEF Counting
  <1>6. CASE /\ fallback_queue' = [fallback_queue EXCEPT ![t] = Append(@, k)]
             /\ UNCHANGED queue /\ pending_events' = pending_events + 1
    <2>1. /\ IsFiniteSet(Cells(fallback_queue'))
          /\ Cardinality(Cells(fallback_queue')) = Cardinality(Cells(fallback_queue)) + 1
      BY <1>1, <1>6, AppendCounts DEF Counting
    <2>2. Cells(fallback_queue)' = Cells(fallback_queue') /\ Cells(SlotLists)' = Cells(SlotLists)
      BY <1>6 DEF Cells, SlotLists
    <2> QED
      BY <1>3, <1>6, <2>1, <2>2 DEF Counting
  <1> QED
    BY <1>2, <1>4, <1>5, <1>6 DEF QueueInsert

\* The fallback queue loses the event that the slot gains.
LEMMA FallbackInsertCounts ==
  ASSUME Assumptions, IInv, Counting, NEW t \in Threads, FallbackInsert(t)
  PROVE  Counting'
  <1>1. fallback_queue \in [Threads -> Seq(Kinds)]
    BY DEF IInv, TypeOK
  <1>2. PICK i \in Due(t) :
            /\ Insert(fallback_queue[t][i])
            /\ fallback_queue' = [fallback_queue EXCEPT ![t] = RemoveAt(@, i)]
    BY DEF FallbackInsert
  <1>3. i \in DOMAIN fallback_queue[t] /\ fallback_queue[t][i] \in Kinds
    BY <1>1 DEF Due
  <1>4. /\ IsFiniteSet(Cells(SlotLists'))
        /\ Cardinality(Cells(SlotLists')) = Cardinality(Cells(SlotLists)) + 1
    BY <1>2, <1>3, InsertCounts DEF Counting
  <1>5. PICK n \in Nat : n + 1 = Len(fallback_queue[t])
    <2>1. Len(fallback_queue[t]) \in Nat /\ i \in 1..Len(fallback_queue[t])
      BY <1>1, <1>3
    <2>2. Len(fallback_queue[t]) - 1 \in Nat /\ (Len(fallback_queue[t]) - 1) + 1 = Len(fallback_queue[t])
      BY <2>1
    <2> QED
      BY <2>2
  <1>6. DOMAIN fallback_queue[t] = 1..(n + 1) /\ DOMAIN RemoveAt(fallback_queue[t], i) = 1..n
    <2>1. fallback_queue[t] \in Seq(Kinds)
      BY <1>1
    <2>2. DOMAIN RemoveAt(fallback_queue[t], i) = 1..(Len(fallback_queue[t]) - 1)
      BY <1>3, <2>1, Removed
    <2> QED
      BY <1>5, <2>1, <2>2
  <1> DEFINE f == fallback_queue'
             g == fallback_queue
  <1>7. /\ DOMAIN g = DOMAIN f /\ t \in DOMAIN f
        /\ DOMAIN f[t] = 1..n /\ DOMAIN g[t] = 1..(n + 1)
        /\ \A p \in DOMAIN f \ {t} : DOMAIN g[p] = DOMAIN f[p]
    BY <1>1, <1>2, <1>6
  <1>8. IsFiniteSet(Cells(g))
    BY DEF Counting
  <1> HIDE DEF f, g
  <1>9. IsFiniteSet(Cells(f)) /\ Cardinality(Cells(f)) = Cardinality(Cells(g)) - 1
    BY <1>7, <1>8, OneLonger
  <1>10. /\ Cardinality(Cells(SlotLists)) \in Nat /\ Cardinality(Cells(g)) \in Nat
         /\ pending_events' = pending_events
    BY <1>8, FS_CardinalityType DEF Counting, FallbackInsert
  <1>11. Cells(SlotLists)' = Cells(SlotLists') /\ Cells(fallback_queue)' = Cells(f)
    BY DEF Cells, f
  <1> QED
    BY <1>4, <1>9, <1>10, <1>11 DEF Counting, g

LEMMA CountingKept ==
  ASSUME Assumptions, IInv, Counting, [Next]_vars
  PROVE  Counting'
  <1>1. \/ UNCHANGED <<queue, fallback_queue, pending_events>>
        \/ \E t \in Threads : ScheduleNewEvent(t) \/ Extract(t) \/ FallbackInsert(t)
    BY DEF Next, Barriers, Barrier, UpdateTiming, Step, InitObject, InitDone, Dispense, Finish,
           Empty, GetEvent, FallbackDone, vars, queues
  <1>2. CASE UNCHANGED <<queue, fallback_queue, pending_events>>
    <2>1. Cells(SlotLists)' = Cells(SlotLists) /\ Cells(fallback_queue)' = Cells(fallback_queue)
      BY <1>2 DEF SlotLists, Cells
    <2> QED
      BY <1>2, <2>1 DEF Counting
  <1> QED
    BY <1>1, <1>2, ScheduleCounts, ExtractCounts, FallbackInsertCounts

LEMMA CountingAtFirst == Init => Counting
  <1> SUFFICES ASSUME Init PROVE Counting
    OBVIOUS
  <1>1. DOMAIN <<>> = {}
    OBVIOUS
  <1>2. \A x \in Objects \X Slots : SlotLists[x] = <<>>
    BY DEF Init, SlotLists
  <1>3. Cells(SlotLists) = {}
    BY <1>1, <1>2 DEF Cells, SlotLists
  <1>4. Cells(fallback_queue) = {}
    BY <1>1 DEF Init, Cells
  <1>5. IsFiniteSet({}) /\ Cardinality({}) = 0 /\ pending_events = 0
    BY FS_EmptySet DEF Init
  <1> QED
    BY <1>3, <1>4, <1>5 DEF Counting

\* The counter by which update_timing ends the simulation is at all times the
\* number of events in the slots and in the fallback queues, whichever threads
\* insert and extract at once: neither is a refused event counted, nor is one
\* counted again when it leaves the fallback queue (queue.c:203).
THEOREM PendingEventsAreQueued ==
  ASSUME Assumptions
  PROVE  Spec => []PendingIsQueued
  <1>1. IInv /\ Counting /\ [Next]_vars => Counting'
    BY CountingKept
  <1>2. Counting => PendingIsQueued
    BY DEF Counting, PendingIsQueued, QueuedInSlots, QueuedInFallback, SlotLists
  <1> QED
    BY <1>1, <1>2, CountingAtFirst, Inductive, PTL DEF Spec
=============================================================================
