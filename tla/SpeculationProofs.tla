-------------------------- MODULE SpeculationProofs --------------------------
(***************************************************************************)
(* For all models, objects and threads: the variables of the speculative   *)
(* engine keep their types, a thread that works on an object owns it, no   *)
(* two threads ever work on the same object, no object is claimed and      *)
(* forgotten, the lists of events of an object stay in timestamp order     *)
(* through every insertion, annihilation and reinsertion, the state of an  *)
(* object is its checkpoint plus the events of its retractable queue, and  *)
(* its send log points to live events, each once.                          *)
(*                                                                         *)
(* First what the operators of the engine return: the types of the         *)
(* constants and of a model, and the list operations of queue.c, among     *)
(* them that InTimeOrder permutes a list. Then the phases of an epoch,     *)
(* through which the barriers lead all threads together, and the           *)
(* invariants, which build on one another: Ownership (who holds an         *)
(* object), Cleanup (what is empty between two epochs), Order (of the      *)
(* lists), HistoryInv (of the state) and Logs with Clocks (of the sends    *)
(* that can be undone). Of a list operation only what it returns is used,  *)
(* as stated by the lemmas on InsertEvent, Unlink and Append below.        *)
(***************************************************************************)
EXTENDS SpeculationProperties, FiniteSetTheorems, SequenceTheorems, TLAPS

EventsOf(o) == {e \in Events : Dest(e) = o}

\* The state of a runtime that runs some simulation model.
ModelOK == model \in Models

-----------------------------------------------------------------------------
(* Constants, models and lists *)

LEMMA ModelTypes ==
  ASSUME ModelOK
  PROVE  /\ model.init \in [Objects -> Seq(Kinds)]
         /\ model.dest \in [Kinds -> Objects]
         /\ model.time \in [Kinds -> Nat \ {0}]
         /\ model.next \in [Kinds -> Seq(Kinds)]
  BY ModelsAssumption DEF ModelOK, IsModel

LEMMA EventTypes ==
  ASSUME ModelOK, NEW e \in Events
  PROVE  /\ e.kind \in Kinds
         /\ Dest(e) \in Objects
         /\ Time(e) \in Nat \ {0}
  BY ModelTypes DEF Events, Dest, Time

LEMMA ConstantTypes ==
  /\ 0 \in Objects /\ NoObject \notin Objects
  /\ \A o \in Objects : o \in Nat
  /\ \A n \in Nat : n % NUM_SLOTS \in Slots
  /\ Slots \subseteq Nat
  BY ConstantsAssumption DEF Objects, Slots, NoObject

LEMMA SlotTypes ==
  ASSUME ModelOK, NEW e \in Events
  PROVE  SlotOf(e) \in Slots
  <1>1. Time(e) \in Nat
    BY EventTypes
  <1>2. Time(e) \div LOOKAHEAD \in Nat
    BY <1>1, ConstantsAssumption
  <1> QED
    BY <1>2, ConstantTypes DEF SlotOf

LEMMA IntervalSize ==
  ASSUME NEW n \in Nat
  PROVE  IsFiniteSet(1..n) /\ Cardinality(1..n) = n
  <1>1. IsFiniteSet(1..n) /\ Cardinality(1..n) = IF 1 > n THEN 0 ELSE n - 1 + 1
    BY FS_Interval
  <1> QED
    BY <1>1

\* The number of indexes of a sequence that satisfy a condition.
LEMMA CountOfIndexes ==
  ASSUME NEW S, NEW q \in Seq(S), NEW I \in SUBSET DOMAIN q
  PROVE  IsFiniteSet(I) /\ Cardinality(I) \in 0..Len(q)
  <1>1. DOMAIN q = 1..Len(q) /\ Len(q) \in Nat
    OBVIOUS
  <1>2. IsFiniteSet(1..Len(q)) /\ Cardinality(1..Len(q)) = Len(q)
    BY <1>1, IntervalSize
  <1>3. IsFiniteSet(I) /\ Cardinality(I) <= Len(q)
    BY <1>1, <1>2, FS_Subset
  <1> QED
    BY <1>1, <1>3, FS_CardinalityType

LEMMA InsertInOrderType ==
  ASSUME NEW S, NEW q \in Seq(S), NEW e \in S
  PROVE  InsertInOrder(q, e) \in Seq(S)
  <1> DEFINE I == {i \in DOMAIN q : \A j \in 1..i : Time(q[j]) <= Time(e)}
             n == Cardinality(I)
  <1>1. n \in 0..Len(q)
    BY CountOfIndexes
  <1> HIDE DEF n
  <1>2. SubSeq(q, 1, n) \in Seq(S) /\ SubSeq(q, n + 1, Len(q)) \in Seq(S)
    BY <1>1
  <1>3. SubSeq(q, 1, n) \o <<e>> \o SubSeq(q, n + 1, Len(q)) \in Seq(S)
    BY <1>2
  <1> QED
    BY <1>3 DEF InsertInOrder, n

LEMMA RemoveAtType ==
  ASSUME NEW S, NEW q \in Seq(S), NEW i \in DOMAIN q
  PROVE  RemoveAt(q, i) \in Seq(S)
  <1>1. SubSeq(q, 1, i - 1) \in Seq(S) /\ SubSeq(q, i + 1, Len(q)) \in Seq(S)
    OBVIOUS
  <1> QED
    BY <1>1 DEF RemoveAt

LEMMA WithoutType ==
  ASSUME NEW S, NEW q \in Seq(S), NEW e
  PROVE  Without(q, e) \in Seq(S)
  BY RemoveAtType DEF Without

LEMMA BeforeType ==
  ASSUME NEW S, NEW q \in Seq(S), NEW time
  PROVE  Before(q, time) \in Seq(S) /\ Len(Before(q, time)) \in Nat
  <1> DEFINE I == {i \in DOMAIN q : \A j \in i..Len(q) : q[j].send_time >= time}
             n == Cardinality(I)
  <1>1. n \in 0..Len(q)
    BY CountOfIndexes
  <1> HIDE DEF n
  <1>2. SubSeq(q, 1, Len(q) - n) \in Seq(S)
    BY <1>1
  <1> QED
    BY <1>2 DEF Before, n

\* The ranks of the elements of a list are the numbers from 1 to its length, so
\* that InTimeOrder is a permutation of the list.
LEMMA RankIsPermutation ==
  ASSUME ModelOK, NEW S \in SUBSET Events, NEW q \in Seq(S)
  PROVE  /\ \A i \in DOMAIN q : Rank(q, i) \in DOMAIN q
         /\ \A i, j \in DOMAIN q : Rank(q, i) = Rank(q, j) => i = j
         /\ \A n \in DOMAIN q : \E i \in DOMAIN q : Rank(q, i) = n
  <1> DEFINE D == 1..Len(q)
             f == [i \in D |-> Rank(q, i)]
  <1>1. DOMAIN q = D /\ Len(q) \in Nat
    OBVIOUS
  <1>2. IsFiniteSet(D)
    BY <1>1, IntervalSize
  <1>3. \A i \in D : Time(q[i]) \in Nat
    BY EventTypes
  <1>4. \A i \in D : i \in NotAfter(q, i) /\ Rank(q, i) = Cardinality(NotAfter(q, i)) /\ IsFiniteSet(NotAfter(q, i))
    <2> SUFFICES ASSUME NEW i \in D
                 PROVE  i \in NotAfter(q, i) /\ Rank(q, i) = Cardinality(NotAfter(q, i)) /\ IsFiniteSet(NotAfter(q, i))
      OBVIOUS
    <2>1. NotAfter(q, i) \in SUBSET D
      BY <1>1 DEF NotAfter
    <2>2. IsFiniteSet(NotAfter(q, i))
      BY <1>2, <2>1, FS_Subset
    <2>3. i \in NotAfter(q, i)
      BY <1>1, <1>3 DEF NotAfter
    <2> QED
      BY <2>2, <2>3 DEF Rank
  <1>5. \A i \in D : Rank(q, i) \in D
    <2> SUFFICES ASSUME NEW i \in D PROVE Rank(q, i) \in D
      OBVIOUS
    <2>1. Cardinality(NotAfter(q, i)) \in 0..Len(q)
      BY CountOfIndexes DEF NotAfter
    <2>2. Cardinality(NotAfter(q, i)) # 0
      BY <1>4, FS_EmptySet
    <2> QED
      BY <1>1, <1>4, <2>1, <2>2
  <1>6. ASSUME NEW i \in D, NEW j \in D, Rank(q, i) = Rank(q, j),
               Time(q[i]) < Time(q[j]) \/ (Time(q[i]) = Time(q[j]) /\ i < j)
        PROVE  FALSE
    <2>1. NotAfter(q, i) \in SUBSET NotAfter(q, j)
      <3> SUFFICES ASSUME NEW k \in NotAfter(q, i) PROVE k \in NotAfter(q, j)
        OBVIOUS
      <3>1. k \in D /\ Time(q[k]) \in Nat /\ Time(q[i]) \in Nat /\ Time(q[j]) \in Nat
        BY <1>1, <1>3 DEF NotAfter
      <3> QED
        BY <1>1, <1>6, <3>1 DEF NotAfter
    <2>2. j \notin NotAfter(q, i)
      BY <1>1, <1>3, <1>6 DEF NotAfter
    <2>3. Cardinality(NotAfter(q, i)) # Cardinality(NotAfter(q, j))
      BY <1>4, <2>1, <2>2, FS_Subset
    <2> QED
      BY <1>4, <1>6, <2>3
  <1>7. \A i, j \in D : Rank(q, i) = Rank(q, j) => i = j
    BY <1>3, <1>6
  <1>8. f \in Injection(D, D)
    BY <1>5, <1>7 DEF Injection, IsInjective
  <1>9. f \in Surjection(D, D)
    BY <1>2, <1>8, FS_Injection
  <1> QED
    BY <1>1, <1>5, <1>7, <1>9 DEF Surjection

LEMMA InTimeOrderType ==
  ASSUME ModelOK, NEW S \in SUBSET Events, NEW q \in Seq(S)
  PROVE  InTimeOrder(q) \in Seq(S)
  <1>1. \A n \in DOMAIN q : (CHOOSE i \in DOMAIN q : Rank(q, i) = n) \in DOMAIN q
    BY RankIsPermutation
  <1>2. DOMAIN q = 1..Len(q) /\ Len(q) \in Nat
    OBVIOUS
  <1>3. InTimeOrder(q) \in [1..Len(q) -> S]
    BY <1>1, <1>2 DEF InTimeOrder
  <1> QED
    BY <1>2, <1>3

LEMMA EndsType ==
  ASSUME NEW S, NEW q \in Seq(S), q # <<>>
  PROVE  /\ Head(q) \in S /\ Tail(q) \in Seq(S)
         /\ Last(q) \in S /\ Front(q) \in Seq(S)
  BY DEF Last, Front

LEMMA PushType ==
  ASSUME NEW S, NEW q \in Seq(S), NEW o \in S
  PROVE  Push(q, o) \in Seq(S) /\ PushBottom(q, o) \in Seq(S)
  BY DEF Push, PushBottom

-----------------------------------------------------------------------------
(* The inductive invariant *)

\* Every event in a list of an object is addressed to this object.
Lists ==
    /\ ModelOK
    /\ QueueTypes
    /\ \A o \in Objects : \A s \in Slots : queue[o][s] \in Seq(EventsOf(o))
    /\ \A o \in Objects : retractable_queue[o] \in Seq(EventsOf(o))

\* What a thread holds at each point of its program.
Holds(t) ==
    /\ pc[t] \in {"take", "restore", "undo", "check", "extract", "copy", "commit"}
          => target[t] \in Objects
    /\ pc[t] \in {"copy", "process"} => event[t] # <<>>
    /\ pc[t] = "copy" => Dest(event[t][1]) = target[t]
    /\ pc[t] = "process" => current[t] = Dest(event[t][1]) /\ outbox[t] # <<>>

Held == \A t \in Threads : Holds(t)

\* While one thread ends the epoch, all of them do: nobody runs an object.
Ending == {"retract", "flush", "commit"}

EpochEnds ==
    (\E t \in Threads : pc[t] \in Ending)
        => \A t \in Threads : pc[t] \in Ending \cup {"flushed"}

IInv ==
    /\ Lists /\ ObjectTypes /\ CounterTypes /\ ThreadTypes
    /\ Held /\ RunnerOwns /\ EpochEnds

-----------------------------------------------------------------------------
(* What a step may leave alone. A step of thread t moves no other thread. *)

OthersStay(t) ==
    /\ model' = model
    /\ \A u \in Threads \ {t} :
          /\ pc'[u] = pc[u] /\ target'[u] = target[u] /\ current'[u] = current[u]
          /\ event'[u] = event[u] /\ outbox'[u] = outbox[u]

LEMMA SameModel ==
  ASSUME model' = model
  PROVE  /\ ModelOK' <=> ModelOK
         /\ \A o : EventsOf(o)' = EventsOf(o)
  BY DEF ModelOK, EventsOf, Dest

LEMMA ListsStay ==
  ASSUME Lists, UNCHANGED <<model, queues>>
  PROVE  Lists'
  BY SameModel DEF Lists, QueueTypes, queues

LEMMA ObjectsStay ==
  ASSUME ObjectTypes, UNCHANGED objects
  PROVE  ObjectTypes'
  BY DEF ObjectTypes, objects

LEMMA CountersStay ==
  ASSUME CounterTypes, UNCHANGED <<epochs, dispensers, counters, inited>>
  PROVE  CounterTypes'
  BY DEF CounterTypes, dispensers, counters

LEMMA HeldByOthers ==
  ASSUME NEW t \in Threads, Held, OthersStay(t), Holds(t)'
  PROVE  Held'
  <1>1. \A u \in Threads \ {t} : Holds(u)'
    BY DEF Held, Holds, OthersStay, Dest
  <1> QED
    BY <1>1 DEF Held

\* Ownership survives when the thread that moves owns what it runs afterwards
\* and takes nothing from another owner.
LEMMA OwnersStay ==
  ASSUME NEW t \in Threads, RunnerOwns, OthersStay(t),
         \A o \in Objects : Runs(t, o)' =>
            speculation'[o].the_state = "BUSY" /\ speculation'[o].owner = t,
         \A u \in Threads \ {t}, o \in Objects :
            speculation[o].the_state = "BUSY" /\ speculation[o].owner = u =>
            speculation'[o].the_state = "BUSY" /\ speculation'[o].owner = u
  PROVE  RunnerOwns'
  <1>1. \A u \in Threads \ {t}, o \in Objects : Runs(u, o)' => Runs(u, o)
    BY DEF Runs, OthersStay
  <1> QED
    BY <1>1 DEF RunnerOwns

\* In particular when it changes no owner and runs nothing new.
LEMMA OwnersUnchanged ==
  ASSUME NEW t \in Threads, RunnerOwns, OthersStay(t), UNCHANGED speculation,
         \A o \in Objects : Runs(t, o)' => Runs(t, o)
  PROVE  RunnerOwns'
  BY OwnersStay DEF RunnerOwns

LEMMA EpochEndsStay ==
  ASSUME NEW t \in Threads, EpochEnds, OthersStay(t),
         \/ pc'[t] = pc[t]
         \/ pc[t] \notin Ending \cup {"flushed"} /\ pc'[t] \notin Ending
         \/ pc[t] \in Ending /\ pc'[t] \in Ending \cup {"flushed"}
  PROVE  EpochEnds'
  BY DEF EpochEnds, OthersStay

-----------------------------------------------------------------------------
(* Helpers of the actions *)

LEMMA ResumeEffect ==
  ASSUME ThreadTypes, NEW t \in Threads, NEW otherwise \in Labels, Resume(t, otherwise)
  PROVE  /\ pc' \in [Threads -> Labels]
         /\ target' \in [Threads -> Objects \cup {NoObject}]
         /\ object_stack' \in [Threads -> Seq(Objects)]
         /\ \A u \in Threads \ {t} : pc'[u] = pc[u] /\ target'[u] = target[u]
         /\ \/ pc'[t] = "take" /\ target'[t] \in Objects
            \/ pc'[t] = otherwise
  <1>1. CASE object_stack[t] # <<>>
    <2>1. Last(object_stack[t]) \in Objects /\ Front(object_stack[t]) \in Seq(Objects)
      BY <1>1, EndsType DEF ThreadTypes
    <2>2. /\ pc' = [pc EXCEPT ![t] = "take"] /\ "take" \in Labels
          /\ target' = [target EXCEPT ![t] = Last(object_stack[t])]
          /\ object_stack' = [object_stack EXCEPT ![t] = Front(object_stack[t])]
      BY <1>1 DEF Resume, Goto, Labels
    <2>3. pc' \in [Threads -> Labels] /\ pc'[t] = "take"
      BY <2>2 DEF ThreadTypes
    <2>4. target' \in [Threads -> Objects \cup {NoObject}] /\ target'[t] \in Objects
      BY <2>1, <2>2 DEF ThreadTypes
    <2>5. object_stack' \in [Threads -> Seq(Objects)]
      BY <2>1, <2>2 DEF ThreadTypes
    <2>6. \A u \in Threads \ {t} : pc'[u] = pc[u] /\ target'[u] = target[u]
      BY <2>2 DEF ThreadTypes
    <2> QED
      BY <2>3, <2>4, <2>5, <2>6
  <1>2. CASE object_stack[t] = <<>>
    BY <1>2 DEF Resume, ThreadTypes, Goto
  <1> QED
    BY <1>1, <1>2

LEMMA ClaimedType ==
  ASSUME NEW s \in Statuses, NEW t \in Threads
  PROVE  /\ Claimed(s, t) \in Statuses
         /\ Claimed(s, t).the_state = "BUSY" /\ Claimed(s, t).owner = t
  BY DEF Claimed, Statuses

LEMMA ReleasedType ==
  ASSUME NEW s \in Statuses
  PROVE  Released(s) \in Statuses
  BY DEF Released, Statuses

LEMMA ViolatedType ==
  ASSUME NEW s \in Statuses, NEW time \in Nat
  PROVE  /\ Violated(s, time) \in Statuses
         /\ Violated(s, time).the_state = s.the_state
         /\ Violated(s, time).owner = s.owner
  BY DEF Violated, Statuses

LEMMA TimeTypes ==
  ASSUME CounterTypes
  PROVE  current_min_limit \in Nat /\ EpochLimit \in Nat /\ current_max_limit \in Nat
         /\ current_index \in Slots
  BY ConstantsAssumption, ConstantTypes
     DEF CounterTypes, current_min_limit, EpochLimit, current_max_limit, current_index

\* Insertion into the slot of the destination.
LEMMA InsertKeepsLists ==
  ASSUME Lists, NEW e \in Events, Insert(e), model' = model
  PROVE  /\ queue' \in [Objects -> [Slots -> Seq(Events)]]
         /\ \A o \in Objects : \A s \in Slots : queue'[o][s] \in Seq(EventsOf(o)')
  <1> DEFINE d == Dest(e)
             n == SlotOf(e)
  <1>1. d \in Objects /\ n \in Slots /\ e \in EventsOf(d)
    BY EventTypes, SlotTypes DEF Lists, EventsOf
  <1>2. /\ InsertInOrder(queue[d][n], e) \in Seq(EventsOf(d))
        /\ InsertInOrder(queue[d][n], e) \in Seq(Events)
    BY <1>1, InsertInOrderType DEF Lists, QueueTypes
  <1>3. queue' = [queue EXCEPT ![d][n] = InsertInOrder(queue[d][n], e)]
    BY DEF Insert
  <1> HIDE DEF d, n
  <1> QED
    BY <1>1, <1>2, <1>3, SameModel DEF Lists, QueueTypes

LEMMA QueueInsertKeepsLists ==
  ASSUME Lists, CounterTypes, NEW t \in Threads, NEW e \in Events, QueueInsert(t, e), model' = model
  PROVE  /\ queue' \in [Objects -> [Slots -> Seq(Events)]]
         /\ \A o \in Objects : \A s \in Slots : queue'[o][s] \in Seq(EventsOf(o)')
         /\ fallback_queue' \in [Threads -> Seq(Events)]
         /\ pending_events' \in Int
  <1>1. CASE Insert(e) /\ UNCHANGED fallback_queue
    BY <1>1, InsertKeepsLists DEF Lists, QueueTypes, CounterTypes, QueueInsert
  <1>2. CASE fallback_queue' = [fallback_queue EXCEPT ![t] = Append(@, e)] /\ UNCHANGED queue
    BY <1>2, SameModel DEF Lists, QueueTypes, CounterTypes, QueueInsert
  <1> QED
    BY <1>1, <1>2 DEF QueueInsert

\* The rest of an execution leaves the thread at its next send or at rest.
LEMMA ContinueEffect ==
  ASSUME ModelOK, ThreadTypes, Held, NEW t \in Threads, pc[t] \in {"copy", "process"},
         NEW sends \in Seq(Kinds), Continue(t, sends), model' = model
  PROVE  /\ outbox' \in [Threads -> Seq(Kinds)]
         /\ pc' \in [Threads -> Labels]
         /\ current' \in [Threads -> Objects \cup {NoObject}]
         /\ event' \in [Threads -> Seq(Events)]
         /\ \A u \in Threads \ {t} : /\ pc'[u] = pc[u] /\ current'[u] = current[u]
                                     /\ event'[u] = event[u] /\ outbox'[u] = outbox[u]
         /\ Holds(t)'
         /\ pc'[t] \in {"idle", "process"}
         /\ pc'[t] = "process" => current'[t] = Dest(event[t][1])
  <1>1. event[t][1] \in Events
    <2>1. event[t] # <<>>
      BY DEF Held, Holds
    <2>2. event[t] \in Seq(Events)
      BY DEF ThreadTypes
    <2> QED
      BY <2>1, <2>2
  <1>2. Dest(event[t][1]) \in Objects
    BY <1>1, EventTypes
  <1>3. CASE sends = <<>>
    <2>1. /\ pc' = [pc EXCEPT ![t] = "idle"]
          /\ current' = [current EXCEPT ![t] = NoObject]
          /\ event' = [event EXCEPT ![t] = <<>>]
          /\ outbox' = [outbox EXCEPT ![t] = sends]
      BY <1>3 DEF Continue, Goto
    <2>2. /\ outbox' \in [Threads -> Seq(Kinds)]
          /\ pc' \in [Threads -> Labels]
          /\ current' \in [Threads -> Objects \cup {NoObject}]
          /\ event' \in [Threads -> Seq(Events)]
      <3>1. <<>> \in Seq(Events)
        OBVIOUS
      <3>2. event' \in [Threads -> Seq(Events)]
        BY <2>1, <3>1 DEF ThreadTypes
      <3> QED
        BY <2>1, <3>2 DEF ThreadTypes, Labels
    <2>3. pc'[t] = "idle"
      BY <2>1 DEF ThreadTypes
    <2>4. Holds(t)'
      BY <2>3 DEF Holds
    <2>5. \A u \in Threads \ {t} : /\ pc'[u] = pc[u] /\ current'[u] = current[u]
                                  /\ event'[u] = event[u] /\ outbox'[u] = outbox[u]
      BY <2>1 DEF ThreadTypes
    <2> QED
      BY <2>2, <2>3, <2>4, <2>5
  <1>4. CASE sends # <<>>
    <2>1. event[t] # <<>>
      BY DEF Held, Holds
    <2>2. /\ pc' = [pc EXCEPT ![t] = "process"] /\ UNCHANGED event
          /\ current' = [current EXCEPT ![t] = Dest(event[t][1])]
          /\ outbox' = [outbox EXCEPT ![t] = sends]
      BY <1>4 DEF Continue, Goto
    <2>3. \A u \in Threads : event'[u] = event[u]
      BY <2>2
    <2>4. Dest(event[t][1])' = Dest(event[t][1])
      BY <2>2 DEF Dest
    <2>5. pc'[t] = "process" /\ current'[t] = Dest(event[t][1]) /\ outbox'[t] = sends
      BY <2>2 DEF ThreadTypes
    <2>6. Holds(t)'
      BY <1>4, <2>1, <2>3, <2>4, <2>5 DEF Holds
    <2>7. /\ outbox' \in [Threads -> Seq(Kinds)]
          /\ pc' \in [Threads -> Labels]
          /\ current' \in [Threads -> Objects \cup {NoObject}]
          /\ event' \in [Threads -> Seq(Events)]
      BY <1>2, <2>2 DEF ThreadTypes, Labels
    <2>8. \A u \in Threads \ {t} : /\ pc'[u] = pc[u] /\ current'[u] = current[u]
                                  /\ event'[u] = event[u] /\ outbox'[u] = outbox[u]
      BY <2>2 DEF ThreadTypes
    <2> QED
      BY <2>5, <2>6, <2>7, <2>8
  <1> QED
    BY <1>3, <1>4

-----------------------------------------------------------------------------
(* One lemma per action: its parts are those of the invariant *)

\* INIT events: the sends come from the model, no object is run yet.
LEMMA InitObjectPreserves ==
  ASSUME IInv, NEW t \in Threads, InitObject(t)
  PROVE  IInv'
  <1>1. OthersStay(t)
    BY DEF IInv, ThreadTypes, InitObject, OthersStay
  <1>2. Lists'
    BY ListsStay DEF IInv, InitObject, queues
  <1>3. ObjectTypes'
    BY ObjectsStay DEF IInv, InitObject, objects
  <1>4. CounterTypes'
    BY DEF IInv, CounterTypes, InitObject, counters, dispensers
  <1>5. ThreadTypes'
    BY ModelTypes DEF IInv, Lists, ThreadTypes, InitObject
  <1>6. Holds(t)'
    BY DEF Holds, InitObject
  <1>7. RunnerOwns'
    BY <1>1, OwnersUnchanged DEF IInv, InitObject, Runs, objects
  <1>8. EpochEnds'
    BY <1>1, EpochEndsStay DEF IInv, InitObject
  <1> QED
    BY <1>1, <1>2, <1>3, <1>4, <1>5, <1>6, <1>7, <1>8, HeldByOthers DEF IInv

\* A send of INIT goes into its slot or into the fallback queue of the thread.
LEMMA InitSendPreserves ==
  ASSUME IInv, NEW t \in Threads, InitSend(t)
  PROVE  IInv'
  <1>0. outbox[t] \in Seq(Kinds) /\ Head(outbox[t]) \in Kinds /\ Tail(outbox[t]) \in Seq(Kinds)
    BY EndsType DEF IInv, ThreadTypes, InitSend
  <1>a. \E e \in Events : QueueInsert(t, e)
    BY <1>0 DEF InitSend, Events
  <1>1. OthersStay(t)
    BY DEF IInv, ThreadTypes, InitSend, OthersStay
  <1>2. Lists'
    BY <1>a, QueueInsertKeepsLists, SameModel DEF IInv, Lists, QueueTypes, InitSend
  <1>3. ObjectTypes'
    BY ObjectsStay DEF IInv, InitSend, objects
  <1>4. CounterTypes'
    BY <1>a, QueueInsertKeepsLists DEF IInv, CounterTypes, InitSend, dispensers
  <1>5. ThreadTypes'
    BY <1>0 DEF IInv, ThreadTypes, InitSend
  <1>6. Holds(t)'
    BY DEF Holds, InitSend
  <1>7. RunnerOwns'
    BY <1>1, OwnersUnchanged DEF IInv, InitSend, Runs, objects
  <1>8. EpochEnds'
    BY <1>1, EpochEndsStay DEF IInv, InitSend
  <1> QED
    BY <1>1, <1>2, <1>3, <1>4, <1>5, <1>6, <1>7, <1>8, HeldByOthers DEF IInv

\* Steps that only move the thread.
LEMMA InitDonePreserves ==
  ASSUME IInv, NEW t \in Threads, InitDone(t)
  PROVE  IInv'
  <1>1. OthersStay(t)
    BY DEF IInv, ThreadTypes, InitDone, Goto, OthersStay, locals
  <1>2. Lists'
    BY ListsStay DEF IInv, InitDone, queues
  <1>3. ObjectTypes'
    BY ObjectsStay DEF IInv, InitDone, objects
  <1>4. CounterTypes'
    BY CountersStay DEF IInv, InitDone, counters, dispensers
  <1>5. ThreadTypes'
    BY DEF IInv, ThreadTypes, InitDone, Goto, Labels, locals
  <1>6. Holds(t)'
    BY DEF IInv, ThreadTypes, Held, Holds, InitDone, Goto, locals
  <1>7. RunnerOwns'
    BY <1>1, OwnersUnchanged DEF IInv, ThreadTypes, InitDone, Goto, Runs, objects, locals
  <1>8. EpochEnds'
    BY <1>1, EpochEndsStay DEF IInv, ThreadTypes, InitDone, Goto, Ending, locals
  <1> QED
    BY <1>1, <1>2, <1>3, <1>4, <1>5, <1>6, <1>7, <1>8, HeldByOthers DEF IInv

LEMMA FinishPreserves ==
  ASSUME IInv, NEW t \in Threads, Finish(t)
  PROVE  IInv'
  <1>1. OthersStay(t)
    BY DEF IInv, ThreadTypes, Finish, Goto, OthersStay, locals
  <1>2. Lists'
    BY ListsStay DEF IInv, Finish, queues
  <1>3. ObjectTypes'
    BY ObjectsStay DEF IInv, Finish, objects
  <1>4. CounterTypes'
    BY CountersStay DEF IInv, Finish, counters, dispensers
  <1>5. ThreadTypes'
    BY DEF IInv, ThreadTypes, Finish, Goto, Labels, locals
  <1>6. Holds(t)'
    BY DEF IInv, ThreadTypes, Held, Holds, Finish, Goto, locals
  <1>7. RunnerOwns'
    BY <1>1, OwnersUnchanged DEF IInv, ThreadTypes, Finish, Goto, Runs, objects, locals
  <1>8. EpochEnds'
    BY <1>1, EpochEndsStay DEF IInv, ThreadTypes, Finish, Goto, Ending, locals
  <1> QED
    BY <1>1, <1>2, <1>3, <1>4, <1>5, <1>6, <1>7, <1>8, HeldByOthers DEF IInv

LEMMA TakenByOtherPreserves ==
  ASSUME IInv, NEW t \in Threads, TakenByOther(t)
  PROVE  IInv'
  <1>1. OthersStay(t)
    BY DEF IInv, ThreadTypes, TakenByOther, Goto, OthersStay, locals
  <1>2. Lists'
    BY ListsStay DEF IInv, TakenByOther, queues
  <1>3. ObjectTypes'
    BY ObjectsStay DEF IInv, TakenByOther, objects
  <1>4. CounterTypes'
    BY CountersStay DEF IInv, TakenByOther, counters, dispensers
  <1>5. ThreadTypes'
    BY DEF IInv, ThreadTypes, TakenByOther, Goto, Labels, locals
  <1>6. Holds(t)'
    BY DEF IInv, ThreadTypes, Held, Holds, TakenByOther, Goto, locals
  <1>7. RunnerOwns'
    BY <1>1, OwnersUnchanged DEF IInv, ThreadTypes, TakenByOther, Goto, Runs, objects, locals
  <1>8. EpochEnds'
    BY <1>1, EpochEndsStay DEF IInv, ThreadTypes, TakenByOther, Goto, Ending, locals
  <1> QED
    BY <1>1, <1>2, <1>3, <1>4, <1>5, <1>6, <1>7, <1>8, HeldByOthers DEF IInv

LEMMA KeepPreserves ==
  ASSUME IInv, NEW t \in Threads, Keep(t)
  PROVE  IInv'
  <1>1. OthersStay(t)
    BY DEF IInv, ThreadTypes, Keep, Goto, OthersStay, locals
  <1>2. Lists'
    BY ListsStay DEF IInv, Keep, queues
  <1>3. ObjectTypes'
    BY ObjectsStay DEF IInv, Keep, objects
  <1>4. CounterTypes'
    BY CountersStay DEF IInv, Keep, counters, dispensers
  <1>5. ThreadTypes'
    BY DEF IInv, ThreadTypes, Keep, Goto, Labels, locals
  <1>6. Holds(t)'
    BY DEF IInv, ThreadTypes, Held, Holds, Keep, Goto, locals
  <1>7. RunnerOwns'
    BY <1>1, OwnersUnchanged DEF IInv, ThreadTypes, Keep, Goto, Runs, objects, locals
  <1>8. EpochEnds'
    BY <1>1, EpochEndsStay DEF IInv, ThreadTypes, Keep, Goto, Ending, locals
  <1> QED
    BY <1>1, <1>2, <1>3, <1>4, <1>5, <1>6, <1>7, <1>8, HeldByOthers DEF IInv

LEMMA RedoPreserves ==
  ASSUME IInv, NEW t \in Threads, Redo(t)
  PROVE  IInv'
  <1>1. OthersStay(t)
    BY DEF IInv, ThreadTypes, Redo, Goto, OthersStay, locals
  <1>2. Lists'
    BY ListsStay DEF IInv, Redo, queues
  <1>3. ObjectTypes'
    BY ObjectsStay DEF IInv, Redo, objects
  <1>4. CounterTypes'
    BY CountersStay DEF IInv, Redo, counters, dispensers
  <1>5. ThreadTypes'
    BY DEF IInv, ThreadTypes, Redo, Goto, Labels, locals
  <1>6. Holds(t)'
    BY DEF IInv, ThreadTypes, Held, Holds, Redo, Goto, locals
  <1>7. RunnerOwns'
    BY <1>1, OwnersUnchanged DEF IInv, ThreadTypes, Redo, Goto, Runs, objects, locals
  <1>8. EpochEnds'
    BY <1>1, EpochEndsStay DEF IInv, ThreadTypes, Redo, Goto, Ending, locals
  <1> QED
    BY <1>1, <1>2, <1>3, <1>4, <1>5, <1>6, <1>7, <1>8, HeldByOthers DEF IInv

\* A thread keeps its object or pops one: it does not run it before Take.
LEMMA GetEventPreserves ==
  ASSUME IInv, NEW t \in Threads, GetEvent(t)
  PROVE  IInv'
  <1>0. /\ pc' \in [Threads -> Labels]
        /\ target' \in [Threads -> Objects \cup {NoObject}]
        /\ object_stack' \in [Threads -> Seq(Objects)]
        /\ \A u \in Threads \ {t} : pc'[u] = pc[u] /\ target'[u] = target[u]
        /\ \/ pc'[t] = "take" /\ target'[t] \in Objects
           \/ pc'[t] = "dispense"
    <2>1. CASE target[t] # NoObject
      BY <2>1 DEF IInv, ThreadTypes, GetEvent, Goto, Labels
    <2>2. CASE target[t] = NoObject
      BY <2>2, ResumeEffect DEF IInv, GetEvent, Labels
    <2> QED
      BY <2>1, <2>2
  <1>1. OthersStay(t)
    BY <1>0 DEF GetEvent, OthersStay
  <1>2. Lists'
    BY ListsStay DEF IInv, GetEvent, queues
  <1>3. ObjectTypes'
    BY ObjectsStay DEF IInv, GetEvent, objects
  <1>4. CounterTypes'
    BY CountersStay DEF IInv, GetEvent, counters, dispensers
  <1>5. ThreadTypes'
    BY <1>0 DEF IInv, ThreadTypes, GetEvent
  <1>6. Holds(t)'
    BY <1>0 DEF GetEvent, Holds
  <1>7. RunnerOwns'
    BY <1>0, <1>1, OwnersUnchanged DEF IInv, GetEvent, Runs, objects
  <1>8. EpochEnds'
    BY <1>0, <1>1, EpochEndsStay DEF IInv, GetEvent, Ending
  <1> QED
    BY <1>1, <1>2, <1>3, <1>4, <1>5, <1>6, <1>7, <1>8, HeldByOthers DEF IInv

\* A dispensed identifier is below OBJECTS.
LEMMA DispensePreserves ==
  ASSUME IInv, NEW t \in Threads, Dispense(t)
  PROVE  IInv'
  <1>0. /\ pc' \in [Threads -> Labels]
        /\ target' \in [Threads -> Objects \cup {NoObject}]
        /\ object_stack' \in [Threads -> Seq(Objects)]
        /\ \A u \in Threads \ {t} : pc'[u] = pc[u] /\ target'[u] = target[u]
        /\ \/ pc'[t] = "take" /\ target'[t] \in Objects
           \/ pc'[t] = "quiet"
    <2>1. CASE object_identifiers < OBJECTS
      <3>1. object_identifiers \in Objects
        BY <2>1, ConstantsAssumption DEF IInv, CounterTypes, Objects
      <3>2. /\ pc' = [pc EXCEPT ![t] = "take"] /\ "take" \in Labels
            /\ target' = [target EXCEPT ![t] = object_identifiers]
            /\ object_stack' = object_stack
        BY <2>1 DEF Dispense, Goto, Labels
      <3>3. pc' \in [Threads -> Labels] /\ pc'[t] = "take"
        BY <3>2 DEF IInv, ThreadTypes
      <3>4. /\ target' \in [Threads -> Objects \cup {NoObject}]
            /\ target'[t] \in Objects
        BY <3>1, <3>2 DEF IInv, ThreadTypes
      <3>5. \A u \in Threads \ {t} : pc'[u] = pc[u] /\ target'[u] = target[u]
        BY <3>2 DEF IInv, ThreadTypes
      <3> QED
        BY <3>2, <3>3, <3>4, <3>5 DEF IInv, ThreadTypes
    <2>2. CASE ~(object_identifiers < OBJECTS)
      <3>1. Resume(t, "quiet") /\ "quiet" \in Labels
        BY <2>2 DEF Dispense, Labels
      <3> QED
        BY <3>1, ResumeEffect DEF IInv
    <2> QED
      BY <2>1, <2>2
  <1>1. OthersStay(t)
    BY <1>0 DEF Dispense, OthersStay
  <1>2. Lists'
    BY ListsStay DEF IInv, Dispense, queues
  <1>3. ObjectTypes'
    BY ObjectsStay DEF IInv, Dispense, objects
  <1>4. CounterTypes'
    BY ConstantsAssumption DEF IInv, CounterTypes, Dispense, counters
  <1>5. ThreadTypes'
    BY <1>0 DEF IInv, ThreadTypes, Dispense
  <1>6. Holds(t)'
    BY <1>0 DEF Dispense, Holds
  <1>7. RunnerOwns'
    BY <1>0, <1>1, OwnersUnchanged DEF IInv, Dispense, Runs, objects
  <1>8. EpochEnds'
    BY <1>0, <1>1, EpochEndsStay DEF IInv, Dispense, Ending
  <1> QED
    BY <1>1, <1>2, <1>3, <1>4, <1>5, <1>6, <1>7, <1>8, HeldByOthers DEF IInv

\* Only a free object, or one that the thread owns already, is taken.
LEMMA TakePreserves ==
  ASSUME IInv, NEW t \in Threads, Take(t)
  PROVE  IInv'
  <1> DEFINE o == target[t]
             s == Claimed(speculation[o], t)
  <1>0. /\ o \in Objects /\ s \in Statuses
        /\ s.the_state = "BUSY" /\ s.owner = t
    BY ClaimedType DEF IInv, Held, Holds, Take, ObjectTypes
  <1>a. \E w \in Statuses : /\ speculation' = [speculation EXCEPT ![o] = w]
                            /\ w.the_state = "BUSY" /\ w.owner = t
    <2> HIDE DEF s
    <2>1. CASE s.standing_rollback
      <3>1. [Accepted(s) EXCEPT !.already_taken = TRUE] \in Statuses
        BY <1>0, TimeTypes DEF IInv, Accepted, Statuses
      <3> QED
        BY <1>0, <2>1, <3>1 DEF Take, Accepted, Statuses, s
    <2>2. CASE ~s.standing_rollback
      <3>1. [s EXCEPT !.already_taken = TRUE] \in Statuses
        BY <1>0 DEF Statuses
      <3> QED
        BY <1>0, <2>2, <3>1 DEF Take, Statuses, s
    <2> QED
      BY <2>1, <2>2
  <1>b. /\ filter_message' \in [Objects -> Int]
        /\ rollback_time' \in [Threads -> Nat]
        /\ \E l \in {"restore", "check"} : pc' = [pc EXCEPT ![t] = l]
    <2>1. s.causality_violation_time \in Nat
      BY <1>0 DEF Statuses
    <2>2. filter_message' \in [Objects -> Int]
      BY <1>0, <2>1, ConstantsAssumption DEF IInv, ObjectTypes, Take
    <2>3. rollback_time' \in [Threads -> Nat]
      <3>1. \/ rollback_time' = [rollback_time EXCEPT ![t] = s.causality_violation_time]
            \/ rollback_time' = [rollback_time EXCEPT ![t] = 0]
        BY DEF Take
      <3>2. rollback_time \in [Threads -> Nat]
        BY DEF IInv, ThreadTypes
      <3> HIDE DEF s
      <3> QED
        BY <2>1, <3>1, <3>2
    <2>4. \E l \in {"restore", "check"} : pc' = [pc EXCEPT ![t] = l]
      BY DEF Take, Goto
    <2> QED
      BY <2>2, <2>3, <2>4
  <1> HIDE DEF s
  <1>1. OthersStay(t)
    BY <1>b DEF IInv, ThreadTypes, Take, OthersStay
  <1>2. Lists'
    BY ListsStay DEF IInv, Take, queues
  <1>3. ObjectTypes'
    <2>1. speculation' \in [Objects -> Statuses]
      BY <1>0, <1>a DEF IInv, ObjectTypes
    <2>2. UNCHANGED history
      BY DEF Take
    <2> QED
      BY <1>b, <2>1, <2>2 DEF IInv, ObjectTypes
  <1>4. CounterTypes'
    BY CountersStay DEF IInv, Take, counters, dispensers
  <1>5. ThreadTypes'
    BY <1>b DEF IInv, ThreadTypes, Take, Labels
  <1>6. Holds(t)'
    BY <1>0, <1>b DEF IInv, ThreadTypes, Holds, Take
  <1>7. RunnerOwns'
    <2>1. \A p \in Objects : Runs(t, p)' => p = o \/ Runs(t, p)
      BY <1>b DEF IInv, ThreadTypes, Runs, Take
    <2>2. \A p \in Objects : ~Runs(t, p)
      BY DEF Runs, Take
    <2>3. speculation'[o].the_state = "BUSY" /\ speculation'[o].owner = t
      BY <1>0, <1>a DEF IInv, ObjectTypes
    <2>4. \A u \in Threads \ {t}, p \in Objects :
            speculation[p].the_state = "BUSY" /\ speculation[p].owner = u => p # o
      BY DEF Take, Mine
    <2>5. \A p \in Objects : p # o => speculation'[p] = speculation[p]
      BY <1>0, <1>a DEF IInv, ObjectTypes
    <2> QED
      BY <1>1, <2>1, <2>2, <2>3, <2>4, <2>5, OwnersStay DEF IInv
  <1>8. EpochEnds'
    BY <1>1, <1>b, EpochEndsStay DEF IInv, ThreadTypes, Take, Ending
  <1> QED
    BY <1>1, <1>2, <1>3, <1>4, <1>5, <1>6, <1>7, <1>8, HeldByOthers DEF IInv

\* The thread that gives an object up was its owner and stops running it.
LEMMA ReleasePreserves ==
  ASSUME IInv, NEW t \in Threads, Release(t)
  PROVE  IInv'
  <1>0. /\ pc' \in [Threads -> Labels]
        /\ target' \in [Threads -> Objects \cup {NoObject}]
        /\ object_stack' \in [Threads -> Seq(Objects)]
        /\ \A u \in Threads \ {t} : pc'[u] = pc[u] /\ target'[u] = target[u]
        /\ \/ pc'[t] = "take" /\ target'[t] \in Objects
           \/ pc'[t] = "dispense"
    BY ResumeEffect DEF IInv, Release, Labels
  <1> DEFINE o == target[t]
  <1>a. o \in Objects /\ Runs(t, o) /\ speculation[o].owner = t
    BY DEF IInv, Held, Holds, Release, Runs, RunnerOwns
  <1>1. OthersStay(t)
    BY <1>0 DEF Release, OthersStay
  <1>2. Lists'
    BY ListsStay DEF IInv, Release, queues
  <1>3. ObjectTypes'
    BY <1>a, ReleasedType DEF IInv, ObjectTypes, Release
  <1>4. CounterTypes'
    BY CountersStay DEF IInv, Release, counters, dispensers
  <1>5. ThreadTypes'
    BY <1>0 DEF IInv, ThreadTypes, Release
  <1>6. Holds(t)'
    BY <1>0 DEF Release, Holds
  <1>7. RunnerOwns'
    <2>1. \A p \in Objects : ~Runs(t, p)'
      BY <1>0 DEF Runs, Release
    <2>2. \A p \in Objects : p # o => speculation'[p] = speculation[p]
      BY <1>a DEF IInv, ObjectTypes, Release
    <2> QED
      BY <1>1, <1>a, <2>1, <2>2, OwnersStay DEF IInv
  <1>8. EpochEnds'
    BY <1>0, <1>1, EpochEndsStay DEF IInv, Release, Ending
  <1> QED
    BY <1>1, <1>2, <1>3, <1>4, <1>5, <1>6, <1>7, <1>8, HeldByOthers DEF IInv

\* A rollback discards a part of what the owner withholds.
LEMMA RestorePreserves ==
  ASSUME IInv, NEW t \in Threads, Restore(t)
  PROVE  IInv'
  <1> DEFINE o == target[t]
             kept == Before(speculation_queue[o], rollback_time[t])
  <1>0. /\ o \in Objects /\ kept \in Seq(Sends) /\ Len(kept) \in Nat
        /\ speculation_queue[o] \in Seq(Sends)
    BY BeforeType DEF IInv, Held, Holds, Restore, Lists, QueueTypes
  <1> HIDE DEF kept
  <1>1. OthersStay(t)
    BY DEF IInv, ThreadTypes, Restore, Goto, OthersStay, locals
  <1>2. Lists'
    <2>1. speculation_queue' = [speculation_queue EXCEPT ![o] = kept]
      BY DEF Restore, kept
    <2>2. speculation_queue' \in [Objects -> Seq(Sends)]
      BY <1>0, <2>1 DEF IInv, Lists, QueueTypes
    <2> QED
      BY <2>2, SameModel DEF IInv, Lists, QueueTypes, Restore
  <1>3. ObjectTypes'
    BY <1>0 DEF IInv, ObjectTypes, Restore
  <1>4. CounterTypes'
    <2>1. speculation_events' = speculation_events - (Len(speculation_queue[o]) - Len(kept))
      BY DEF Restore, Discarded, kept
    <2>2. Len(speculation_queue[o]) \in Nat
      BY <1>0
    <2>3. speculation_events' \in Int
      BY <1>0, <2>1, <2>2 DEF IInv, CounterTypes
    <2> QED
      BY <2>3 DEF IInv, CounterTypes, Restore, dispensers
  <1>5. ThreadTypes'
    BY DEF IInv, ThreadTypes, Restore, Goto, Labels, locals
  <1>6. Holds(t)'
    BY DEF IInv, ThreadTypes, Held, Holds, Restore, Goto, locals
  <1>7. RunnerOwns'
    BY <1>1, OwnersUnchanged DEF IInv, ThreadTypes, Restore, Goto, Runs, objects, locals
  <1>8. EpochEnds'
    BY <1>1, EpochEndsStay DEF IInv, ThreadTypes, Restore, Goto, Ending, locals
  <1> QED
    BY <1>1, <1>2, <1>3, <1>4, <1>5, <1>6, <1>7, <1>8, HeldByOthers DEF IInv

\* Annihilation claims the receiver only when nobody has it, and removes events
\* from the lists of the receiver only.
LEMMA AnnihilatePreserves ==
  ASSUME IInv, NEW t \in Threads, Annihilate(t)
  PROVE  IInv'
  <1> DEFINE o == target[t]
             e == Last(log_queue[o]).event
             d == Dest(e)
             s == Violated(speculation[d], Time(e))
             claim == ~speculation[d].standing_rollback /\ s.the_state = "FREE"
             w == IF claim THEN Claimed(s, t) ELSE s
             stack == IF claim THEN Push(object_stack[t], d) ELSE object_stack[t]
  <1>0. o \in Objects /\ log_queue[o] \in Seq(Sends) /\ log_queue[o] # <<>>
    BY DEF IInv, Held, Holds, Annihilate, MustUndo, Lists, QueueTypes
  <1>a. /\ Front(log_queue[o]) \in Seq(Sends) /\ e \in Events
        /\ d \in Objects /\ Time(e) \in Nat /\ SlotOf(e) \in Slots
    <2>1. Last(log_queue[o]) \in Sends /\ Front(log_queue[o]) \in Seq(Sends)
      BY <1>0, EndsType
    <2>2. e \in Events
      BY <2>1 DEF Sends
    <2> QED
      BY <2>1, <2>2, EventTypes, SlotTypes DEF IInv, Lists
  <1>b. /\ log_queue' = [log_queue EXCEPT ![o] = Front(log_queue[o])]
        /\ speculation' = [speculation EXCEPT ![d] = w]
        /\ object_stack' = [object_stack EXCEPT ![t] = stack]
        /\ status' = StackStatus(object_stack'[t])
        /\ queue' = [queue EXCEPT ![d][SlotOf(e)] = Without(queue[d][SlotOf(e)], e)]
        /\ retractable_queue' = [retractable_queue EXCEPT ![d] = Without(retractable_queue[d], e)]
        /\ pending_events' \in {pending_events, pending_events - 1}
        /\ pc[t] = "undo"
        /\ UNCHANGED <<model, fallback_queue, speculation_queue, filter_message, history, epochs,
                       dispensers, speculation_events, end, inited, pc, target, current,
                       rollback_time, event, outbox>>
    BY DEF Annihilate
  <1> HIDE DEF e, d
  <1>c. /\ s \in Statuses /\ s.the_state = speculation[d].the_state
        /\ s.owner = speculation[d].owner
    BY <1>a, ViolatedType DEF IInv, ObjectTypes
  <1> HIDE DEF s
  <1>d. /\ w \in Statuses
        /\ \/ speculation[d].the_state = "FREE" /\ w.the_state = "BUSY" /\ w.owner = t
           \/ w.the_state = speculation[d].the_state /\ w.owner = speculation[d].owner
    BY <1>c, ClaimedType
  <1>e. stack \in Seq(Objects)
    BY <1>a, PushType DEF IInv, ThreadTypes
  <1> HIDE DEF w, stack
  <1>1. OthersStay(t)
    BY <1>b DEF OthersStay
  <1>2. Lists'
    <2>1. /\ queue' \in [Objects -> [Slots -> Seq(Events)]]
          /\ \A p \in Objects : \A x \in Slots : queue'[p][x] \in Seq(EventsOf(p))
      <3>1. /\ Without(queue[d][SlotOf(e)], e) \in Seq(EventsOf(d))
            /\ Without(queue[d][SlotOf(e)], e) \in Seq(Events)
        BY <1>a, WithoutType DEF IInv, Lists, QueueTypes
      <3> QED
        BY <1>a, <1>b, <3>1 DEF IInv, Lists, QueueTypes
    <2>2. /\ retractable_queue' \in [Objects -> Seq(Events)]
          /\ \A p \in Objects : retractable_queue'[p] \in Seq(EventsOf(p))
      <3>1. /\ Without(retractable_queue[d], e) \in Seq(EventsOf(d))
            /\ Without(retractable_queue[d], e) \in Seq(Events)
        BY <1>a, WithoutType DEF IInv, Lists, QueueTypes
      <3> QED
        BY <1>a, <1>b, <3>1 DEF IInv, Lists, QueueTypes
    <2>3. log_queue' \in [Objects -> Seq(Sends)]
      BY <1>0, <1>a, <1>b DEF IInv, Lists, QueueTypes
    <2> QED
      BY <1>b, <2>1, <2>2, <2>3, SameModel DEF IInv, Lists, QueueTypes
  <1>3. ObjectTypes'
    BY <1>a, <1>b, <1>d DEF IInv, ObjectTypes
  <1>4. CounterTypes'
    <2>1. pending_events' \in Int
      BY <1>b DEF IInv, CounterTypes
    <2> QED
      BY <1>b, <2>1 DEF IInv, CounterTypes, dispensers
  <1>5. ThreadTypes'
    <2>1. object_stack' \in [Threads -> Seq(Objects)]
      BY <1>b, <1>e DEF IInv, ThreadTypes
    <2>2. status' \in {"running", "stack full", "use after free"}
      BY <1>b DEF IInv, ThreadTypes, StackStatus
    <2> QED
      BY <1>b, <2>1, <2>2 DEF IInv, ThreadTypes
  <1>6. Holds(t)'
    BY <1>b DEF IInv, Held, Holds, Dest
  <1>7. RunnerOwns'
    <2>1. \A p \in Objects : Runs(t, p)' => Runs(t, p)
      BY <1>b DEF Runs
    <2>2. \A p \in Objects : p # d => speculation'[p] = speculation[p]
      BY <1>b DEF IInv, ObjectTypes
    <2>3. speculation'[d] = w
      BY <1>a, <1>b DEF IInv, ObjectTypes
    <2> QED
      BY <1>1, <1>d, <2>1, <2>2, <2>3, OwnersStay DEF IInv, RunnerOwns
  <1>8. EpochEnds'
    BY <1>1, <1>b, EpochEndsStay DEF IInv
  <1> QED
    BY <1>1, <1>2, <1>3, <1>4, <1>5, <1>6, <1>7, <1>8, HeldByOthers DEF IInv

\* The retracted events of an object go back, in order, into its own slot.
LEMMA ReinsertPreserves ==
  ASSUME IInv, NEW t \in Threads, Reinsert(t)
  PROVE  IInv'
  <1> DEFINE o == target[t]
             q == queue[o][current_index] \o retractable_queue[o]
  <1>0. o \in Objects /\ current_index \in Slots
    BY TimeTypes DEF IInv, Held, Holds, Reinsert
  <1>a. q \in Seq(EventsOf(o)) /\ EventsOf(o) \in SUBSET Events
    <2>1. queue[o][current_index] \in Seq(EventsOf(o)) /\ retractable_queue[o] \in Seq(EventsOf(o))
      BY <1>0 DEF IInv, Lists
    <2> QED
      BY <2>1 DEF EventsOf
  <1>b. InTimeOrder(q) \in Seq(EventsOf(o)) /\ InTimeOrder(q) \in Seq(Events)
    <2> HIDE DEF q
    <2>1. InTimeOrder(q) \in Seq(EventsOf(o))
      BY <1>a, InTimeOrderType DEF IInv, Lists
    <2> QED
      BY <1>a, <2>1
  <1>c. queue' = [queue EXCEPT ![o][current_index] = InTimeOrder(q)]
    BY DEF Reinsert
  <1>d. retractable_queue' = [retractable_queue EXCEPT ![o] = <<>>] /\ Len(retractable_queue[o]) \in Nat
    BY <1>0 DEF Reinsert, IInv, Lists, QueueTypes
  <1> HIDE DEF o, q
  <1>1. OthersStay(t)
    BY DEF IInv, ThreadTypes, Reinsert, Goto, OthersStay, locals
  <1>2. Lists'
    <2>1. \A S : <<>> \in Seq(S)
      OBVIOUS
    <2>2. /\ queue' \in [Objects -> [Slots -> Seq(Events)]]
          /\ \A p \in Objects : \A s \in Slots : queue'[p][s] \in Seq(EventsOf(p))
      BY <1>0, <1>b, <1>c DEF IInv, Lists, QueueTypes
    <2>3. /\ retractable_queue' \in [Objects -> Seq(Events)]
          /\ \A p \in Objects : retractable_queue'[p] \in Seq(EventsOf(p))
      BY <1>0, <1>d, <2>1 DEF IInv, Lists, QueueTypes
    <2> QED
      BY <2>2, <2>3, SameModel DEF IInv, Lists, QueueTypes, Reinsert
  <1>3. ObjectTypes'
    BY ObjectsStay DEF IInv, Reinsert, objects
  <1>4. CounterTypes'
    <2>1. pending_events' = pending_events + Len(retractable_queue[o])
      BY DEF Reinsert, o
    <2> QED
      BY <1>d, <2>1 DEF IInv, CounterTypes, Reinsert, dispensers
  <1>5. ThreadTypes'
    BY DEF IInv, ThreadTypes, Reinsert, Goto, Labels, locals
  <1>6. Holds(t)'
    BY DEF IInv, ThreadTypes, Held, Holds, Reinsert, Goto, locals
  <1>7. RunnerOwns'
    BY <1>1, OwnersUnchanged DEF IInv, ThreadTypes, Reinsert, Goto, Runs, objects, locals
  <1>8. EpochEnds'
    BY <1>1, EpochEndsStay DEF IInv, ThreadTypes, Reinsert, Goto, Ending, locals
  <1> QED
    BY <1>1, <1>2, <1>3, <1>4, <1>5, <1>6, <1>7, <1>8, HeldByOthers DEF IInv

\* The event extracted is addressed to the object the thread runs.
LEMMA ExtractPreserves ==
  ASSUME IInv, NEW t \in Threads, Extract(t)
  PROVE  IInv'
  <1> DEFINE o == target[t]
             q == queue[o][current_index]
             e == Head(q)
  <1>0. o \in Objects /\ current_index \in Slots
    BY TimeTypes DEF IInv, Held, Holds, Extract
  <1>a. /\ e \in EventsOf(o) /\ Tail(q) \in Seq(EventsOf(o))
        /\ Tail(q) \in Seq(Events) /\ e \in Events /\ Dest(e) = o
    <2>1. q \in Seq(EventsOf(o)) /\ q # <<>>
      BY <1>0 DEF IInv, Lists, Extract, HasWork
    <2>2. e \in EventsOf(o) /\ Tail(q) \in Seq(EventsOf(o))
      BY <2>1, EndsType
    <2> QED
      BY <2>2 DEF EventsOf
  <1>b. Time(e) \in Nat
    BY <1>a, EventTypes DEF IInv, Lists
  <1>c. /\ queue' = [queue EXCEPT ![o][current_index] = Tail(q)]
        /\ retractable_queue' = [retractable_queue EXCEPT ![o] = Append(retractable_queue[o], e)]
        /\ speculation' = [speculation EXCEPT ![o].current_time = Time(e)]
        /\ event' = [event EXCEPT ![t] = <<e>>]
    BY DEF Extract
  <1>d. speculation'[o] = [speculation[o] EXCEPT !.current_time = Time(e)]
    BY <1>0, <1>c DEF IInv, ObjectTypes
  <1> HIDE DEF e, q
  <1>1. OthersStay(t)
    BY <1>c DEF IInv, ThreadTypes, Extract, Goto, OthersStay
  <1>2. Lists'
    <2>1. /\ queue' \in [Objects -> [Slots -> Seq(Events)]]
          /\ \A p \in Objects : \A s \in Slots : queue'[p][s] \in Seq(EventsOf(p))
      BY <1>0, <1>a, <1>c DEF IInv, Lists, QueueTypes
    <2>2. /\ retractable_queue' \in [Objects -> Seq(Events)]
          /\ \A p \in Objects : retractable_queue'[p] \in Seq(EventsOf(p))
      BY <1>0, <1>a, <1>c DEF IInv, Lists, QueueTypes
    <2> QED
      BY <2>1, <2>2, SameModel DEF IInv, Lists, QueueTypes, Extract
  <1>3. ObjectTypes'
    <2>1. speculation' \in [Objects -> Statuses]
      BY <1>0, <1>b, <1>c DEF IInv, ObjectTypes, Statuses
    <2> QED
      BY <2>1 DEF IInv, ObjectTypes, Extract
  <1>4. CounterTypes'
    BY DEF IInv, CounterTypes, Extract, dispensers
  <1>5. ThreadTypes'
    <2>1. <<e>> \in Seq(Events)
      BY <1>a
    <2>2. event \in [Threads -> Seq(Events)]
      BY DEF IInv, ThreadTypes
    <2>3. event' \in [Threads -> Seq(Events)]
      BY <1>c, <2>1, <2>2
    <2> QED
      BY <2>3 DEF IInv, ThreadTypes, Extract, Goto, Labels
  <1>6. Holds(t)'
    <2>1. event'[t] = <<e>> /\ pc'[t] = "copy" /\ target'[t] = o
      BY <1>c DEF IInv, ThreadTypes, Extract, Goto
    <2>2. event'[t][1] = e /\ event'[t] # <<>>
      BY <2>1
    <2>3. Dest(event[t][1])' = o
      BY <1>a, <2>2 DEF Dest, Extract
    <2> QED
      BY <1>0, <2>1, <2>2, <2>3 DEF Holds
  <1>7. RunnerOwns'
    <2>1. \A p \in Objects : Runs(t, p)' => Runs(t, p)
      BY DEF IInv, ThreadTypes, Extract, Goto, Runs
    <2>2. \A p \in Objects : /\ speculation'[p].the_state = speculation[p].the_state
                              /\ speculation'[p].owner = speculation[p].owner
      BY <1>0, <1>c DEF IInv, ObjectTypes, Statuses
    <2> QED
      BY <1>1, <2>1, <2>2, OwnersStay DEF IInv, RunnerOwns
  <1>8. EpochEnds'
    BY <1>1, EpochEndsStay DEF IInv, ThreadTypes, Extract, Goto, Ending, locals
  <1> QED
    BY <1>1, <1>2, <1>3, <1>4, <1>5, <1>6, <1>7, <1>8, HeldByOthers DEF IInv

\* The object an execution changes is the one the thread has taken.
LEMMA ProcessPreserves ==
  ASSUME IInv, NEW t \in Threads, Process(t)
  PROVE  IInv'
  <1> DEFINE e == event[t][1]
             d == Dest(e)
  <1>0. event[t] # <<>> /\ event[t] \in Seq(Events) /\ d = target[t]
    BY DEF IInv, Held, Holds, ThreadTypes, Process
  <1>a. e \in Events /\ d \in Objects /\ e.kind \in Kinds /\ model.next[e.kind] \in Seq(Kinds)
    <2>1. e \in Events
      BY <1>0
    <2> QED
      BY <2>1, EventTypes, ModelTypes DEF IInv, Lists
  <1>b. /\ Continue(t, model.next[e.kind]) /\ pc[t] = "copy" /\ model' = model
        /\ history' = [history EXCEPT ![d] = Append(history[d], e.kind)]
    BY DEF Process
  <1>c. /\ outbox' \in [Threads -> Seq(Kinds)]
        /\ pc' \in [Threads -> Labels]
        /\ current' \in [Threads -> Objects \cup {NoObject}]
        /\ event' \in [Threads -> Seq(Events)]
        /\ \A u \in Threads \ {t} : /\ pc'[u] = pc[u] /\ current'[u] = current[u]
                                    /\ event'[u] = event[u] /\ outbox'[u] = outbox[u]
        /\ Holds(t)'
        /\ pc'[t] \in {"idle", "process"}
        /\ pc'[t] = "process" => current'[t] = d
    BY <1>a, <1>b, ContinueEffect DEF IInv, Lists
  <1> HIDE DEF e, d
  <1>1. OthersStay(t)
    BY <1>c DEF Process, OthersStay
  <1>2. Lists'
    BY ListsStay DEF IInv, Process, queues
  <1>3. ObjectTypes'
    <2>1. history[d] \in Seq(Kinds)
      BY <1>a DEF IInv, ObjectTypes
    <2>2. Append(history[d], e.kind) \in Seq(Kinds)
      BY <1>a, <2>1
    <2>3. history' \in [Objects -> Seq(Kinds)]
      BY <1>b, <2>2 DEF IInv, ObjectTypes
    <2>4. UNCHANGED <<speculation, filter_message>>
      BY DEF Process
    <2> QED
      BY <2>3, <2>4 DEF IInv, ObjectTypes
  <1>4. CounterTypes'
    BY CountersStay DEF IInv, Process, counters, dispensers
  <1>5. ThreadTypes'
    BY <1>c DEF IInv, ThreadTypes, Process
  <1>6. Holds(t)'
    BY <1>c
  <1>7. RunnerOwns'
    <2>1. \A p \in Objects : Runs(t, p)' => Runs(t, p)
      BY <1>0, <1>b, <1>c DEF Runs
    <2> QED
      BY <1>1, <2>1, OwnersUnchanged DEF IInv, Process
  <1>8. EpochEnds'
    BY <1>1, <1>b, <1>c, EpochEndsStay DEF IInv, Ending
  <1> QED
    BY <1>1, <1>2, <1>3, <1>4, <1>5, <1>6, <1>7, <1>8, HeldByOthers DEF IInv

\* A bad read changes nothing else.
LEMMA ReadFreedPreserves ==
  ASSUME IInv, NEW t \in Threads, ReadFreed(t)
  PROVE  IInv'
  <1>1. OthersStay(t)
    BY DEF IInv, ThreadTypes, ReadFreed, Goto, OthersStay, locals
  <1>2. Lists'
    BY ListsStay DEF IInv, ReadFreed, queues
  <1>3. ObjectTypes'
    BY ObjectsStay DEF IInv, ReadFreed, objects
  <1>4. CounterTypes'
    BY CountersStay DEF IInv, ReadFreed, counters, dispensers
  <1>5. ThreadTypes'
    BY DEF IInv, ThreadTypes, ReadFreed, Goto, Labels, locals
  <1>6. Holds(t)'
    BY DEF IInv, Held, Holds, Dest, ReadFreed, locals
  <1>7. RunnerOwns'
    BY <1>1, OwnersUnchanged DEF IInv, ThreadTypes, ReadFreed, Goto, Runs, objects, locals
  <1>8. EpochEnds'
    BY <1>1, EpochEndsStay DEF IInv, ThreadTypes, ReadFreed, Goto, Ending, locals
  <1> QED
    BY <1>1, <1>2, <1>3, <1>4, <1>5, <1>6, <1>7, <1>8, HeldByOthers DEF IInv

LEMMA SendFilteredPreserves ==
  ASSUME IInv, NEW t \in Threads, SendFiltered(t)
  PROVE  IInv'
  <1>0. outbox[t] # <<>> /\ outbox[t] \in Seq(Kinds) /\ current[t] = Dest(event[t][1])
        /\ event[t] # <<>> /\ event[t] \in Seq(Events) /\ pc[t] = "process"
    BY DEF IInv, Held, Holds, ThreadTypes, SendFiltered
  <1>a. /\ NextSend(t) \in Kinds /\ Tail(outbox[t]) \in Seq(Kinds)
        /\ event[t][1] \in Events
    BY <1>0, EndsType DEF NextSend
  <1>b. current[t] \in Objects /\ Time(event[t][1]) \in Nat
    BY <1>0, <1>a, EventTypes DEF IInv, Lists
  <1>c. /\ outbox' \in [Threads -> Seq(Kinds)]
        /\ pc' \in [Threads -> Labels]
        /\ current' \in [Threads -> Objects \cup {NoObject}]
        /\ event' \in [Threads -> Seq(Events)]
        /\ \A u \in Threads \ {t} : /\ pc'[u] = pc[u] /\ current'[u] = current[u]
                                    /\ event'[u] = event[u] /\ outbox'[u] = outbox[u]
        /\ Holds(t)'
        /\ pc'[t] \in {"idle", "process"}
        /\ pc'[t] = "process" => current'[t] = current[t]
    <2>1. Continue(t, Tail(outbox[t])) /\ model' = model
      BY DEF SendFiltered
    <2> QED
      BY <1>0, <1>a, <2>1, ContinueEffect DEF IInv, Lists
  <1>1. OthersStay(t)
    BY <1>c DEF SendFiltered, OthersStay
  <1>2. Lists'
    BY ListsStay DEF IInv, SendFiltered, queues
  <1>3. ObjectTypes'
    BY ObjectsStay DEF IInv, SendFiltered, objects
  <1>4. CounterTypes'
    BY CountersStay DEF IInv, SendFiltered, counters, dispensers
  <1>5. ThreadTypes'
    BY <1>c DEF IInv, ThreadTypes, SendFiltered
  <1>6. Holds(t)'
    BY <1>c
  <1>7. RunnerOwns'
    <2>1. \A p \in Objects : Runs(t, p)' => Runs(t, p)
      BY <1>0, <1>c DEF Runs
    <2> QED
      BY <1>1, <2>1, OwnersUnchanged DEF IInv, SendFiltered, objects
  <1>8. EpochEnds'
    BY <1>0, <1>1, <1>c, EpochEndsStay DEF IInv, Ending
  <1> QED
    BY <1>1, <1>2, <1>3, <1>4, <1>5, <1>6, <1>7, <1>8, HeldByOthers DEF IInv

\* A send beyond the epoch changes the lists of the sender only.
LEMMA SendLaterPreserves ==
  ASSUME IInv, NEW t \in Threads, SendLater(t)
  PROVE  IInv'
  <1>0. outbox[t] # <<>> /\ outbox[t] \in Seq(Kinds) /\ current[t] = Dest(event[t][1])
        /\ event[t] # <<>> /\ event[t] \in Seq(Events) /\ pc[t] = "process"
    BY DEF IInv, Held, Holds, ThreadTypes, SendLater
  <1>a. /\ NextSend(t) \in Kinds /\ Tail(outbox[t]) \in Seq(Kinds)
        /\ event[t][1] \in Events
    BY <1>0, EndsType DEF NextSend
  <1>b. current[t] \in Objects /\ Time(event[t][1]) \in Nat
    BY <1>0, <1>a, EventTypes DEF IInv, Lists
  <1>c. /\ outbox' \in [Threads -> Seq(Kinds)]
        /\ pc' \in [Threads -> Labels]
        /\ current' \in [Threads -> Objects \cup {NoObject}]
        /\ event' \in [Threads -> Seq(Events)]
        /\ \A u \in Threads \ {t} : /\ pc'[u] = pc[u] /\ current'[u] = current[u]
                                    /\ event'[u] = event[u] /\ outbox'[u] = outbox[u]
        /\ Holds(t)'
        /\ pc'[t] \in {"idle", "process"}
        /\ pc'[t] = "process" => current'[t] = current[t]
    <2>1. Continue(t, Tail(outbox[t])) /\ model' = model
      BY DEF SendLater
    <2> QED
      BY <1>0, <1>a, <2>1, ContinueEffect DEF IInv, Lists
  <1>1. OthersStay(t)
    BY <1>c DEF SendLater, OthersStay
  <1>2. Lists'
    <2>1. PICK x \in Sends : speculation_queue' = [speculation_queue EXCEPT ![current[t]] = Append(@, x)]
      BY <1>a, <1>b DEF SendLater, Sends, Events
    <2>2. speculation_queue' \in [Objects -> Seq(Sends)]
      BY <1>b, <2>1 DEF IInv, Lists, QueueTypes
    <2> QED
      BY <2>2, SameModel DEF IInv, Lists, QueueTypes, SendLater
  <1>3. ObjectTypes'
    BY ObjectsStay DEF IInv, SendLater, objects
  <1>4. CounterTypes'
    BY DEF IInv, CounterTypes, SendLater, dispensers
  <1>5. ThreadTypes'
    BY <1>c DEF IInv, ThreadTypes, SendLater
  <1>6. Holds(t)'
    BY <1>c
  <1>7. RunnerOwns'
    <2>1. \A p \in Objects : Runs(t, p)' => Runs(t, p)
      BY <1>0, <1>c DEF Runs
    <2> QED
      BY <1>1, <2>1, OwnersUnchanged DEF IInv, SendLater, objects
  <1>8. EpochEnds'
    BY <1>0, <1>1, <1>c, EpochEndsStay DEF IInv, Ending
  <1> QED
    BY <1>1, <1>2, <1>3, <1>4, <1>5, <1>6, <1>7, <1>8, HeldByOthers DEF IInv

\* A send into the epoch claims the receiver only when nobody has it.
LEMMA SendNowPreserves ==
  ASSUME IInv, NEW t \in Threads, SendNow(t)
  PROVE  IInv'
  <1>0. outbox[t] # <<>> /\ outbox[t] \in Seq(Kinds) /\ current[t] = Dest(event[t][1])
        /\ event[t] # <<>> /\ event[t] \in Seq(Events) /\ pc[t] = "process"
    BY DEF IInv, Held, Holds, ThreadTypes, SendNow
  <1>a. /\ NextSend(t) \in Kinds /\ Tail(outbox[t]) \in Seq(Kinds)
        /\ event[t][1] \in Events
    BY <1>0, EndsType DEF NextSend
  <1>b. current[t] \in Objects /\ Time(event[t][1]) \in Nat
    BY <1>0, <1>a, EventTypes DEF IInv, Lists
  <1>c. /\ outbox' \in [Threads -> Seq(Kinds)]
        /\ pc' \in [Threads -> Labels]
        /\ current' \in [Threads -> Objects \cup {NoObject}]
        /\ event' \in [Threads -> Seq(Events)]
        /\ \A u \in Threads \ {t} : /\ pc'[u] = pc[u] /\ current'[u] = current[u]
                                    /\ event'[u] = event[u] /\ outbox'[u] = outbox[u]
        /\ Holds(t)'
        /\ pc'[t] \in {"idle", "process"}
        /\ pc'[t] = "process" => current'[t] = current[t]
    <2>1. Continue(t, Tail(outbox[t])) /\ model' = model
      BY DEF SendNow
    <2> QED
      BY <1>0, <1>a, <2>1, ContinueEffect DEF IInv, Lists
  <1> DEFINE o == current[t]
             d == model.dest[NextSend(t)]
             time == model.time[NextSend(t)]
             straggler == IsStraggler(d, time)
             free == speculation[d].the_state = "FREE"
             s == IF straggler THEN Violated(speculation[d], time) ELSE speculation[d]
             preempt == straggler /\ free /\ ~speculation[d].standing_rollback
             adopt == ~straggler /\ free /\ speculation[d].already_taken
             w == IF preempt \/ adopt THEN Claimed(s, t) ELSE s
             stack == IF preempt THEN Push(PushBottom(object_stack[t], o), d)
                      ELSE IF adopt THEN Push(object_stack[t], d) ELSE object_stack[t]
             r == IF preempt THEN NoObject ELSE target[t]
  <1>d. d \in Objects /\ time \in Nat
    BY <1>a, ModelTypes DEF IInv, Lists
  <1>e. /\ \E x \in Sends : log_queue' = [log_queue EXCEPT ![o] = Append(log_queue[o], x)]
        /\ \E e \in Events : Insert(e)
    <2>1. PICK c \in Copies :
             LET e == [kind |-> NextSend(t), copy |-> c]
             IN  /\ log_queue' = [log_queue EXCEPT ![o] =
                                    Append(@, [event |-> e, send_time |-> Time(event[t][1])])]
                 /\ Insert(e)
      BY DEF SendNow
    <2>2. [kind |-> NextSend(t), copy |-> c] \in Events
      BY <1>a DEF Events
    <2>3. [event |-> [kind |-> NextSend(t), copy |-> c], send_time |-> Time(event[t][1])] \in Sends
      BY <1>b, <2>2 DEF Sends
    <2> QED
      BY <2>1, <2>2, <2>3
  <1>f. /\ speculation' = [speculation EXCEPT ![d] = w]
        /\ object_stack' = [object_stack EXCEPT ![t] = stack]
        /\ status' = StackStatus(object_stack'[t])
        /\ target' = [target EXCEPT ![t] = r]
        /\ pending_events' = pending_events + 1
        /\ UNCHANGED <<model, fallback_queue, retractable_queue, speculation_queue, filter_message,
                       history, epochs, dispensers, speculation_events, end, inited, rollback_time>>
    BY DEF SendNow
  <1> HIDE DEF d, time, straggler
  <1>g. /\ s \in Statuses /\ s.the_state = speculation[d].the_state
        /\ s.owner = speculation[d].owner
    BY <1>d, ViolatedType DEF IInv, ObjectTypes
  <1> HIDE DEF s
  <1>h. /\ w \in Statuses
        /\ \/ free /\ w.the_state = "BUSY" /\ w.owner = t
           \/ w.the_state = speculation[d].the_state /\ w.owner = speculation[d].owner
    BY <1>g, ClaimedType
  <1>i. stack \in Seq(Objects)
    <2>1. object_stack[t] \in Seq(Objects)
      BY DEF IInv, ThreadTypes
    <2>2. /\ Push(object_stack[t], d) \in Seq(Objects)
          /\ Push(PushBottom(object_stack[t], o), d) \in Seq(Objects)
      BY <1>b, <1>d, <2>1, PushType
    <2> QED
      BY <2>1, <2>2
  <1>j. r \in Objects \cup {NoObject}
    BY DEF IInv, ThreadTypes
  <1> HIDE DEF w, stack, r
  <1>1. OthersStay(t)
    BY <1>c, <1>f DEF IInv, ThreadTypes, OthersStay
  <1>2. Lists'
    <2>1. PICK x \in Sends : log_queue' = [log_queue EXCEPT ![o] = Append(log_queue[o], x)]
      BY <1>e
    <2>2. log_queue' \in [Objects -> Seq(Sends)]
      BY <1>b, <2>1 DEF IInv, Lists, QueueTypes
    <2>3. /\ queue' \in [Objects -> [Slots -> Seq(Events)]]
          /\ \A p \in Objects : \A n \in Slots : queue'[p][n] \in Seq(EventsOf(p)')
      BY <1>e, <1>f, InsertKeepsLists DEF IInv
    <2> QED
      BY <1>f, <2>2, <2>3, SameModel DEF IInv, Lists, QueueTypes
  <1>3. ObjectTypes'
    BY <1>d, <1>f, <1>h DEF IInv, ObjectTypes
  <1>4. CounterTypes'
    BY <1>f DEF IInv, CounterTypes, dispensers
  <1>5. ThreadTypes'
    <2>1. object_stack' \in [Threads -> Seq(Objects)]
      BY <1>f, <1>i DEF IInv, ThreadTypes
    <2>2. target' \in [Threads -> Objects \cup {NoObject}]
      BY <1>f, <1>j DEF IInv, ThreadTypes
    <2>3. status' \in {"running", "stack full", "use after free"}
      BY <1>f DEF IInv, ThreadTypes, StackStatus
    <2> QED
      BY <1>c, <1>f, <2>1, <2>2, <2>3 DEF IInv, ThreadTypes
  <1>6. Holds(t)'
    BY <1>c
  <1>7. RunnerOwns'
    <2>1. \A p \in Objects : Runs(t, p)' => Runs(t, p)
      BY <1>0, <1>c DEF Runs
    <2>2. \A p \in Objects : p # d => speculation'[p] = speculation[p]
      BY <1>f DEF IInv, ObjectTypes
    <2>3. speculation'[d] = w
      BY <1>d, <1>f DEF IInv, ObjectTypes
    <2> QED
      BY <1>1, <1>h, <2>1, <2>2, <2>3, OwnersStay DEF IInv, RunnerOwns
  <1>8. EpochEnds'
    BY <1>0, <1>1, <1>c, EpochEndsStay DEF IInv, Ending
  <1> QED
    BY <1>1, <1>2, <1>3, <1>4, <1>5, <1>6, <1>7, <1>8, HeldByOthers DEF IInv

\* Steps that end an epoch. The thread that flushes an object takes it from
\* nobody, because all threads are ending the epoch.
LEMMA RetractPreserves ==
  ASSUME IInv, NEW t \in Threads, Retract(t)
  PROVE  IInv'
  <1>0. /\ retractable_object_identifiers' \in 0..OBJECTS
        /\ retractable_queue' \in [Objects -> Seq(Events)]
        /\ \A o \in Objects : retractable_queue'[o] \in Seq(EventsOf(o))
        /\ pc' \in {pc, [pc EXCEPT ![t] = "flush"]}
    <2>1. \A S : <<>> \in Seq(S)
      OBVIOUS
    <2>2. CASE retractable_object_identifiers < OBJECTS
      <3>1. /\ retractable_object_identifiers' = retractable_object_identifiers + 1
            /\ retractable_queue' = [retractable_queue EXCEPT ![retractable_object_identifiers] = <<>>]
            /\ pc' = pc
        BY <2>2 DEF Retract
      <3>2. retractable_object_identifiers' \in 0..OBJECTS
        BY <2>2, <3>1, ConstantsAssumption DEF IInv, CounterTypes
      <3>3. /\ retractable_queue' \in [Objects -> Seq(Events)]
            /\ \A o \in Objects : retractable_queue'[o] \in Seq(EventsOf(o))
        BY <2>1, <3>1 DEF IInv, Lists, QueueTypes
      <3> QED
        BY <3>1, <3>2, <3>3
    <2>3. CASE ~(retractable_object_identifiers < OBJECTS)
      BY <2>3 DEF IInv, CounterTypes, Lists, QueueTypes, Retract, Goto
    <2> QED
      BY <2>2, <2>3
  <1>1. OthersStay(t)
    BY <1>0 DEF IInv, ThreadTypes, OthersStay, Retract, locals
  <1>2. Lists'
    BY <1>0, SameModel DEF IInv, Lists, QueueTypes, Retract
  <1>3. ObjectTypes'
    BY ObjectsStay DEF IInv, Retract, objects
  <1>4. CounterTypes'
    BY <1>0 DEF IInv, CounterTypes, Retract, counters
  <1>5. ThreadTypes'
    BY <1>0 DEF IInv, ThreadTypes, Retract, Labels, locals
  <1>6. Holds(t)'
    BY <1>0 DEF IInv, ThreadTypes, Holds, Retract, locals
  <1>7. RunnerOwns'
    BY <1>0, <1>1, OwnersUnchanged DEF IInv, ThreadTypes, Retract, Runs, objects, locals
  <1>8. EpochEnds'
    BY <1>0, <1>1, EpochEndsStay DEF IInv, ThreadTypes, Retract, Ending
  <1> QED
    BY <1>1, <1>2, <1>3, <1>4, <1>5, <1>6, <1>7, <1>8, HeldByOthers DEF IInv

LEMMA FlushPreserves ==
  ASSUME IInv, NEW t \in Threads, Flush(t)
  PROVE  IInv'
  <1> DEFINE o == shadow_object_identifiers
             s == [Released(speculation[o]) EXCEPT !.causality_violation_time = 0,
                       !.standing_rollback = FALSE, !.already_taken = FALSE]
  <1>0. o \in Objects
    BY ConstantsAssumption DEF IInv, CounterTypes, Flush, Objects
  <1>a. s \in Statuses
    <2>1. Released(speculation[o]) \in Statuses
      BY <1>0, ReleasedType DEF IInv, ObjectTypes
    <2> QED
      BY <2>1 DEF Statuses
  <1>b. speculation' = [speculation EXCEPT ![o] = s]
    BY DEF Flush
  <1>c. \A u \in Threads, p \in Objects : ~Runs(u, p) /\ ~Runs(u, p)'
    <2>1. \A u \in Threads : pc[u] \in Ending \cup {"flushed"} /\ pc'[u] \in Ending \cup {"flushed"}
      BY DEF IInv, ThreadTypes, EpochEnds, Flush, Ending, Goto
    <2> QED
      BY <2>1 DEF Runs, Ending
  <1> HIDE DEF s
  <1>1. OthersStay(t)
    BY DEF IInv, ThreadTypes, Flush, Goto, OthersStay, locals
  <1>2. Lists'
    <2>1. <<>> \in Seq(Sends)
      OBVIOUS
    <2> QED
      BY <2>1, SameModel DEF IInv, Lists, QueueTypes, Flush
  <1>3. ObjectTypes'
    BY <1>0, <1>a, <1>b, TimeTypes, ConstantsAssumption DEF IInv, ObjectTypes, Flush
  <1>4. CounterTypes'
    BY <1>0, ConstantsAssumption DEF IInv, CounterTypes, Flush, counters, Objects
  <1>5. ThreadTypes'
    BY <1>0 DEF IInv, ThreadTypes, Flush, Goto, Labels
  <1>6. Holds(t)'
    BY <1>0 DEF IInv, ThreadTypes, Holds, Flush, Goto
  <1>7. RunnerOwns'
    BY <1>c DEF RunnerOwns
  <1>8. EpochEnds'
    BY <1>1, EpochEndsStay DEF IInv, ThreadTypes, Flush, Goto, Ending, locals
  <1> QED
    BY <1>1, <1>2, <1>3, <1>4, <1>5, <1>6, <1>7, <1>8, HeldByOthers DEF IInv

LEMMA CommitPreserves ==
  ASSUME IInv, NEW t \in Threads, Commit(t)
  PROVE  IInv'
  <1> DEFINE o == target[t]
             e == Head(speculation_queue[o]).event
  <1>0. /\ o \in Objects
        /\ Head(speculation_queue[o]) \in Sends /\ Tail(speculation_queue[o]) \in Seq(Sends)
    BY EndsType DEF IInv, Held, Holds, Lists, QueueTypes, Commit
  <1>a. e \in Events /\ QueueInsert(t, e)
    BY <1>0 DEF Commit, Sends
  <1>1. OthersStay(t)
    BY DEF IInv, OthersStay, Commit, locals
  <1>2. Lists'
    BY <1>0, <1>a, QueueInsertKeepsLists, SameModel DEF IInv, Lists, QueueTypes, Commit
  <1>3. ObjectTypes'
    BY ObjectsStay DEF IInv, Commit, objects
  <1>4. CounterTypes'
    BY <1>a, QueueInsertKeepsLists DEF IInv, CounterTypes, Commit, dispensers
  <1>5. ThreadTypes'
    BY DEF IInv, ThreadTypes, Commit, locals
  <1>6. Holds(t)'
    BY <1>0 DEF Holds, Commit, locals
  <1>7. RunnerOwns'
    BY <1>1, OwnersUnchanged DEF IInv, Commit, Runs, objects, locals
  <1>8. EpochEnds'
    BY <1>1, EpochEndsStay DEF IInv, Commit
  <1> QED
    BY <1>1, <1>2, <1>3, <1>4, <1>5, <1>6, <1>7, <1>8, HeldByOthers DEF IInv

LEMMA CheckpointPreserves ==
  ASSUME IInv, NEW t \in Threads, Checkpoint(t)
  PROVE  IInv'
  <1>1. OthersStay(t)
    BY DEF IInv, ThreadTypes, Checkpoint, Goto, OthersStay, locals
  <1>2. Lists'
    BY ListsStay DEF IInv, Checkpoint, queues
  <1>3. ObjectTypes'
    BY DEF IInv, ObjectTypes, Checkpoint, Held, Holds
  <1>4. CounterTypes'
    BY CountersStay DEF IInv, Checkpoint, counters, dispensers
  <1>5. ThreadTypes'
    BY DEF IInv, ThreadTypes, Checkpoint, Goto, Labels, locals
  <1>6. Holds(t)'
    BY DEF IInv, ThreadTypes, Held, Holds, Checkpoint, Goto, locals
  <1>7. RunnerOwns'
    BY <1>1, OwnersUnchanged DEF IInv, ThreadTypes, Checkpoint, Goto, Runs, objects, locals
  <1>8. EpochEnds'
    BY <1>1, EpochEndsStay DEF IInv, ThreadTypes, Checkpoint, Goto, Ending, locals
  <1> QED
    BY <1>1, <1>2, <1>3, <1>4, <1>5, <1>6, <1>7, <1>8, HeldByOthers DEF IInv

LEMMA FlushDonePreserves ==
  ASSUME IInv, NEW t \in Threads, FlushDone(t)
  PROVE  IInv'
  <1>1. OthersStay(t)
    BY DEF IInv, ThreadTypes, FlushDone, Goto, OthersStay, locals
  <1>2. Lists'
    BY ListsStay DEF IInv, FlushDone, queues
  <1>3. ObjectTypes'
    BY ObjectsStay DEF IInv, FlushDone, objects
  <1>4. CounterTypes'
    BY CountersStay DEF IInv, FlushDone, counters, dispensers
  <1>5. ThreadTypes'
    BY DEF IInv, ThreadTypes, FlushDone, Goto, Labels, locals
  <1>6. Holds(t)'
    BY DEF IInv, ThreadTypes, Held, Holds, FlushDone, Goto, locals
  <1>7. RunnerOwns'
    BY <1>1, OwnersUnchanged DEF IInv, ThreadTypes, FlushDone, Goto, Runs, objects, locals
  <1>8. EpochEnds'
    BY <1>1, EpochEndsStay DEF IInv, ThreadTypes, FlushDone, Goto, Ending, locals
  <1> QED
    BY <1>1, <1>2, <1>3, <1>4, <1>5, <1>6, <1>7, <1>8, HeldByOthers DEF IInv

\* The next epoch, and the fallback queues.
LEMMA UpdateTimingPreserves ==
  ASSUME IInv, NEW t \in Threads, UpdateTiming(t)
  PROVE  IInv'
  <1>1. OthersStay(t)
    BY DEF IInv, ThreadTypes, UpdateTiming, Goto, OthersStay, locals
  <1>2. Lists'
    BY ListsStay DEF IInv, UpdateTiming, queues
  <1>3. ObjectTypes'
    BY ObjectsStay DEF IInv, UpdateTiming, objects
  <1>4. CounterTypes'
    <2>1. end' \in BOOLEAN
      BY DEF UpdateTiming
    <2> QED
      BY <2>1, ConstantsAssumption DEF IInv, CounterTypes, UpdateTiming
  <1>5. ThreadTypes'
    BY DEF IInv, ThreadTypes, UpdateTiming, Goto, Labels, locals
  <1>6. Holds(t)'
    BY DEF IInv, ThreadTypes, Held, Holds, UpdateTiming, Goto, locals
  <1>7. RunnerOwns'
    BY <1>1, OwnersUnchanged DEF IInv, ThreadTypes, UpdateTiming, Goto, Runs, objects, locals
  <1>8. EpochEnds'
    BY <1>1, EpochEndsStay DEF IInv, ThreadTypes, UpdateTiming, Goto, Ending, locals
  <1> QED
    BY <1>1, <1>2, <1>3, <1>4, <1>5, <1>6, <1>7, <1>8, HeldByOthers DEF IInv

LEMMA FallbackInsertPreserves ==
  ASSUME IInv, NEW t \in Threads, FallbackInsert(t)
  PROVE  IInv'
  <1>0. PICK i \in Due(t) :
          /\ Insert(fallback_queue[t][i])
          /\ fallback_queue' = [fallback_queue EXCEPT ![t] = RemoveAt(@, i)]
    BY DEF FallbackInsert
  <1>a. /\ fallback_queue[t][i] \in Events
        /\ RemoveAt(fallback_queue[t], i) \in Seq(Events)
    BY RemoveAtType DEF Due, IInv, Lists, QueueTypes
  <1>1. OthersStay(t)
    BY DEF IInv, OthersStay, FallbackInsert, locals
  <1>2. Lists'
    BY <1>0, <1>a, InsertKeepsLists, SameModel DEF IInv, Lists, QueueTypes, FallbackInsert
  <1>3. ObjectTypes'
    BY ObjectsStay DEF IInv, FallbackInsert, objects
  <1>4. CounterTypes'
    BY CountersStay DEF IInv, FallbackInsert, counters, dispensers
  <1>5. ThreadTypes'
    BY DEF IInv, ThreadTypes, FallbackInsert, locals
  <1>6. Holds(t)'
    BY DEF Holds, FallbackInsert, locals
  <1>7. RunnerOwns'
    BY <1>1, OwnersUnchanged DEF IInv, FallbackInsert, Runs, objects, locals
  <1>8. EpochEnds'
    BY <1>1, EpochEndsStay DEF IInv, FallbackInsert, locals
  <1> QED
    BY <1>1, <1>2, <1>3, <1>4, <1>5, <1>6, <1>7, <1>8, HeldByOthers DEF IInv

LEMMA FallbackDonePreserves ==
  ASSUME IInv, NEW t \in Threads, FallbackDone(t)
  PROVE  IInv'
  <1>1. OthersStay(t)
    BY DEF IInv, ThreadTypes, FallbackDone, Goto, OthersStay, locals
  <1>2. Lists'
    BY ListsStay DEF IInv, FallbackDone, queues
  <1>3. ObjectTypes'
    BY ObjectsStay DEF IInv, FallbackDone, objects
  <1>4. CounterTypes'
    BY CountersStay DEF IInv, FallbackDone, counters, dispensers
  <1>5. ThreadTypes'
    BY DEF IInv, ThreadTypes, FallbackDone, Goto, Labels, locals
  <1>6. Holds(t)'
    BY DEF IInv, ThreadTypes, Held, Holds, FallbackDone, Goto, locals
  <1>7. RunnerOwns'
    BY <1>1, OwnersUnchanged DEF IInv, ThreadTypes, FallbackDone, Goto, Runs, objects, locals
  <1>8. EpochEnds'
    BY <1>1, EpochEndsStay DEF IInv, ThreadTypes, FallbackDone, Goto, Ending, locals
  <1> QED
    BY <1>1, <1>2, <1>3, <1>4, <1>5, <1>6, <1>7, <1>8, HeldByOthers DEF IInv

\* The threads leave a barrier together: either nobody is ending the epoch
\* afterwards, or everybody is.
LEMMA BarriersPreserve ==
  ASSUME IInv, Barriers
  PROVE  IInv'
  <1>1. PICK to \in [Threads -> {"idle", "retract", "update", "updated", "fallback", "dispense"}] :
           /\ pc' = to
           /\ (\E t \in Threads : to[t] = "retract") => \A t \in Threads : to[t] = "retract"
    BY DEF Barriers, Barrier
  <1>2. Lists' /\ ObjectTypes' /\ CounterTypes'
    BY ListsStay, ObjectsStay, CountersStay DEF IInv, Barriers
  <1>3. ThreadTypes'
    BY <1>1 DEF IInv, ThreadTypes, Barriers, Labels, locals
  <1>4. Held'
    BY <1>1 DEF Held, Holds
  <1>5. RunnerOwns'
    BY <1>1 DEF RunnerOwns, Runs
  <1>6. EpochEnds'
    BY <1>1 DEF EpochEnds, Ending
  <1> QED
    BY <1>2, <1>3, <1>4, <1>5, <1>6 DEF IInv

LEMMA StepPreserves ==
  ASSUME IInv, NEW t \in Threads, Step(t)
  PROVE  IInv'
  BY InitObjectPreserves, InitSendPreserves, InitDonePreserves, FinishPreserves,
     TakenByOtherPreserves, KeepPreserves, RedoPreserves, GetEventPreserves,
     DispensePreserves, TakePreserves, ReleasePreserves, RestorePreserves,
     AnnihilatePreserves, ReinsertPreserves, ExtractPreserves, ProcessPreserves,
     ReadFreedPreserves, SendFilteredPreserves, SendLaterPreserves, SendNowPreserves,
     RetractPreserves, FlushPreserves, CommitPreserves, CheckpointPreserves,
     FlushDonePreserves, UpdateTimingPreserves, FallbackInsertPreserves,
     FallbackDonePreserves DEF Step

LEMMA NothingChanges ==
  ASSUME IInv, UNCHANGED vars
  PROVE  IInv'
  <1>1. Lists' /\ ObjectTypes' /\ CounterTypes'
    BY ListsStay, ObjectsStay, CountersStay DEF IInv, vars
  <1>2. ThreadTypes'
    BY DEF IInv, ThreadTypes, vars, locals
  <1>3. Held'
    BY DEF IInv, Held, Holds, Dest, vars, locals
  <1>4. RunnerOwns' /\ EpochEnds'
    BY DEF IInv, RunnerOwns, Runs, EpochEnds, vars, locals, objects
  <1> QED
    BY <1>1, <1>2, <1>3, <1>4 DEF IInv

LEMMA InitEstablishes ==
  ASSUME Init
  PROVE  IInv
  <1>1. \A S : <<>> \in Seq(S)
    OBVIOUS
  <1>2. Lists
    BY <1>1 DEF Init, Lists, ModelOK, QueueTypes
  <1>3. ObjectTypes
    BY <1>1, ConstantsAssumption DEF Init, ObjectTypes, Statuses
  <1>4. CounterTypes
    <2>1. 0 \in 0..OBJECTS /\ 0 \in Nat /\ 0 \in Int /\ FALSE \in BOOLEAN
      BY ConstantsAssumption
    <2>2. /\ epochs = 0 /\ object_identifiers = 0 /\ shadow_object_identifiers = 0
          /\ retractable_object_identifiers = 0 /\ pending_events = 0
          /\ speculation_events = 0 /\ end = FALSE /\ inited = {}
      BY DEF Init
    <2> QED
      BY <2>1, <2>2 DEF CounterTypes
  <1>5. ThreadTypes
    BY <1>1 DEF Init, ThreadTypes, Labels
  <1>6. Held
    BY DEF Init, Held, Holds
  <1>7. RunnerOwns /\ EpochEnds
    BY DEF Init, RunnerOwns, Runs, EpochEnds, Ending
  <1> QED
    BY <1>2, <1>3, <1>4, <1>5, <1>6, <1>7 DEF IInv

-----------------------------------------------------------------------------
(* Theorems *)

\* The invariant holds in every behaviour of the engine.
THEOREM Invariance == Spec => []IInv
  <1>1. Init => IInv
    BY InitEstablishes
  <1>2. IInv /\ [Next]_vars => IInv'
    <2> SUFFICES ASSUME IInv, [Next]_vars PROVE IInv'
      OBVIOUS
    <2>1. CASE Barriers
      BY <2>1, BarriersPreserve
    <2>2. CASE \E t \in Threads : Step(t)
      BY <2>2, StepPreserves
    <2>3. CASE UNCHANGED vars
      BY <2>3, NothingChanges
    <2> QED
      BY <2>1, <2>2, <2>3 DEF Next
  <1> QED
    BY <1>1, <1>2, PTL DEF Spec

\* Every variable of the engine keeps its type, for any number of threads,
\* objects, slots and events and any simulation model: in particular every list
\* operation of queue.c yields lists of events, and every object that a thread
\* works on or stacks is an object.
THEOREM TypeCorrect == Spec => []TypeOK
  <1>1. IInv => TypeOK
    BY DEF IInv, Lists, TypeOK
  <1> QED
    BY <1>1, Invariance, PTL

\* A thread that rolls back an object, takes its next event or executes it is
\* the registered owner of the object (queue.c:418-428): no release, adoption,
\* preemption, annihilation or flush takes it away.
THEOREM RunnersOwn == Spec => []RunnerOwns
  <1>1. IInv => RunnerOwns
    BY DEF IInv
  <1> QED
    BY <1>1, Invariance, PTL

\* No two threads ever work on the same object, although run_rollback, GetEvent
\* and ProcessEvent hold no lock.
THEOREM ExecutionIsExclusive == Spec => []ExclusiveExecution
  <1>1. IInv => ExclusiveExecution
    BY DEF IInv, RunnerOwns, ExclusiveExecution
  <1> QED
    BY <1>1, Invariance, PTL

-----------------------------------------------------------------------------
(* Sequences *)

LEMMA Elements ==
  ASSUME NEW S, NEW q \in Seq(S)
  PROVE  /\ Len(q) \in Nat /\ DOMAIN q = 1..Len(q)
         /\ \A i \in 1..Len(q) : q[i] \in S /\ q[i] \in ToSet(q)
         /\ \A x \in ToSet(q) : x \in S /\ \E i \in 1..Len(q) : x = q[i]
         /\ ToSet(q) \in SUBSET S
  BY DEF ToSet

LEMMA AppendElements ==
  ASSUME NEW S, NEW q \in Seq(S), NEW e \in S
  PROVE  ToSet(Append(q, e)) = ToSet(q) \cup {e}
  <1> DEFINE r == Append(q, e)
  <1>1. /\ r \in Seq(S) /\ Len(r) = Len(q) + 1 /\ r[Len(q) + 1] = e
        /\ \A i \in 1..Len(q) : r[i] = q[i]
    OBVIOUS
  <1>2. Len(q) \in Nat
    OBVIOUS
  <1> HIDE DEF r
  <1>3. \A i \in 1..Len(r) : i \in 1..Len(q) \/ i = Len(q) + 1
    BY <1>1, <1>2
  <1>4. ToSet(r) \subseteq ToSet(q) \cup {e}
    BY <1>1, <1>3, Elements
  <1>5. ToSet(q) \subseteq ToSet(r)
    <2>1. \A i \in 1..Len(q) : i \in 1..Len(r)
      BY <1>1, <1>2
    <2> QED
      BY <1>1, <2>1, Elements
  <1>6. e \in ToSet(r)
    BY <1>1, <1>2, Elements
  <1> QED
    BY <1>4, <1>5, <1>6 DEF r

LEMMA PushElements ==
  ASSUME NEW S, NEW q \in Seq(S), NEW e \in S
  PROVE  ToSet(Push(q, e)) = ToSet(q) \cup {e} /\ ToSet(PushBottom(q, e)) = ToSet(q) \cup {e}
  <1> DEFINE r == <<e>> \o q
  <1>1. /\ r \in Seq(S) /\ Len(r) = Len(q) + 1 /\ r[1] = e
        /\ \A i \in 1..Len(q) : r[i + 1] = q[i]
        /\ \A i \in 1..Len(r) : i = 1 \/ (i - 1 \in 1..Len(q) /\ r[i] = q[i - 1])
    OBVIOUS
  <1>2. Len(q) \in Nat
    OBVIOUS
  <1> HIDE DEF r
  <1>3. ToSet(r) \subseteq ToSet(q) \cup {e}
    <2> SUFFICES ASSUME NEW x \in ToSet(r) PROVE x \in ToSet(q) \cup {e}
      OBVIOUS
    <2>1. PICK i \in 1..Len(r) : x = r[i]
      BY <1>1, Elements
    <2> QED
      BY <1>1, <2>1, Elements
  <1>4. ToSet(q) \subseteq ToSet(r)
    <2> SUFFICES ASSUME NEW x \in ToSet(q) PROVE x \in ToSet(r)
      OBVIOUS
    <2>1. PICK i \in 1..Len(q) : x = q[i]
      BY Elements
    <2>2. i + 1 \in 1..Len(r) /\ r[i + 1] = x
      BY <1>1, <1>2, <2>1
    <2> QED
      BY <1>1, <2>2, Elements
  <1>5. e \in ToSet(r)
    BY <1>1, <1>2, Elements
  <1> QED
    BY <1>3, <1>4, <1>5, AppendElements DEF r, Push, PushBottom

\* Part of a list.
LEMMA Sublist ==
  ASSUME NEW S, NEW q \in Seq(S), NEW m \in Nat \ {0}, NEW n \in 0..Len(q), m <= n + 1
  PROVE  LET r == SubSeq(q, m, n)
         IN  /\ r \in Seq(S) /\ Len(r) = (n - m) + 1
             /\ \A i \in 1..((n - m) + 1) : r[i] = q[(m + i) - 1]
  <1>1. Len(q) \in Nat /\ \A i \in 1..Len(q) : q[i] \in S
    BY Elements
  <1>2. m \in Int /\ n \in Int /\ m..n \subseteq 1..Len(q)
    BY <1>1
  <1>3. /\ SubSeq(q, m, n) \in Seq(S)
        /\ Len(SubSeq(q, m, n)) = IF m <= n THEN n - m + 1 ELSE 0
        /\ \A i \in 1..(n - m + 1) : SubSeq(q, m, n)[i] = q[m + i - 1]
    BY <1>1, <1>2, SubSeqProperties
  <1>4. (IF m <= n THEN n - m + 1 ELSE 0) = (n - m) + 1
    BY <1>2
  <1> QED
    BY <1>3, <1>4

LEMMA EndsElements ==
  ASSUME NEW S, NEW q \in Seq(S), q # <<>>
  PROVE  /\ ToSet(q) = ToSet(Front(q)) \cup {Last(q)}
         /\ ToSet(q) = {Head(q)} \cup ToSet(Tail(q))
  <1> DEFINE f == Front(q)
             l == Tail(q)
  <1>1. /\ f \in Seq(S) /\ Len(f) = Len(q) - 1 /\ Len(q) \in Nat \ {0} /\ Last(q) = q[Len(q)]
        /\ \A i \in 1..(Len(q) - 1) : f[i] = q[i]
    <2>1. Len(q) \in Nat \ {0} /\ 1 \in Nat \ {0} /\ Len(q) - 1 \in 0..Len(q)
          /\ 1 <= (Len(q) - 1) + 1
      BY EmptySeq
    <2> DEFINE n == Len(q) - 1
    <2> HIDE DEF n
    <2>2. /\ SubSeq(q, 1, n) \in Seq(S)
          /\ Len(SubSeq(q, 1, n)) = (n - 1) + 1
          /\ \A i \in 1..((n - 1) + 1) : SubSeq(q, 1, n)[i] = q[(1 + i) - 1]
      <3>1. n \in 0..Len(q) /\ 1 <= n + 1
        BY <2>1 DEF n
      <3> QED
        BY <2>1, <3>1, Sublist
    <2>3. (n - 1) + 1 = n /\ \A i \in 1..n : (1 + i) - 1 = i
      BY <2>1 DEF n
    <2> QED
      BY <2>1, <2>2, <2>3 DEF Front, Last, n
  <1>2. /\ l \in Seq(S) /\ Len(l) = Len(q) - 1 /\ Head(q) = q[1]
        /\ \A i \in 1..(Len(q) - 1) : l[i] = q[i + 1]
    OBVIOUS
  <1> HIDE DEF f, l
  <1>3. ToSet(f) \subseteq ToSet(q) /\ Last(q) \in ToSet(q)
    <2>1. \A i \in 1..Len(q) : q[i] \in ToSet(q)
      BY Elements
    <2>2. \A x \in ToSet(f) : \E i \in 1..Len(f) : x = f[i]
      BY <1>1, Elements
    <2> QED
      BY <1>1, <2>1, <2>2
  <1>4. ToSet(q) \subseteq ToSet(f) \cup {Last(q)}
    <2> SUFFICES ASSUME NEW x \in ToSet(q) PROVE x \in ToSet(f) \cup {Last(q)}
      OBVIOUS
    <2>1. PICK i \in 1..Len(q) : x = q[i]
      BY Elements
    <2>2. i = Len(q) \/ i \in 1..Len(f)
      BY <1>1
    <2> QED
      BY <1>1, <2>1, <2>2, Elements
  <1>5. ToSet(l) \subseteq ToSet(q) /\ Head(q) \in ToSet(q)
    <2>1. \A i \in 1..Len(l) : i + 1 \in 1..Len(q)
      BY <1>1, <1>2
    <2> QED
      BY <1>1, <1>2, <2>1, Elements
  <1>6. ToSet(q) \subseteq ToSet(l) \cup {Head(q)}
    <2> SUFFICES ASSUME NEW x \in ToSet(q) PROVE x \in ToSet(l) \cup {Head(q)}
      OBVIOUS
    <2>1. PICK i \in 1..Len(q) : x = q[i]
      BY Elements
    <2>2. i = 1 \/ (i - 1 \in 1..Len(l) /\ l[i - 1] = q[i])
      BY <1>1, <1>2
    <2> QED
      BY <1>1, <1>2, <2>1, <2>2, Elements
  <1> QED
    BY <1>3, <1>4, <1>5, <1>6 DEF f, l

LEMMA EmptyElements == ToSet(<<>>) = {}
  BY DEF ToSet

-----------------------------------------------------------------------------
(* The phases of an epoch: the barriers keep the threads in the same one *)

Starting == {"init", "started"}
Running == {"idle", "dispense", "take", "restore", "undo", "check", "extract", "copy",
            "process", "quiet", "done"}
Closing == {"retract", "flush", "commit", "flushed"}
Turning == {"update", "updated"}
Crossing == {"fallback", "ready"}

AllIn(phase) == \A t \in Threads : pc[t] \in phase

Together ==
    AllIn(Starting) \/ AllIn(Running) \/ AllIn(Closing) \/ AllIn(Turning) \/ AllIn(Crossing)

SamePhase(t) ==
    \/ pc[t] \in Starting /\ pc'[t] \in Starting
    \/ pc[t] \in Running /\ pc'[t] \in Running
    \/ pc[t] \in Closing /\ pc'[t] \in Closing
    \/ pc[t] \in Turning /\ pc'[t] \in Turning
    \/ pc[t] \in Crossing /\ pc'[t] \in Crossing

PhasesStay ==
    /\ AllIn(Starting)' <=> AllIn(Starting)
    /\ AllIn(Running)' <=> AllIn(Running)
    /\ AllIn(Closing)' <=> AllIn(Closing)
    /\ AllIn(Turning)' <=> AllIn(Turning)
    /\ AllIn(Crossing)' <=> AllIn(Crossing)

StacksStay(t) == \A u \in Threads \ {t} : object_stack'[u] = object_stack[u]

LEMMA ResumeStack ==
  ASSUME ThreadTypes, NEW t \in Threads, NEW otherwise \in Labels, Resume(t, otherwise)
  PROVE  /\ StacksStay(t)
         /\ \/ /\ pc'[t] = "take" /\ target'[t] \in Objects
               /\ ToSet(object_stack[t]) = ToSet(object_stack'[t]) \cup {target'[t]}
            \/ /\ pc'[t] = otherwise /\ target'[t] = NoObject
               /\ object_stack[t] = <<>> /\ object_stack'[t] = <<>>
  <1>1. CASE object_stack[t] # <<>>
    <2>1. Last(object_stack[t]) \in Objects
          /\ ToSet(object_stack[t]) = ToSet(Front(object_stack[t])) \cup {Last(object_stack[t])}
      BY <1>1, EndsType, EndsElements DEF ThreadTypes
    <2>2. /\ pc' = [pc EXCEPT ![t] = "take"]
          /\ target' = [target EXCEPT ![t] = Last(object_stack[t])]
          /\ object_stack' = [object_stack EXCEPT ![t] = Front(object_stack[t])]
      BY <1>1 DEF Resume, Goto
    <2>3. pc'[t] = "take" /\ target'[t] = Last(object_stack[t])
          /\ object_stack'[t] = Front(object_stack[t])
      BY <2>2 DEF ThreadTypes
    <2> QED
      BY <2>1, <2>2, <2>3 DEF StacksStay, ThreadTypes
  <1>2. CASE object_stack[t] = <<>>
    BY <1>2 DEF Resume, ThreadTypes, Goto, StacksStay
  <1> QED
    BY <1>1, <1>2

\* The rest of an execution of thread t, which is at event e.
LEMMA ContinueMoves ==
  ASSUME IInv, NEW t \in Threads, pc[t] \in {"copy", "process"},
         NEW sends \in Seq(Kinds), Continue(t, sends), model' = model
  PROVE  /\ \A u \in Threads \ {t} : /\ pc'[u] = pc[u] /\ current'[u] = current[u]
                                     /\ event'[u] = event[u] /\ outbox'[u] = outbox[u]
         /\ \/ pc'[t] = "idle"
            \/ pc'[t] = "process" /\ current'[t] = Dest(event[t][1]) /\ event'[t] = event[t]
  BY ContinueEffect DEF IInv, Lists, Continue, Goto, ThreadTypes

\* What a thread is about to do when it executes an event.
LEMMA Executes ==
  ASSUME IInv, NEW t \in Threads, pc[t] \in {"copy", "process"}
  PROVE  /\ event[t] # <<>> /\ event[t][1] \in Events /\ event[t][1].kind \in Kinds
         /\ Dest(event[t][1]) \in Objects /\ Time(event[t][1]) \in Nat \ {0}
         /\ model.next[event[t][1].kind] \in Seq(Kinds)
         /\ pc[t] = "copy" => target[t] = Dest(event[t][1])
         /\ pc[t] = "process" => current[t] = Dest(event[t][1])
         /\ pc[t] = "process" => NextSend(t) \in Kinds /\ Tail(outbox[t]) \in Seq(Kinds)
  <1>1. event[t] # <<>> /\ event[t] \in Seq(Events)
    BY DEF IInv, Held, Holds, ThreadTypes
  <1>2. event[t][1] \in Events
    BY <1>1
  <1>3. /\ event[t][1].kind \in Kinds /\ Dest(event[t][1]) \in Objects
        /\ Time(event[t][1]) \in Nat \ {0} /\ model.next[event[t][1].kind] \in Seq(Kinds)
    BY <1>2, EventTypes, ModelTypes DEF IInv, Lists
  <1>4. pc[t] = "process" => NextSend(t) \in Kinds /\ Tail(outbox[t]) \in Seq(Kinds)
    BY EndsType DEF IInv, Held, Holds, ThreadTypes, NextSend
  <1> QED
    BY <1>1, <1>2, <1>3, <1>4 DEF IInv, Held, Holds

LEMMA SendMoves ==
  ASSUME IInv, NEW t \in Threads, Process(t) \/ SendFiltered(t) \/ SendLater(t) \/ SendNow(t)
  PROVE  /\ pc[t] = IF Process(t) THEN "copy" ELSE "process"
         /\ \A u \in Threads \ {t} : /\ pc'[u] = pc[u] /\ current'[u] = current[u]
                                     /\ event'[u] = event[u] /\ outbox'[u] = outbox[u]
         /\ \/ pc'[t] = "idle"
            \/ pc'[t] = "process" /\ current'[t] = Dest(event[t][1]) /\ event'[t] = event[t]
  <1>1. CASE Process(t)
    <2>1. pc[t] = "copy" /\ Continue(t, model.next[event[t][1].kind]) /\ model' = model
      BY <1>1 DEF Process
    <2>2. model.next[event[t][1].kind] \in Seq(Kinds)
      BY <2>1, Executes
    <2> QED
      BY <1>1, <2>1, <2>2, ContinueMoves
  <1>2. CASE SendFiltered(t) \/ SendLater(t) \/ SendNow(t)
    <2>1. pc[t] = "process" /\ Continue(t, Tail(outbox[t])) /\ model' = model
      BY <1>2 DEF SendFiltered, SendLater, SendNow
    <2>2. ~Process(t)
      BY <2>1 DEF Process
    <2>3. Tail(outbox[t]) \in Seq(Kinds)
      BY <2>1, Executes
    <2> QED
      BY <2>1, <2>2, <2>3, ContinueMoves
  <1> QED
    BY <1>1, <1>2

\* A step moves one thread, which stays in its phase.
LEMMA OneMoves ==
  ASSUME IInv, NEW t \in Threads, Step(t)
  PROVE  OthersStay(t) /\ StacksStay(t) /\ SamePhase(t)
  <1> USE DEF Starting, Running, Closing, Turning, Crossing, SamePhase
  <1>1. CASE InitObject(t) \/ InitSend(t) \/ InitDone(t)
    BY <1>1 DEF IInv, ThreadTypes, OthersStay, StacksStay, InitObject, InitSend, InitDone, Goto, locals
  <1>2. CASE GetEvent(t)
    BY <1>2, ResumeEffect, ResumeStack DEF IInv, ThreadTypes, OthersStay, StacksStay, GetEvent, Goto, Labels
  <1>3. CASE Dispense(t)
    BY <1>3, ResumeEffect, ResumeStack DEF IInv, ThreadTypes, OthersStay, StacksStay, Dispense, Goto, Labels
  <1>4. CASE Release(t)
    BY <1>4, ResumeEffect, ResumeStack DEF IInv, ThreadTypes, OthersStay, StacksStay, Release, Labels
  <1>5. CASE Finish(t) \/ TakenByOther(t) \/ Keep(t) \/ Redo(t)
    BY <1>5 DEF IInv, ThreadTypes, OthersStay, StacksStay, Finish, TakenByOther, Keep, Redo, Goto, locals
  <1>6. CASE Take(t)
    BY <1>6 DEF IInv, ThreadTypes, OthersStay, StacksStay, Take, Goto
  <1>7. CASE Restore(t) \/ Reinsert(t)
    BY <1>7 DEF IInv, ThreadTypes, OthersStay, StacksStay, Restore, Reinsert, Goto, locals
  <1>8. CASE Annihilate(t)
    BY <1>8 DEF IInv, ThreadTypes, OthersStay, StacksStay, Annihilate
  <1>9. CASE Extract(t)
    BY <1>9 DEF IInv, ThreadTypes, OthersStay, StacksStay, Extract, Goto
  <1>10. CASE Process(t) \/ SendFiltered(t) \/ SendLater(t)
    BY <1>10, SendMoves DEF OthersStay, StacksStay, Process, SendFiltered, SendLater
  <1>11. CASE SendNow(t)
    <2>1. OthersStay(t) /\ SamePhase(t)
      BY <1>11, SendMoves DEF OthersStay, SendNow, IInv, ThreadTypes
    <2>2. StacksStay(t)
      BY <1>11 DEF StacksStay, SendNow, IInv, ThreadTypes
    <2> QED
      BY <2>1, <2>2
  <1>12. CASE ReadFreed(t)
    BY <1>12 DEF OthersStay, StacksStay, ReadFreed, locals
  <1>13. CASE Retract(t) \/ Flush(t) \/ Checkpoint(t) \/ FlushDone(t)
    BY <1>13 DEF IInv, ThreadTypes, OthersStay, StacksStay, Retract, Flush, Checkpoint, FlushDone,
                 Goto, locals
  <1>14. CASE Commit(t) \/ UpdateTiming(t) \/ FallbackInsert(t) \/ FallbackDone(t)
    BY <1>14 DEF IInv, ThreadTypes, OthersStay, StacksStay, Commit, UpdateTiming, FallbackInsert,
                 FallbackDone, Goto, locals
  <1> QED
    BY <1>1, <1>2, <1>3, <1>4, <1>5, <1>6, <1>7, <1>8, <1>9, <1>10, <1>11, <1>12, <1>13, <1>14
       DEF Step

LEMMA PhaseKept ==
  ASSUME NEW t \in Threads, OthersStay(t), SamePhase(t), Together
  PROVE  Together' /\ PhasesStay
  BY DEF OthersStay, SamePhase, Together, PhasesStay, AllIn, Starting, Running, Closing, Turning,
         Crossing

-----------------------------------------------------------------------------
(* A busy object is in somebody's hands *)

Has(t, o) == Runs(t, o) \/ target[t] = o \/ o \in ToSet(object_stack[t])

\* What a thread has in its hands at each point of its program: nothing at the
\* barriers, and while it executes, the object it executes.
Hands(t) ==
    /\ pc[t] \in {"init", "started", "dispense", "quiet", "done", "ready"} => target[t] = NoObject
    /\ pc[t] \notin Running \ {"quiet"} => object_stack[t] = <<>>
    /\ pc[t] = "process" => \/ target[t] = current[t]
                            \/ target[t] = NoObject /\ current[t] \in ToSet(object_stack[t])

NoneBusy == ~AllIn(Running) => \A o \in Objects : speculation[o].the_state = "FREE"

Owned == \A o \in Objects : speculation[o].the_state = "BUSY" => speculation[o].owner \in Threads

Ownership ==
    /\ Together
    /\ \A t \in Threads : Hands(t)
    /\ NoneBusy /\ Owned /\ BusyIsHeld

\* An object that is busy after a step of thread t is in the hands of t, or
\* was in those of another thread.
Kept(t) ==
    \A o \in Objects : speculation'[o].the_state = "BUSY" =>
        \/ speculation'[o].owner = t /\ Has(t, o)'
        \/ /\ speculation[o].the_state = "BUSY" /\ speculation[o].owner # t
           /\ speculation'[o].owner = speculation[o].owner

LEMMA OwnershipKept ==
  ASSUME IInv, Ownership, NEW t \in Threads, Step(t), Hands(t)', Kept(t),
         pc[t] \notin Running => \A o \in Objects : speculation'[o].the_state = "FREE"
  PROVE  Ownership'
  <1>1. OthersStay(t) /\ StacksStay(t) /\ SamePhase(t)
    BY OneMoves
  <1>2. Together' /\ PhasesStay
    BY <1>1, PhaseKept DEF Ownership
  <1>3. \A u \in Threads : Hands(u)'
    BY <1>1 DEF Ownership, Hands, OthersStay, StacksStay
  <1>4. NoneBusy'
    <2>1. CASE pc[t] \in Running
      <3>1. AllIn(Running)
        BY <2>1 DEF Ownership, Together, AllIn, Starting, Running, Closing, Turning, Crossing
      <3> QED
        BY <1>2, <3>1 DEF PhasesStay, NoneBusy
    <2> QED
      BY <2>1 DEF NoneBusy
  <1>5. Owned'
    BY DEF Ownership, Owned, Kept
  <1>6. BusyIsHeld'
    <2> SUFFICES ASSUME NEW o \in Objects, speculation'[o].the_state = "BUSY"
                 PROVE  Has(speculation[o].owner, o)'
      BY DEF BusyIsHeld, Has
    <2>1. CASE speculation'[o].owner = t /\ Has(t, o)'
      BY <2>1
    <2>2. CASE /\ speculation[o].the_state = "BUSY" /\ speculation[o].owner # t
               /\ speculation'[o].owner = speculation[o].owner
      <3> DEFINE u == speculation[o].owner
      <3>1. u \in Threads \ {t} /\ Has(u, o)
        BY <2>2 DEF Ownership, Owned, BusyIsHeld, Has
      <3>2. Has(u, o)'
        BY <1>1, <2>2, <3>1 DEF Has, Runs, OthersStay, StacksStay
      <3> QED
        BY <2>2, <3>2
    <2> QED
      BY <2>1, <2>2 DEF Kept
  <1> QED
    BY <1>2, <1>3, <1>4, <1>5, <1>6 DEF Ownership

\* Steps that change no owner.
LEMMA KeptUnchanged ==
  ASSUME IInv, Ownership, NEW t \in Threads, UNCHANGED speculation,
         pc[t] \in Running => \A o \in Objects : Has(t, o) => Has(t, o)'
  PROVE  /\ Kept(t)
         /\ pc[t] \notin Running => \A o \in Objects : speculation'[o].the_state = "FREE"
  <1>1. CASE pc[t] \notin Running
    BY <1>1 DEF Ownership, NoneBusy, AllIn, Kept
  <1>2. CASE pc[t] \in Running
    BY <1>2 DEF Ownership, Owned, BusyIsHeld, Kept, Has
  <1> QED
    BY <1>1, <1>2

\* Outside the execution of events, only Flush touches the status of objects.
LEMMA OwnershipAtRest ==
  ASSUME IInv, Ownership, NEW t \in Threads,
         \/ InitObject(t) \/ InitSend(t) \/ InitDone(t) \/ Retract(t) \/ Commit(t) \/ Checkpoint(t)
         \/ FlushDone(t) \/ UpdateTiming(t) \/ FallbackInsert(t) \/ FallbackDone(t)
  PROVE  Ownership'
  <1>1. UNCHANGED speculation /\ pc[t] \notin Running /\ Step(t)
    BY DEF InitObject, InitSend, InitDone, Retract, Commit, Checkpoint, FlushDone, UpdateTiming,
           FallbackInsert, FallbackDone, objects, Running, Step
  <1>2. Hands(t)'
    BY DEF InitObject, InitSend, InitDone, Retract, Commit, Checkpoint, FlushDone, UpdateTiming,
           FallbackInsert, FallbackDone, Running, Hands, Ownership, IInv, ThreadTypes, Goto, locals
  <1> QED
    BY <1>1, <1>2, KeptUnchanged, OwnershipKept

LEMMA OwnershipFlush ==
  ASSUME IInv, Ownership, NEW t \in Threads, Flush(t)
  PROVE  Ownership'
  <1> DEFINE o == shadow_object_identifiers
  <1>1. /\ pc[t] = "flush" /\ o \in Objects
        /\ speculation' = [speculation EXCEPT ![o] =
                [Released(speculation[o]) EXCEPT !.causality_violation_time = 0,
                                    !.standing_rollback = FALSE, !.already_taken = FALSE]]
    BY ConstantsAssumption DEF Flush, IInv, CounterTypes, Objects
  <1>2. speculation[o] \in Statuses
    BY <1>1 DEF IInv, ObjectTypes
  <1>3. \A p \in Objects : speculation[p].the_state = "FREE"
    BY <1>1 DEF Ownership, NoneBusy, AllIn, Running
  <1> HIDE DEF o
  <1>4. \A p \in Objects : speculation'[p].the_state = "FREE"
    BY <1>1, <1>2, <1>3 DEF Released, Statuses, IInv, ObjectTypes
  <1>5. Hands(t)'
    BY DEF Flush, Running, Hands, Ownership, IInv, ThreadTypes, Goto
  <1> QED
    BY <1>4, <1>5, OwnershipKept DEF Kept, Step

LEMMA OwnershipSamePlace ==
  ASSUME IInv, Ownership, NEW t \in Threads,
         Restore(t) \/ Reinsert(t) \/ Keep(t) \/ Redo(t) \/ Finish(t) \/ ReadFreed(t)
  PROVE  Ownership'
  <1>1. /\ UNCHANGED <<speculation, target, object_stack, current>>
        /\ Step(t)
    BY DEF Restore, Reinsert, Keep, Redo, Finish, ReadFreed, objects, locals, Step
  <1>2. pc[t] \in Running /\ pc'[t] \in Running \ {"quiet", "process"}
        /\ (pc'[t] \in {"dispense", "done"} => pc[t] = "dispense")
    BY DEF Restore, Reinsert, Keep, Redo, Finish, ReadFreed, Goto, Running, IInv, ThreadTypes
  <1>3. Hands(t)'
    BY <1>1, <1>2 DEF Hands, Ownership, Running
  <1>4. \A o \in Objects : Has(t, o) => Has(t, o)'
    <2>1. pc[t] # "process"
      BY DEF Restore, Reinsert, Keep, Redo, Finish, ReadFreed
    <2> QED
      BY <1>1, <2>1 DEF Has, Runs
  <1> QED
    BY <1>1, <1>3, <1>4, KeptUnchanged, OwnershipKept

\* An object passes from the stack to the hands of the thread.
LEMMA OwnershipResume ==
  ASSUME IInv, Ownership, NEW t \in Threads, GetEvent(t) \/ Dispense(t) \/ Release(t)
  PROVE  Ownership'
  <1>1. CASE GetEvent(t) /\ target[t] # NoObject
    <2>1. /\ UNCHANGED <<speculation, target, object_stack, current>>
          /\ pc[t] = "idle" /\ pc'[t] = "take"
      BY <1>1 DEF GetEvent, Goto, objects, IInv, ThreadTypes
    <2>2. Hands(t)' /\ \A o \in Objects : Has(t, o) => Has(t, o)'
      BY <2>1 DEF Hands, Has, Runs, Running
    <2> QED
      BY <1>1, <2>1, <2>2, KeptUnchanged, OwnershipKept DEF Step
  <1>2. CASE GetEvent(t) /\ target[t] = NoObject
    <2>1. /\ UNCHANGED speculation /\ pc[t] = "idle" /\ Resume(t, "dispense")
      BY <1>2 DEF GetEvent, objects
    <2>2. /\ \/ /\ pc'[t] = "take"
                /\ ToSet(object_stack[t]) = ToSet(object_stack'[t]) \cup {target'[t]}
             \/ /\ pc'[t] = "dispense" /\ target'[t] = NoObject
                /\ object_stack[t] = <<>> /\ object_stack'[t] = <<>>
      BY <2>1, ResumeStack DEF IInv, Labels
    <2>3. Hands(t)'
      BY <2>2 DEF Hands, Running
    <2>4. \A o \in Objects : Has(t, o) => Has(t, o)'
      BY <1>2, <2>1, <2>2, ConstantTypes DEF Has, Runs
    <2> QED
      BY <1>2, <2>1, <2>3, <2>4, KeptUnchanged, OwnershipKept DEF Step
  <1>3. CASE Dispense(t) /\ object_identifiers < OBJECTS
    <2>1. /\ UNCHANGED <<speculation, object_stack, current>> /\ pc[t] = "dispense" /\ pc'[t] = "take"
      BY <1>3 DEF Dispense, Goto, objects, IInv, ThreadTypes
    <2>2. target[t] = NoObject
      BY <2>1 DEF Ownership, Hands
    <2>3. Hands(t)' /\ \A o \in Objects : Has(t, o) => Has(t, o)'
      BY <2>1, <2>2, ConstantTypes DEF Hands, Has, Runs, Running
    <2> QED
      BY <1>3, <2>1, <2>3, KeptUnchanged, OwnershipKept DEF Step
  <1>4. CASE Dispense(t) /\ ~(object_identifiers < OBJECTS)
    <2>1. /\ UNCHANGED speculation /\ pc[t] = "dispense" /\ Resume(t, "quiet")
      BY <1>4 DEF Dispense, objects
    <2>2. /\ \/ /\ pc'[t] = "take"
                /\ ToSet(object_stack[t]) = ToSet(object_stack'[t]) \cup {target'[t]}
             \/ /\ pc'[t] = "quiet" /\ target'[t] = NoObject
                /\ object_stack[t] = <<>> /\ object_stack'[t] = <<>>
      BY <2>1, ResumeStack DEF IInv, Labels
    <2>3. Hands(t)'
      BY <2>2 DEF Hands, Running
    <2>4. target[t] = NoObject
      BY <2>1 DEF Ownership, Hands
    <2>5. \A o \in Objects : Has(t, o) => Has(t, o)'
      BY <2>1, <2>2, <2>4, ConstantTypes DEF Has, Runs
    <2> QED
      BY <1>4, <2>1, <2>3, <2>5, KeptUnchanged, OwnershipKept DEF Step
  <1>5. CASE Release(t)
    <2> DEFINE o == target[t]
    <2>1. /\ pc[t] = "check" /\ Resume(t, "dispense") /\ Step(t)
          /\ speculation' = [speculation EXCEPT ![o] = Released(speculation[o])]
      BY <1>5 DEF Release, Step
    <2>2. /\ \/ /\ pc'[t] = "take"
                /\ ToSet(object_stack[t]) = ToSet(object_stack'[t]) \cup {target'[t]}
             \/ /\ pc'[t] = "dispense" /\ target'[t] = NoObject
                /\ object_stack[t] = <<>> /\ object_stack'[t] = <<>>
      BY <2>1, ResumeStack DEF IInv, Labels
    <2>3. Hands(t)'
      BY <2>2 DEF Hands, Running
    <2>4. o \in Objects /\ speculation[o] \in Statuses
      BY <2>1 DEF IInv, Held, Holds, ObjectTypes
    <2>5. speculation'[o].the_state = "FREE" /\ \A p \in Objects \ {o} : speculation'[p] = speculation[p]
      BY <2>1, <2>4 DEF Released, Statuses, IInv, ObjectTypes
    <2>6. \A p \in Objects \ {o} : Has(t, p) => Has(t, p)'
      BY <2>1, <2>2 DEF Has, Runs
    <2>7. Kept(t)
      BY <2>4, <2>5, <2>6 DEF Kept, Ownership, Owned, BusyIsHeld, Has
    <2> QED
      BY <2>1, <2>3, <2>7, OwnershipKept DEF Running
  <1> QED
    BY <1>1, <1>2, <1>3, <1>4, <1>5 DEF GetEvent, Dispense

\* A thread gives up only the claim to an object that another thread has.
LEMMA OwnershipTakenByOther ==
  ASSUME IInv, Ownership, NEW t \in Threads, TakenByOther(t)
  PROVE  Ownership'
  <1> DEFINE o == target[t]
  <1>1. /\ pc[t] = "take" /\ UNCHANGED <<speculation, object_stack, current>> /\ Step(t)
        /\ pc'[t] = "dispense" /\ target'[t] = NoObject /\ ~Mine(t, o)
    BY DEF TakenByOther, objects, IInv, ThreadTypes, Goto, Step
  <1>2. speculation[o].owner # t
    BY <1>1 DEF Mine
  <1>3. Hands(t)'
    BY <1>1 DEF Hands, Running
  <1>4. \A p \in Objects \ {o} : Has(t, p) => Has(t, p)'
    BY <1>1 DEF Has, Runs
  <1>5. Kept(t)
    BY <1>1, <1>2, <1>4 DEF Kept, Ownership, Owned, BusyIsHeld, Has
  <1> QED
    BY <1>1, <1>3, <1>5, OwnershipKept DEF Running

\* What Take does to the status of the object.
LEMMA TakeStatus ==
  ASSUME IInv, NEW t \in Threads, Take(t)
  PROVE  LET o == target[t] IN
         /\ pc[t] = "take" /\ o \in Objects /\ Mine(t, o)
         /\ \A p \in Objects \ {o} : speculation'[p] = speculation[p]
         /\ speculation'[o].the_state = "BUSY" /\ speculation'[o].owner = t
         /\ ~speculation'[o].standing_rollback /\ speculation'[o].already_taken
         /\ \/ /\ ~speculation[o].standing_rollback /\ pc'[t] = "check"
               /\ speculation'[o].current_time = speculation[o].current_time
               /\ UNCHANGED filter_message
            \/ /\ speculation[o].standing_rollback
               /\ speculation'[o].current_time = current_min_limit
               /\ pc'[t] = IF speculation[o].causality_violation_time > 0 THEN "restore" ELSE "check"
               /\ rollback_time'[t] = speculation[o].causality_violation_time
               /\ filter_message' = [filter_message EXCEPT ![o] =
                                       speculation[o].causality_violation_time - Epsilon]
  <1> DEFINE o == target[t]
             s == Claimed(speculation[o], t)
  <1>1. pc[t] = "take" /\ o \in Objects /\ Mine(t, o) /\ speculation[o] \in Statuses
    BY DEF Take, IInv, Held, Holds, ObjectTypes
  <1>2. /\ s \in Statuses /\ s.the_state = "BUSY" /\ s.owner = t
        /\ s.standing_rollback = speculation[o].standing_rollback
        /\ s.causality_violation_time = speculation[o].causality_violation_time
        /\ s.current_time = speculation[o].current_time
    BY <1>1 DEF Claimed, Statuses
  <1> HIDE DEF s
  <1>3. CASE s.standing_rollback
    <2>1. /\ speculation' = [speculation EXCEPT ![o] = [Accepted(s) EXCEPT !.already_taken = TRUE]]
          /\ filter_message' = [filter_message EXCEPT ![o] = s.causality_violation_time - Epsilon]
          /\ rollback_time' = [rollback_time EXCEPT ![t] = s.causality_violation_time]
          /\ Goto(t, IF s.causality_violation_time > 0 THEN "restore" ELSE "check")
      BY <1>3 DEF Take, s
    <2> QED
      BY <1>1, <1>2, <1>3, <2>1 DEF Accepted, Statuses, Goto, IInv, ObjectTypes, ThreadTypes
  <1>4. CASE ~s.standing_rollback
    <2>1. /\ speculation' = [speculation EXCEPT ![o] = [s EXCEPT !.already_taken = TRUE]]
          /\ Goto(t, "check") /\ UNCHANGED filter_message
      BY <1>4 DEF Take, s
    <2> QED
      BY <1>1, <1>2, <1>4, <2>1 DEF Statuses, Goto, IInv, ObjectTypes, ThreadTypes
  <1> QED
    BY <1>3, <1>4

LEMMA OwnershipTake ==
  ASSUME IInv, Ownership, NEW t \in Threads, Take(t)
  PROVE  Ownership'
  <1> DEFINE o == target[t]
  <1>1. UNCHANGED <<target, object_stack, current>> /\ pc'[t] \in {"check", "restore"} /\ Step(t)
        /\ pc[t] = "take"
    BY TakeStatus DEF Take, Step
  <1>2. Hands(t)'
    BY <1>1 DEF Hands, Running
  <1>3. \A p \in Objects : Has(t, p) => Has(t, p)'
    BY <1>1 DEF Has, Runs
  <1>4. Has(t, o)'
    BY <1>1 DEF Has
  <1>5. Kept(t)
    BY <1>3, <1>4, TakeStatus DEF Kept, Ownership, Owned, BusyIsHeld, Has
  <1> QED
    BY <1>1, <1>2, <1>5, OwnershipKept DEF Running

LEMMA OwnershipExtract ==
  ASSUME IInv, Ownership, NEW t \in Threads, Extract(t)
  PROVE  Ownership'
  <1>1. /\ UNCHANGED <<target, object_stack, current>> /\ pc'[t] = "copy" /\ Step(t)
        /\ pc[t] = "extract" /\ target[t] \in Objects
        /\ \E time : speculation' = [speculation EXCEPT ![target[t]].current_time = time]
    BY DEF Extract, IInv, Held, Holds, ThreadTypes, Goto, Step
  <1>2. Hands(t)'
    BY <1>1 DEF Hands, Running
  <1>3. \A p \in Objects : Has(t, p) => Has(t, p)'
    BY <1>1 DEF Has, Runs
  <1>4. \A p \in Objects : /\ speculation'[p].the_state = speculation[p].the_state
                           /\ speculation'[p].owner = speculation[p].owner
    BY <1>1 DEF IInv, ObjectTypes, Statuses
  <1>5. Kept(t)
    BY <1>3, <1>4 DEF Kept, Ownership, Owned, BusyIsHeld, Has
  <1> QED
    BY <1>1, <1>2, <1>5, OwnershipKept DEF Running

\* The object of an execution stays in the hands of the thread afterwards.
LEMMA OwnershipExecute ==
  ASSUME IInv, Ownership, NEW t \in Threads, Process(t) \/ SendFiltered(t) \/ SendLater(t)
  PROVE  Ownership'
  <1> DEFINE d == Dest(event[t][1])
  <1>1. UNCHANGED <<speculation, target, object_stack>> /\ Step(t) /\ pc[t] \in {"copy", "process"}
    BY DEF Process, SendFiltered, SendLater, objects, Step
  <1>2. pc'[t] = "idle" \/ (pc'[t] = "process" /\ current'[t] = d)
    BY SendMoves
  <1>3. target[t] = d \/ (target[t] = NoObject /\ d \in ToSet(object_stack[t]))
    BY <1>1, Executes DEF Ownership, Hands
  <1>4. Hands(t)'
    BY <1>1, <1>2, <1>3 DEF Hands, Running
  <1>5. \A p \in Objects : Has(t, p) => Has(t, p)'
    BY <1>1, <1>3, Executes DEF Has, Runs
  <1> QED
    BY <1>1, <1>4, <1>5, KeptUnchanged, OwnershipKept

\* What Annihilate does: the receiver d of event e must roll back, and thread t
\* claims it if nobody has it and nobody has been told to roll it back.
LEMMA AnnihilateEffect ==
  ASSUME IInv, NEW t \in Threads, Annihilate(t)
  PROVE  LET o == target[t]
             x == Last(log_queue[o])
             e == x.event
             d == Dest(e)
             claim == ~speculation[d].standing_rollback /\ speculation[d].the_state = "FREE"
         IN  /\ pc[t] = "undo" /\ o \in Objects /\ log_queue[o] # <<>> /\ x \in Sends
             /\ e \in Events /\ d \in Objects /\ SlotOf(e) \in Slots
             /\ x.send_time >= rollback_time[t]
             /\ log_queue' = [log_queue EXCEPT ![o] = Front(log_queue[o])]
             /\ \A p \in Objects \ {d} : speculation'[p] = speculation[p]
             /\ speculation'[d].standing_rollback
             /\ \/ speculation'[d].causality_violation_time = Time(e)
                \/ /\ speculation[d].standing_rollback
                   /\ speculation'[d].causality_violation_time = speculation[d].causality_violation_time
             /\ speculation'[d].current_time = speculation[d].current_time
             /\ IF claim
                THEN /\ speculation'[d].the_state = "BUSY" /\ speculation'[d].owner = t
                     /\ object_stack'[t] = Push(object_stack[t], d)
                ELSE /\ speculation'[d].the_state = speculation[d].the_state
                     /\ speculation'[d].owner = speculation[d].owner
                     /\ object_stack'[t] = object_stack[t]
             /\ queue' = [queue EXCEPT ![d][SlotOf(e)] = Without(queue[d][SlotOf(e)], e)]
             /\ retractable_queue' = [retractable_queue EXCEPT ![d] = Without(retractable_queue[d], e)]
  <1> DEFINE o == target[t]
             x == Last(log_queue[o])
             e == x.event
             d == Dest(e)
             s == Violated(speculation[d], Time(e))
             claim == ~speculation[d].standing_rollback /\ s.the_state = "FREE"
  <1>1. pc[t] = "undo" /\ o \in Objects /\ log_queue[o] \in Seq(Sends)
    BY DEF Annihilate, IInv, Held, Holds, Lists, QueueTypes
  <1>2. log_queue[o] # <<>> /\ x.send_time >= rollback_time[t]
    BY DEF Annihilate, MustUndo
  <1>3. x \in Sends
    BY <1>1, <1>2, EndsType
  <1>4. e \in Events
    BY <1>3 DEF Sends
  <1>5. d \in Objects /\ Time(e) \in Nat \ {0} /\ SlotOf(e) \in Slots
    BY <1>4, EventTypes, SlotTypes DEF IInv, Lists
  <1>6. speculation[d] \in Statuses
    BY <1>5 DEF IInv, ObjectTypes
  <1>7. /\ s \in Statuses /\ s.the_state = speculation[d].the_state /\ s.owner = speculation[d].owner
        /\ s.standing_rollback /\ s.current_time = speculation[d].current_time
        /\ \/ s.causality_violation_time = Time(e)
           \/ /\ speculation[d].standing_rollback
              /\ s.causality_violation_time = speculation[d].causality_violation_time
    BY <1>5, <1>6 DEF Violated, Statuses
  <1>8. /\ log_queue' = [log_queue EXCEPT ![o] = Front(log_queue[o])]
        /\ speculation' = [speculation EXCEPT ![d] = IF claim THEN Claimed(s, t) ELSE s]
        /\ object_stack' = [object_stack EXCEPT ![t] = IF claim THEN Push(object_stack[t], d)
                                                       ELSE object_stack[t]]
        /\ queue' = [queue EXCEPT ![d][SlotOf(e)] = Without(queue[d][SlotOf(e)], e)]
        /\ retractable_queue' = [retractable_queue EXCEPT ![d] = Without(retractable_queue[d], e)]
    BY DEF Annihilate
  <1> HIDE DEF s, e
  <1>9. /\ \A p \in Objects \ {d} : speculation'[p] = speculation[p]
        /\ speculation'[d] = IF claim THEN Claimed(s, t) ELSE s
        /\ object_stack'[t] = IF claim THEN Push(object_stack[t], d) ELSE object_stack[t]
    BY <1>5, <1>8 DEF IInv, ObjectTypes, ThreadTypes
  <1>10. /\ speculation'[d].standing_rollback
         /\ speculation'[d].causality_violation_time = s.causality_violation_time
         /\ speculation'[d].current_time = speculation[d].current_time
         /\ claim => speculation'[d].the_state = "BUSY" /\ speculation'[d].owner = t
    BY <1>7, <1>9 DEF Claimed, Statuses
  <1> QED
    BY <1>1, <1>2, <1>3, <1>4, <1>5, <1>7, <1>8, <1>9, <1>10 DEF e

LEMMA OwnershipAnnihilate ==
  ASSUME IInv, Ownership, NEW t \in Threads, Annihilate(t)
  PROVE  Ownership'
  <1> DEFINE d == Dest(Last(log_queue[target[t]]).event)
  <1>1. /\ UNCHANGED <<pc, target, current>> /\ Step(t) /\ pc[t] = "undo"
    BY DEF Annihilate, Step
  <1>2. d \in Objects /\ object_stack[t] \in Seq(Objects)
    BY AnnihilateEffect DEF IInv, ThreadTypes
  <1>3. /\ \A p \in Objects \ {d} : speculation'[p] = speculation[p]
        /\ \/ /\ speculation'[d].the_state = "BUSY" /\ speculation'[d].owner = t
              /\ ToSet(object_stack'[t]) = ToSet(object_stack[t]) \cup {d}
           \/ /\ speculation'[d].the_state = speculation[d].the_state
              /\ speculation'[d].owner = speculation[d].owner
              /\ object_stack'[t] = object_stack[t]
    <2>1. /\ \A p \in Objects \ {d} : speculation'[p] = speculation[p]
          /\ \/ /\ speculation'[d].the_state = "BUSY" /\ speculation'[d].owner = t
                /\ object_stack'[t] = Push(object_stack[t], d)
             \/ /\ speculation'[d].the_state = speculation[d].the_state
                /\ speculation'[d].owner = speculation[d].owner
                /\ object_stack'[t] = object_stack[t]
      BY AnnihilateEffect
    <2>2. ToSet(Push(object_stack[t], d)) = ToSet(object_stack[t]) \cup {d}
      BY <1>2, PushElements
    <2> QED
      BY <2>1, <2>2
  <1> HIDE DEF d
  <1>4. Hands(t)'
    BY <1>1 DEF Hands, Running
  <1>5. \A p \in Objects : Has(t, p) => Has(t, p)'
    BY <1>1, <1>3 DEF Has, Runs
  <1>6. Kept(t)
    BY <1>2, <1>3, <1>5 DEF Kept, Ownership, Owned, BusyIsHeld, Has
  <1> QED
    BY <1>1, <1>4, <1>6, OwnershipKept DEF Running

\* What SendNow does. A straggler makes the receiver roll back; thread t claims
\* the receiver, by its stack, only if it is free.
LEMMA SendNowEffect ==
  ASSUME IInv, NEW t \in Threads, SendNow(t)
  PROVE  LET o == current[t]
             d == model.dest[NextSend(t)]
             time == model.time[NextSend(t)]
             straggler == IsStraggler(d, time)
         IN  /\ pc[t] = "process" /\ o = Dest(event[t][1]) /\ o \in Objects /\ d \in Objects
             /\ time \in Nat \ {0} /\ ~Suppressed(t) /\ time < EpochLimit
             /\ \E c \in Copies :
                   LET e == [kind |-> NextSend(t), copy |-> c]
                   IN  /\ e \in Events /\ IsFresh(e) /\ Insert(e)
                       /\ log_queue' = [log_queue EXCEPT ![o] = Append(log_queue[o],
                             [event |-> e, send_time |-> Time(event[t][1])])]
             /\ \A p \in Objects \ {d} : speculation'[p] = speculation[p]
             /\ speculation'[d].current_time = speculation[d].current_time
             /\ IF straggler
                THEN /\ speculation'[d].standing_rollback
                     /\ \/ speculation'[d].causality_violation_time = time
                        \/ /\ speculation[d].standing_rollback
                           /\ speculation'[d].causality_violation_time
                                = speculation[d].causality_violation_time
                ELSE /\ speculation'[d].standing_rollback = speculation[d].standing_rollback
                     /\ speculation'[d].causality_violation_time
                          = speculation[d].causality_violation_time
             /\ \/ /\ speculation'[d].the_state = "BUSY" /\ speculation'[d].owner = t
                   /\ d \in ToSet(object_stack'[t]) /\ speculation[d].the_state = "FREE"
                \/ /\ speculation'[d].the_state = speculation[d].the_state
                   /\ speculation'[d].owner = speculation[d].owner
             /\ ToSet(object_stack[t]) \subseteq ToSet(object_stack'[t])
             /\ \/ target'[t] = target[t]
                \/ target'[t] = NoObject /\ o \in ToSet(object_stack'[t])
  <1> DEFINE o == current[t]
             d == model.dest[NextSend(t)]
             time == model.time[NextSend(t)]
             straggler == IsStraggler(d, time)
             free == speculation[d].the_state = "FREE"
             s == IF straggler THEN Violated(speculation[d], time) ELSE speculation[d]
             preempt == straggler /\ free /\ ~speculation[d].standing_rollback
             adopt == ~straggler /\ free /\ speculation[d].already_taken
             stack == IF preempt THEN Push(PushBottom(object_stack[t], o), d)
                      ELSE IF adopt THEN Push(object_stack[t], d) ELSE object_stack[t]
  <1>1. pc[t] = "process"
    BY DEF SendNow
  <1>2. o = Dest(event[t][1]) /\ o \in Objects /\ NextSend(t) \in Kinds
    BY <1>1, Executes
  <1>3. d \in Objects /\ time \in Nat \ {0}
    BY <1>2, ModelTypes DEF IInv, Lists
  <1>4. /\ ~Suppressed(t) /\ time < EpochLimit
        /\ \E c \in Copies :
              LET e == [kind |-> NextSend(t), copy |-> c]
              IN  /\ e \in Events /\ IsFresh(e) /\ Insert(e)
                  /\ log_queue' = [log_queue EXCEPT ![o] = Append(log_queue[o],
                        [event |-> e, send_time |-> Time(event[t][1])])]
    BY <1>2 DEF SendNow, Events
  <1>5. /\ speculation' = [speculation EXCEPT ![d] = IF preempt \/ adopt THEN Claimed(s, t) ELSE s]
        /\ object_stack' = [object_stack EXCEPT ![t] = stack]
        /\ target' = [target EXCEPT ![t] = IF preempt THEN NoObject ELSE target[t]]
    BY DEF SendNow
  <1>6. speculation[d] \in Statuses /\ object_stack[t] \in Seq(Objects)
    BY <1>3 DEF IInv, ObjectTypes, ThreadTypes
  <1>7. /\ s \in Statuses /\ s.the_state = speculation[d].the_state /\ s.owner = speculation[d].owner
        /\ s.current_time = speculation[d].current_time
        /\ IF straggler
           THEN /\ s.standing_rollback
                /\ \/ s.causality_violation_time = time
                   \/ /\ speculation[d].standing_rollback
                      /\ s.causality_violation_time = speculation[d].causality_violation_time
           ELSE s = speculation[d]
    BY <1>3, <1>6 DEF Violated, Statuses
  <1>8. /\ ToSet(object_stack[t]) \subseteq ToSet(stack)
        /\ preempt => o \in ToSet(stack) /\ d \in ToSet(stack)
        /\ adopt => d \in ToSet(stack)
    <2>1. PushBottom(object_stack[t], o) \in Seq(Objects)
      BY <1>2, <1>6, PushType
    <2>2. ToSet(PushBottom(object_stack[t], o)) = ToSet(object_stack[t]) \cup {o}
      BY <1>2, <1>6, PushElements
    <2>3. ToSet(Push(PushBottom(object_stack[t], o), d)) = ToSet(object_stack[t]) \cup {o, d}
      BY <1>3, <2>1, <2>2, PushElements
    <2>4. ToSet(Push(object_stack[t], d)) = ToSet(object_stack[t]) \cup {d}
      BY <1>3, <1>6, PushElements
    <2> QED
      BY <2>3, <2>4
  <1> HIDE DEF s, stack
  <1>9. /\ \A p \in Objects \ {d} : speculation'[p] = speculation[p]
        /\ speculation'[d] = IF preempt \/ adopt THEN Claimed(s, t) ELSE s
        /\ object_stack'[t] = stack
        /\ target'[t] = IF preempt THEN NoObject ELSE target[t]
    BY <1>3, <1>5 DEF IInv, ObjectTypes, ThreadTypes
  <1>10. /\ speculation'[d].current_time = s.current_time
         /\ speculation'[d].standing_rollback = s.standing_rollback
         /\ speculation'[d].causality_violation_time = s.causality_violation_time
         /\ \/ speculation'[d].the_state = "BUSY" /\ speculation'[d].owner = t /\ (preempt \/ adopt)
            \/ speculation'[d].the_state = s.the_state /\ speculation'[d].owner = s.owner
    BY <1>7, <1>9 DEF Claimed, Statuses
  <1> QED
    BY <1>1, <1>2, <1>3, <1>4, <1>7, <1>8, <1>9, <1>10

LEMMA OwnershipSendNow ==
  ASSUME IInv, Ownership, NEW t \in Threads, SendNow(t)
  PROVE  Ownership'
  <1> DEFINE o == current[t]
             d == model.dest[NextSend(t)]
  <1>1. /\ pc[t] = "process" /\ o = Dest(event[t][1]) /\ d \in Objects
        /\ \A p \in Objects \ {d} : speculation'[p] = speculation[p]
        /\ \/ /\ speculation'[d].the_state = "BUSY" /\ speculation'[d].owner = t
              /\ d \in ToSet(object_stack'[t])
           \/ /\ speculation'[d].the_state = speculation[d].the_state
              /\ speculation'[d].owner = speculation[d].owner
        /\ ToSet(object_stack[t]) \subseteq ToSet(object_stack'[t])
        /\ \/ target'[t] = target[t]
           \/ target'[t] = NoObject /\ o \in ToSet(object_stack'[t])
    BY SendNowEffect
  <1>2. pc'[t] = "idle" \/ (pc'[t] = "process" /\ current'[t] = o)
    BY <1>1, SendMoves
  <1>3. target[t] = o \/ (target[t] = NoObject /\ o \in ToSet(object_stack[t]))
    BY <1>1 DEF Ownership, Hands
  <1> HIDE DEF o, d
  <1>4. Hands(t)'
    BY <1>1, <1>2, <1>3 DEF Hands, Running
  <1>5. \A p \in Objects : Has(t, p) => Has(t, p)'
    BY <1>1, <1>2, <1>3, ConstantTypes DEF Has, Runs, o
  <1>6. Kept(t)
    BY <1>1, <1>5 DEF Kept, Ownership, Owned, BusyIsHeld, Has
  <1> QED
    BY <1>1, <1>4, <1>6, OwnershipKept DEF Running, Step

\* At a barrier nobody has anything in hand, so that nothing is busy.
LEMMA OwnershipBarriers ==
  ASSUME IInv, Ownership, Barriers
  PROVE  Ownership'
  <1>1. UNCHANGED <<speculation, target, object_stack, current>>
    BY DEF Barriers, objects, locals
  <1>2. \/ AllIn({"started"}) /\ AllIn({"idle"})'
        \/ AllIn({"quiet"}) /\ AllIn({"retract"})'
        \/ AllIn({"flushed"}) /\ AllIn(Turning)'
        \/ AllIn({"updated"}) /\ AllIn({"fallback"})'
        \/ AllIn({"ready"}) /\ AllIn({"dispense"})'
    BY DEF Barriers, Barrier, AllIn, Turning
  <1>3. Together'
    BY <1>2 DEF Together, AllIn, Starting, Running, Closing, Turning, Crossing
  <1>4. \A t \in Threads : Hands(t)'
    BY <1>1, <1>2 DEF Ownership, Hands, AllIn, Running, Turning
  <1>5. \A o \in Objects : speculation[o].the_state = "FREE"
    <2>1. CASE AllIn({"quiet"})
      <3>1. \A t \in Threads : target[t] = NoObject /\ object_stack[t] = <<>>
        BY <2>1 DEF Ownership, Hands, AllIn, Running
      <3>2. \A o \in Objects : speculation[o].the_state # "BUSY"
        BY <2>1, <3>1, EmptyElements, ConstantTypes
           DEF Ownership, Owned, BusyIsHeld, Runs, AllIn
      <3> QED
        BY <3>2 DEF IInv, ObjectTypes, Statuses
    <2>2. CASE AllIn({"started"}) \/ AllIn({"flushed"}) \/ AllIn({"updated"}) \/ AllIn({"ready"})
      <3>1. Threads # {}
        BY ConstantsAssumption, ConstantTypes
      <3> QED
        BY <2>2, <3>1 DEF Ownership, NoneBusy, AllIn, Running
    <2> QED
      BY <1>2, <2>1, <2>2
  <1> QED
    BY <1>1, <1>3, <1>4, <1>5 DEF Ownership, NoneBusy, Owned, BusyIsHeld

LEMMA OwnershipStep ==
  ASSUME IInv, Ownership, NEW t \in Threads, Step(t)
  PROVE  Ownership'
  BY OwnershipAtRest, OwnershipFlush, OwnershipSamePlace, OwnershipResume,
     OwnershipTakenByOther, OwnershipTake, OwnershipExtract, OwnershipExecute,
     OwnershipAnnihilate, OwnershipSendNow DEF Step

LEMMA OwnershipUnchanged ==
  ASSUME Ownership, UNCHANGED vars
  PROVE  Ownership'
  BY DEF Ownership, Together, AllIn, Hands, NoneBusy, Owned, BusyIsHeld, Runs, vars, locals, objects

LEMMA OwnershipAtFirst == Init => Ownership
  BY DEF Init, Ownership, Together, AllIn, Hands, NoneBusy, Owned, BusyIsHeld, Starting, Running

LEMMA AlwaysOwnership == Spec => [](IInv /\ Ownership)
  <1>1. IInv /\ Ownership /\ [Next]_vars => Ownership'
    BY OwnershipBarriers, OwnershipStep, OwnershipUnchanged DEF Next
  <1> QED
    BY <1>1, OwnershipAtFirst, Invariance, PTL DEF Spec

\* Whatever is claimed, released, handed over or taken in the middle of another
\* object's work, an object that is BUSY is one its registered owner works on or
\* has on its stack: none is claimed and forgotten (queue.c:419-425, 471, 574,
\* 743-760, 948-950).
THEOREM BusyObjectsAreHeld == Spec => []BusyIsHeld
  <1>1. Ownership => BusyIsHeld
    BY DEF Ownership
  <1> QED
    BY <1>1, AlwaysOwnership, PTL

-----------------------------------------------------------------------------
(* Between two epochs, the lists that undo an execution are empty *)

\* The dispensers of the end of an epoch are reset before the next epoch.
Reset ==
    (\A t \in Threads : pc[t] \notin Closing \cup {"update"})
        => retractable_object_identifiers = 0 /\ shadow_object_identifiers = 0

\* A thread goes on when the dispenser has run out.
Counted == \A t \in Threads :
    /\ pc[t] \in {"flush", "commit", "flushed"} => retractable_object_identifiers = OBJECTS
    /\ pc[t] = "flushed" => shadow_object_identifiers = OBJECTS

\* What has been dispensed has been emptied, or is being emptied.
Retracted ==
    AllIn(Closing) => \A o \in Objects :
        o < retractable_object_identifiers => retractable_queue[o] = <<>>

Flushed ==
    AllIn(Closing) => \A o \in Objects :
        o < shadow_object_identifiers =>
            /\ log_queue[o] = <<>>
            /\ history[o] = <<>> \/ \E t \in Threads : pc[t] = "commit" /\ target[t] = o

Fresh ==
    AllIn(Starting) \/ AllIn(Turning) \/ AllIn(Crossing) => \A o \in Objects :
        retractable_queue[o] = <<>> /\ log_queue[o] = <<>> /\ history[o] = <<>>

Cleanup == Reset /\ Counted /\ Retracted /\ Flushed /\ Fresh

LEMMA OnePhase ==
  ASSUME Ownership, NEW t \in Threads
  PROVE  /\ pc[t] \in Starting => AllIn(Starting)
         /\ pc[t] \in Running => AllIn(Running)
         /\ pc[t] \in Closing => AllIn(Closing)
         /\ pc[t] \in Turning => AllIn(Turning)
         /\ pc[t] \in Crossing => AllIn(Crossing)
  BY DEF Ownership, Together, AllIn, Starting, Running, Closing, Turning, Crossing

LEMMA CleanupWhileRunning ==
  ASSUME IInv, Ownership, Cleanup, NEW t \in Threads, Step(t), pc[t] \in Running
  PROVE  Cleanup'
  <1>1. OthersStay(t) /\ SamePhase(t)
    BY OneMoves
  <1>2. AllIn(Running) /\ AllIn(Running)'
    BY <1>1, OnePhase, PhaseKept DEF Ownership, PhasesStay
  <1>3. UNCHANGED <<retractable_object_identifiers, shadow_object_identifiers>>
    BY DEF Step, Running, InitObject, InitSend, InitDone, GetEvent, Dispense, Finish, Take, TakenByOther,
           Restore, Annihilate, Reinsert, Release, Keep, Redo, Extract, Process, ReadFreed,
           SendFiltered, SendLater, SendNow, Retract, Flush, Commit, Checkpoint, FlushDone,
           UpdateTiming, FallbackInsert, FallbackDone, dispensers
  <1> QED
    BY <1>2, <1>3 DEF Cleanup, Reset, Counted, Retracted, Flushed, Fresh, AllIn, Starting, Running,
           Closing, Turning, Crossing

LEMMA CleanupBetween ==
  ASSUME IInv, Ownership, Cleanup, NEW t \in Threads,
         InitObject(t) \/ InitSend(t) \/ InitDone(t) \/ FallbackInsert(t) \/ FallbackDone(t)
  PROVE  Cleanup'
  <1>1. OthersStay(t) /\ SamePhase(t) /\ Together' /\ PhasesStay
    BY OneMoves, PhaseKept DEF Ownership, Step
  <1>2. /\ UNCHANGED <<retractable_queue, log_queue, history, dispensers>>
        /\ pc[t] \in Starting \cup Crossing
    BY DEF InitObject, InitSend, InitDone, FallbackInsert, FallbackDone, queues, objects, Starting,
           Crossing
  <1>3. AllIn(Starting) \/ AllIn(Crossing)
    BY <1>2, OnePhase
  <1>4. AllIn(Starting)' \/ AllIn(Crossing)'
    BY <1>1, <1>3 DEF PhasesStay
  <1> QED
    BY <1>2, <1>3, <1>4 DEF Cleanup, Reset, Counted, Retracted, Flushed, Fresh, AllIn, Starting,
           Closing, Turning, Crossing, dispensers

LEMMA CleanupTurn ==
  ASSUME IInv, Ownership, Cleanup, NEW t \in Threads, UpdateTiming(t)
  PROVE  Cleanup'
  <1>1. OthersStay(t) /\ SamePhase(t) /\ Together' /\ PhasesStay
    BY OneMoves, PhaseKept DEF Ownership, Step
  <1>2. /\ UNCHANGED <<retractable_queue, log_queue, history>> /\ pc[t] \in Turning
        /\ retractable_object_identifiers' = 0 /\ shadow_object_identifiers' = 0
    BY DEF UpdateTiming, queues, objects, Turning
  <1>3. AllIn(Turning) /\ AllIn(Turning)'
    BY <1>1, <1>2, OnePhase DEF PhasesStay
  <1> QED
    BY <1>2, <1>3 DEF Cleanup, Reset, Counted, Retracted, Flushed, Fresh, AllIn, Starting,
           Closing, Turning, Crossing

LEMMA CleanupClose ==
  ASSUME IInv, Ownership, Cleanup, NEW t \in Threads,
         Retract(t) \/ Flush(t) \/ Commit(t) \/ Checkpoint(t) \/ FlushDone(t)
  PROVE  Cleanup'
  <1>1. OthersStay(t) /\ SamePhase(t) /\ Together' /\ PhasesStay
    BY OneMoves, PhaseKept DEF Ownership, Step
  <1>2. pc[t] \in Closing /\ pc'[t] \in Closing
    BY <1>1 DEF Retract, Flush, Commit, Checkpoint, FlushDone, SamePhase, Starting, Running, Closing,
           Turning, Crossing
  <1>3. AllIn(Closing) /\ AllIn(Closing)'
    BY <1>1, <1>2, OnePhase DEF PhasesStay
  <1>4. Reset' /\ Fresh'
    BY <1>3, ConstantTypes, ConstantsAssumption DEF Reset, Fresh, AllIn, Closing, Starting, Turning, Crossing
  <1>5. CASE Retract(t) /\ retractable_object_identifiers < OBJECTS
    <2> DEFINE o == retractable_object_identifiers
    <2>1. /\ o \in Objects /\ retractable_object_identifiers' = o + 1 /\ pc[t] = "retract"
          /\ retractable_queue' = [retractable_queue EXCEPT ![o] = <<>>]
          /\ UNCHANGED <<pc, log_queue, history, target, shadow_object_identifiers>>
      BY <1>5, ConstantsAssumption DEF Retract, IInv, CounterTypes, Objects, objects, locals
    <2>2. Counted' /\ Flushed'
      BY <1>3, <1>5, <2>1, ConstantsAssumption DEF Cleanup, Counted, Flushed
    <2>3. Retracted'
      <3> SUFFICES ASSUME NEW p \in Objects, p < o + 1 PROVE retractable_queue'[p] = <<>>
        BY <2>1 DEF Retracted
      <3>1. p = o \/ p < o
        BY <2>1 DEF Objects
      <3> QED
        BY <1>3, <2>1, <3>1 DEF Cleanup, Retracted, IInv, Lists, QueueTypes
    <2> QED
      BY <1>4, <2>2, <2>3 DEF Cleanup
  <1>6. CASE Retract(t) /\ ~(retractable_object_identifiers < OBJECTS)
    <2>a. retractable_object_identifiers = OBJECTS
      BY <1>6, ConstantsAssumption DEF IInv, CounterTypes
    <2>1. /\ pc[t] = "retract" /\ pc' = [pc EXCEPT ![t] = "flush"]
          /\ UNCHANGED <<retractable_queue, retractable_object_identifiers, log_queue, history,
                         target, shadow_object_identifiers>>
      BY <1>6 DEF Retract, Goto, objects, locals
    <2>2. pc'[t] = "flush"
      BY <2>1 DEF IInv, ThreadTypes
    <2> QED
      BY <1>1, <1>3, <1>4, <2>a, <2>1, <2>2 DEF Cleanup, Counted, Retracted, Flushed, OthersStay
  <1>7. CASE Flush(t)
    <2> DEFINE o == shadow_object_identifiers
    <2>a. /\ shadow_object_identifiers' = o + 1 /\ o < OBJECTS
          /\ log_queue' = [log_queue EXCEPT ![o] = <<>>]
          /\ pc[t] = "flush" /\ pc' = [pc EXCEPT ![t] = "commit"]
          /\ target' = [target EXCEPT ![t] = o]
          /\ UNCHANGED <<retractable_queue, history, retractable_object_identifiers>>
      BY <1>7 DEF Flush, Goto
    <2>b. o \in Objects
      BY <2>a, ConstantsAssumption DEF IInv, CounterTypes, Objects
    <2>1. /\ o \in Objects /\ shadow_object_identifiers' = o + 1 /\ o < OBJECTS
          /\ log_queue' = [log_queue EXCEPT ![o] = <<>>]
          /\ pc[t] = "flush" /\ pc'[t] = "commit" /\ target'[t] = o
          /\ UNCHANGED <<retractable_queue, history, retractable_object_identifiers>>
      BY <2>a, <2>b DEF IInv, ThreadTypes
    <2>2. Counted' /\ Retracted'
      BY <1>1, <1>3, <2>1, ConstantsAssumption DEF Cleanup, Counted, Retracted, OthersStay
    <2>3. Flushed'
      <3> SUFFICES ASSUME NEW p \in Objects, p < o + 1
                   PROVE /\ log_queue'[p] = <<>>
                         /\ history'[p] = <<>> \/ \E u \in Threads : pc'[u] = "commit" /\ target'[u] = p
        BY <2>1 DEF Flushed
      <3>1. CASE p = o
        BY <2>1, <3>1 DEF IInv, Lists, QueueTypes
      <3>2. CASE p # o
        <4>1. p < o
          BY <2>1, <3>2 DEF Objects
        <4>2. /\ log_queue[p] = <<>>
              /\ history[p] = <<>> \/ \E u \in Threads : pc[u] = "commit" /\ target[u] = p
          BY <1>3, <4>1 DEF Cleanup, Flushed
        <4>3. log_queue'[p] = <<>>
          BY <2>1, <4>2 DEF IInv, Lists, QueueTypes
        <4> QED
          BY <1>1, <2>1, <4>2, <4>3 DEF OthersStay
      <3> QED
        BY <3>1, <3>2
    <2> QED
      BY <1>4, <2>2, <2>3 DEF Cleanup
  <1>8. CASE Commit(t)
    BY <1>3, <1>4, <1>8 DEF Commit, Cleanup, Counted, Retracted, Flushed, objects, dispensers, locals
  <1>9. CASE Checkpoint(t)
    <2>1. /\ pc[t] = "commit" /\ pc'[t] = "flush" /\ target'[t] = target[t]
          /\ target[t] \in Objects
          /\ history' = [history EXCEPT ![target[t]] = <<>>]
          /\ UNCHANGED <<retractable_queue, log_queue, retractable_object_identifiers,
                         shadow_object_identifiers>>
      BY <1>9 DEF Checkpoint, IInv, Held, Holds, ThreadTypes, Goto, queues, dispensers, locals
    <2>2. Counted' /\ Retracted'
      BY <1>1, <1>3, <2>1 DEF Cleanup, Counted, Retracted, OthersStay
    <2>3. \A p \in Objects : history'[p] = IF p = target[t] THEN <<>> ELSE history[p]
      BY <2>1 DEF IInv, ObjectTypes
    <2>4. Flushed'
      BY <1>1, <1>3, <2>1, <2>3 DEF Cleanup, Flushed, OthersStay
    <2> QED
      BY <1>4, <2>2, <2>4 DEF Cleanup
  <1>10. CASE FlushDone(t)
    <2>1. /\ pc[t] = "flush" /\ pc'[t] = "flushed" /\ shadow_object_identifiers = OBJECTS
          /\ UNCHANGED <<retractable_queue, retractable_object_identifiers, log_queue, history,
                         target, shadow_object_identifiers>>
      BY <1>10 DEF FlushDone, IInv, ThreadTypes, Goto, objects, queues, dispensers, locals
    <2> QED
      BY <1>1, <1>3, <1>4, <2>1 DEF Cleanup, Counted, Retracted, Flushed, OthersStay
  <1> QED
    BY <1>5, <1>6, <1>7, <1>8, <1>9, <1>10

LEMMA CleanupBarriers ==
  ASSUME IInv, Ownership, Cleanup, Barriers
  PROVE  Cleanup'
  <1>1. UNCHANGED <<retractable_queue, log_queue, history, target, dispensers>> /\ Threads # {}
    BY ConstantsAssumption, ConstantTypes DEF Barriers, queues, objects, locals
  <1>2. CASE AllIn({"started"}) /\ AllIn({"idle"})'
    BY <1>1, <1>2 DEF Cleanup, Reset, Counted, Retracted, Flushed, Fresh, AllIn, Starting,
           Closing, Turning, Crossing, dispensers
  <1>3. CASE AllIn({"quiet"}) /\ AllIn({"retract"})'
    <2>1. retractable_object_identifiers = 0 /\ shadow_object_identifiers = 0
      BY <1>3 DEF Cleanup, Reset, AllIn, Closing
    <2> QED
      BY <1>1, <1>3, <2>1, ConstantTypes
         DEF Cleanup, Reset, Counted, Retracted, Flushed, Fresh, AllIn, Starting,
           Closing, Turning, Crossing, dispensers
  <1>4. CASE /\ AllIn({"flushed"})
             /\ \E w \in Threads : pc' = [t \in Threads |-> IF t = w THEN "update" ELSE "updated"]
    <2>1. retractable_object_identifiers = OBJECTS /\ shadow_object_identifiers = OBJECTS
      BY <1>1, <1>4 DEF Cleanup, Counted, AllIn
    <2>2. \A o \in Objects : o < OBJECTS
      BY ConstantsAssumption DEF Objects
    <2>3. \A o \in Objects : retractable_queue[o] = <<>> /\ log_queue[o] = <<>> /\ history[o] = <<>>
      BY <1>4, <2>1, <2>2 DEF Cleanup, Retracted, Flushed, AllIn, Closing
    <2>4. AllIn(Turning)' /\ \E t \in Threads : pc'[t] = "update"
      BY <1>4 DEF AllIn, Turning
    <2> QED
      BY <1>1, <2>3, <2>4 DEF Cleanup, Reset, Counted, Retracted, Flushed, Fresh, AllIn, Starting,
           Closing, Turning, Crossing, dispensers
  <1>5. CASE AllIn({"updated"}) /\ AllIn({"fallback"})'
    BY <1>1, <1>5 DEF Cleanup, Reset, Counted, Retracted, Flushed, Fresh, AllIn, Starting,
           Closing, Turning, Crossing, dispensers
  <1>6. CASE AllIn({"ready"}) /\ AllIn({"dispense"})'
    BY <1>1, <1>6 DEF Cleanup, Reset, Counted, Retracted, Flushed, Fresh, AllIn, Starting,
           Closing, Turning, Crossing, dispensers
  <1>7. \/ AllIn({"started"}) /\ AllIn({"idle"})'
        \/ AllIn({"quiet"}) /\ AllIn({"retract"})'
        \/ /\ AllIn({"flushed"})
           /\ \E w \in Threads : pc' = [t \in Threads |-> IF t = w THEN "update" ELSE "updated"]
        \/ AllIn({"updated"}) /\ AllIn({"fallback"})'
        \/ AllIn({"ready"}) /\ AllIn({"dispense"})'
    BY DEF Barriers, Barrier, AllIn
  <1> QED
    BY <1>2, <1>3, <1>4, <1>5, <1>6, <1>7

LEMMA CleanupStep ==
  ASSUME IInv, Ownership, Cleanup, NEW t \in Threads, Step(t)
  PROVE  Cleanup'
  <1>1. CASE InitObject(t) \/ InitSend(t) \/ InitDone(t) \/ FallbackInsert(t) \/ FallbackDone(t)
    BY <1>1, CleanupBetween
  <1>2. CASE Retract(t) \/ Flush(t) \/ Commit(t) \/ Checkpoint(t) \/ FlushDone(t)
    BY <1>2, CleanupClose
  <1>3. CASE UpdateTiming(t)
    BY <1>3, CleanupTurn
  <1>4. CASE pc[t] \in Running
    BY <1>4, CleanupWhileRunning
  <1>5. \/ GetEvent(t) \/ Dispense(t) \/ Finish(t) \/ Take(t) \/ TakenByOther(t)
        \/ Restore(t) \/ Annihilate(t) \/ Reinsert(t)
        \/ Release(t) \/ Keep(t) \/ Redo(t) \/ Extract(t)
        \/ Process(t) \/ ReadFreed(t) \/ SendFiltered(t) \/ SendLater(t) \/ SendNow(t)
        => pc[t] \in Running
    BY DEF GetEvent, Dispense, Finish, Take, TakenByOther, Restore, Annihilate, Reinsert, Release,
           Keep, Redo, Extract, Process, ReadFreed, SendFiltered, SendLater, SendNow, Running
  <1> QED
    BY <1>1, <1>2, <1>3, <1>4, <1>5 DEF Step

LEMMA CleanupUnchanged ==
  ASSUME Cleanup, UNCHANGED vars
  PROVE  Cleanup'
  BY DEF Cleanup, Reset, Counted, Retracted, Flushed, Fresh, AllIn, vars, queues, objects, dispensers, locals

LEMMA CleanupAtFirst == Init => Cleanup
  BY ConstantTypes DEF Init, Cleanup, Reset, Counted, Retracted, Flushed, Fresh, AllIn, Closing

-----------------------------------------------------------------------------
(* The list operations keep the order of timestamps *)

LEMMA TimesOf ==
  ASSUME ModelOK, NEW q \in Seq(Events)
  PROVE  /\ Len(q) \in Nat /\ DOMAIN q = 1..Len(q)
         /\ \A i \in 1..Len(q) : q[i] \in Events /\ Time(q[i]) \in Nat
         /\ TimeOrdered(q) => \A i, j \in 1..Len(q) : i <= j => Time(q[i]) <= Time(q[j])
  <1>1. /\ Len(q) \in Nat /\ DOMAIN q = 1..Len(q) /\ \A i \in 1..Len(q) : q[i] \in Events
    BY Elements
  <1>2. \A i \in 1..Len(q) : Time(q[i]) \in Nat
    BY <1>1, EventTypes
  <1>3. ASSUME TimeOrdered(q), NEW i \in 1..Len(q), NEW j \in 1..Len(q), i <= j
        PROVE  Time(q[i]) <= Time(q[j])
    <2>1. CASE i = j
      BY <1>2, <2>1
    <2>2. CASE i < j
      BY <1>1, <1>3, <2>2 DEF TimeOrdered
    <2> QED
      BY <1>1, <1>3, <2>1, <2>2
  <1> QED
    BY <1>1, <1>2, <1>3

\* A list with an element put behind the first n.
Splice(q, e, n) == SubSeq(q, 1, n) \o <<e>> \o SubSeq(q, n + 1, Len(q))

\* r is the sequence q over S with e put behind its first n elements
SplicedAt(r, S, q, e, n) ==
  /\ r \in Seq(S) /\ Len(r) = Len(q) + 1
  /\ \A i \in 1..n : r[i] = q[i]
  /\ r[n + 1] = e
  /\ \A i \in (n + 2)..(Len(q) + 1) : r[i] = q[i - 1]

\* Where InsertInOrder puts an event: behind n events that are not later, in
\* front of one that is.
LEMMA InsertedAt ==
  ASSUME NEW q \in Seq(Events), NEW e \in Events
  PROVE  \E n \in 0..Len(q) :
            /\ InsertInOrder(q, e) = Splice(q, e, n)
            /\ \A i \in 1..n : Time(q[i]) <= Time(e)
            /\ n < Len(q) => ~(Time(q[n + 1]) <= Time(e))
  <1> DEFINE I == {i \in DOMAIN q : \A j \in 1..i : Time(q[j]) <= Time(e)}
             n == Cardinality(I)
  <1>1. Len(q) \in Nat /\ DOMAIN q = 1..Len(q)
    OBVIOUS
  <1>2. IsFiniteSet(I) /\ n \in 0..Len(q)
    BY CountOfIndexes
  <1>3. \A i \in I : i <= n
    <2> SUFFICES ASSUME NEW i \in I PROVE i <= n
      OBVIOUS
    <2>1. 1..i \in SUBSET I
      BY <1>1
    <2>2. Cardinality(1..i) <= n
      BY <2>1, <1>2, FS_Subset
    <2> QED
      BY <2>2, <1>1, IntervalSize
  <1>4. I = 1..n
    <2>1. I \in SUBSET (1..n)
      BY <1>1, <1>2, <1>3
    <2>2. Cardinality(1..n) = Cardinality(I) /\ IsFiniteSet(1..n)
      BY <1>2, IntervalSize
    <2> QED
      BY <2>1, <2>2, FS_Subset
  <1>5. InsertInOrder(q, e) = Splice(q, e, n)
    BY DEF InsertInOrder, Splice
  <1> HIDE DEF n
  <1>6. \A i \in 1..n : Time(q[i]) <= Time(e)
    <2> SUFFICES ASSUME NEW i \in 1..n PROVE Time(q[i]) <= Time(e)
      OBVIOUS
    <2>1. i \in I /\ i \in 1..i
      BY <1>2, <1>4
    <2> QED
      BY <2>1
  <1>7. n < Len(q) => ~(Time(q[n + 1]) <= Time(e))
    <2> SUFFICES ASSUME n < Len(q), Time(q[n + 1]) <= Time(e) PROVE FALSE
      OBVIOUS
    <2>1. n + 1 \in DOMAIN q /\ n + 1 \notin 1..n
      BY <1>1, <1>2
    <2>2. \A j \in 1..(n + 1) : Time(q[j]) <= Time(e)
      BY <1>2, <1>6
    <2>3. n + 1 \in I
      BY <2>1, <2>2
    <2> QED
      BY <2>1, <2>3, <1>4
  <1> QED
    BY <1>2, <1>5, <1>6, <1>7

LEMMA Spliced ==
  ASSUME NEW S, NEW q \in Seq(S), NEW e \in S, NEW n \in 0..Len(q)
  PROVE  SplicedAt(Splice(q, e, n), S, q, e, n)
  <1> DEFINE a == SubSeq(q, 1, n)
             b == SubSeq(q, n + 1, Len(q))
             c == a \o <<e>>
             r == Splice(q, e, n)
  <1>q. Len(q) \in Nat /\ n \in Nat /\ n <= Len(q)
    OBVIOUS
  <1>1. a \in Seq(S) /\ Len(a) = n /\ \A i \in 1..n : a[i] = q[i]
    <2>1. /\ a \in Seq(S) /\ Len(a) = (n - 1) + 1
          /\ \A i \in 1..((n - 1) + 1) : a[i] = q[(1 + i) - 1]
      <3> HIDE DEF a
      <3>1. 1 \in Nat \ {0} /\ n \in 0..Len(q) /\ 1 <= n + 1
        BY <1>q
      <3> QED
        BY <3>1, Sublist DEF a
    <2> HIDE DEF a
    <2> QED
      BY <2>1, <1>q
  <1>2. b \in Seq(S) /\ Len(b) = Len(q) - n /\ \A i \in 1..(Len(q) - n) : b[i] = q[n + i]
    <2>1. /\ b \in Seq(S) /\ Len(b) = (Len(q) - (n + 1)) + 1
          /\ \A i \in 1..((Len(q) - (n + 1)) + 1) : b[i] = q[((n + 1) + i) - 1]
      <3> HIDE DEF b
      <3>1. n + 1 \in Nat \ {0} /\ Len(q) \in 0..Len(q) /\ n + 1 <= Len(q) + 1
        BY <1>q
      <3> QED
        BY <3>1, Sublist DEF b
    <2> HIDE DEF b
    <2>2. /\ (Len(q) - (n + 1)) + 1 = Len(q) - n
          /\ \A i \in 1..(Len(q) - n) : ((n + 1) + i) - 1 = n + i
      BY <1>q
    <2> QED
      BY <2>1, <2>2
  <1>3. c \in Seq(S) /\ Len(c) = n + 1 /\ (\A i \in 1..n : c[i] = q[i]) /\ c[n + 1] = e
    <2> HIDE DEF a
    <2> QED
      BY <1>1, <1>q
  <1>4. r = c \o b
    BY DEF Splice
  <1> HIDE DEF a, b, c, r
  <1>5. r \in Seq(S) /\ Len(r) = Len(q) + 1
    <2>1. r \in Seq(S) /\ Len(r) = Len(c) + Len(b)
      BY <1>2, <1>3, <1>4, ConcatProperties
    <2> QED
      BY <2>1, <1>2, <1>3, <1>q
  <1>6. \A i \in 1..(n + 1) : r[i] = c[i]
    BY <1>2, <1>3, <1>4, <1>q
  <1>7. \A i \in (n + 2)..(Len(q) + 1) : r[i] = b[i - (n + 1)]
    BY <1>2, <1>3, <1>4, <1>q
  <1>8. \A i \in (n + 2)..(Len(q) + 1) :
            i - (n + 1) \in 1..(Len(q) - n) /\ n + (i - (n + 1)) = i - 1
    BY <1>q
  <1>9. \A i \in (n + 2)..(Len(q) + 1) : r[i] = q[i - 1]
    BY <1>2, <1>7, <1>8
  <1>10. (\A i \in 1..n : r[i] = q[i]) /\ r[n + 1] = e
    BY <1>3, <1>6, <1>q
  <1> QED
    BY <1>5, <1>9, <1>10 DEF r, SplicedAt

\* InsertInOrder adds the event and keeps the order.
LEMMA Inserted ==
  ASSUME ModelOK, NEW q \in Seq(Events), NEW e \in Events
  PROVE  /\ ToSet(InsertInOrder(q, e)) = ToSet(q) \cup {e}
         /\ TimeOrdered(q) => TimeOrdered(InsertInOrder(q, e))
  <1> DEFINE r == InsertInOrder(q, e)
  <1>1. PICK n \in 0..Len(q) :
            /\ r = Splice(q, e, n)
            /\ \A i \in 1..n : Time(q[i]) <= Time(e)
            /\ n < Len(q) => ~(Time(q[n + 1]) <= Time(e))
    BY InsertedAt
  <1>2. /\ r \in Seq(Events) /\ Len(r) = Len(q) + 1
        /\ \A i \in 1..n : r[i] = q[i]
        /\ r[n + 1] = e
        /\ \A i \in (n + 2)..(Len(q) + 1) : r[i] = q[i - 1]
    <2>1. SplicedAt(Splice(q, e, n), Events, q, e, n)
      BY Spliced
    <2> HIDE DEF r
    <2> QED
      BY <1>1, <2>1 DEF SplicedAt
  <1>3. Len(q) \in Nat /\ n \in Nat /\ n <= Len(q) /\ Time(e) \in Nat
    BY EventTypes
  <1> HIDE DEF r
  <1>4. \A i \in 1..Len(r) : \/ i \in 1..n /\ i \in 1..Len(q)
                             \/ i = n + 1
                             \/ i \in (n + 2)..(Len(q) + 1) /\ i - 1 \in 1..Len(q) /\ n + 1 <= i - 1
    BY <1>2, <1>3
  <1>5. ToSet(r) \subseteq ToSet(q) \cup {e}
    <2> SUFFICES ASSUME NEW x \in ToSet(r) PROVE x \in ToSet(q) \cup {e}
      OBVIOUS
    <2>1. PICK i \in 1..Len(r) : x = r[i]
      BY <1>2, Elements
    <2> QED
      BY <1>2, <1>4, <2>1, Elements
  <1>6. ToSet(q) \cup {e} \subseteq ToSet(r)
    <2>1. n + 1 \in 1..Len(r)
      BY <1>2, <1>3
    <2>2. ASSUME NEW i \in 1..Len(q) PROVE \E j \in 1..Len(r) : r[j] = q[i]
      <3>1. CASE i \in 1..n
        <4>1. i \in 1..Len(r)
          BY <1>2, <1>3
        <4> QED
          BY <1>2, <3>1, <4>1
      <3>2. CASE i \notin 1..n
        <4>1. i + 1 \in 1..Len(r) /\ i + 1 \in (n + 2)..(Len(q) + 1) /\ (i + 1) - 1 = i
          BY <1>2, <1>3, <3>2
        <4> QED
          BY <1>2, <4>1
      <3> QED
        BY <3>1, <3>2
    <2>3. e \in ToSet(r)
      BY <1>2, <2>1, Elements
    <2>4. ASSUME NEW x \in ToSet(q) PROVE x \in ToSet(r)
      <3>1. PICK i \in 1..Len(q) : x = q[i]
        BY Elements
      <3>2. PICK j \in 1..Len(r) : r[j] = q[i]
        BY <2>2
      <3> QED
        BY <1>2, <3>1, <3>2, Elements
    <2> QED
      BY <2>3, <2>4
  <1>7. ASSUME TimeOrdered(q) PROVE TimeOrdered(r)
    <2>1. /\ \A i \in 1..Len(q) : Time(q[i]) \in Nat
          /\ \A i, j \in 1..Len(q) : i <= j => Time(q[i]) <= Time(q[j])
      BY <1>7, TimesOf
    <2> SUFFICES ASSUME NEW i \in 1..Len(r), NEW j \in 1..Len(r), i < j
                 PROVE  Time(r[i]) <= Time(r[j])
      BY <1>2, Elements DEF TimeOrdered
    <2>2. CASE j \in 1..n
      BY <1>2, <1>3, <1>4, <2>1, <2>2
    <2>3. CASE j = n + 1
      BY <1>1, <1>2, <1>3, <1>4, <2>3
    <2>4. CASE j \in (n + 2)..(Len(q) + 1)
      <3>1. j - 1 \in 1..Len(q) /\ n + 1 \in 1..Len(q) /\ n + 1 <= j - 1 /\ n < Len(q)
        BY <1>3, <2>4
      <3>2. Time(e) <= Time(q[n + 1]) /\ Time(q[n + 1]) <= Time(q[j - 1])
        BY <1>1, <1>3, <2>1, <3>1
      <3>3. Time(q[n + 1]) \in Nat /\ Time(q[j - 1]) \in Nat
        BY <2>1, <3>1
      <3>4. CASE i \in 1..n
        <4>1. i \in 1..Len(q) /\ i <= j - 1
          BY <1>3, <2>4, <3>4
        <4> QED
          BY <1>2, <2>1, <2>4, <3>1, <3>4, <4>1
      <3>5. CASE i = n + 1
        BY <1>2, <1>3, <2>4, <3>2, <3>3, <3>5
      <3>6. CASE i \in (n + 2)..(Len(q) + 1)
        <4>1. i - 1 \in 1..Len(q) /\ i - 1 <= j - 1
          BY <1>3, <2>4, <3>6
        <4> QED
          BY <1>2, <2>1, <2>4, <3>1, <3>6, <4>1
      <3> QED
        BY <1>4, <3>4, <3>5, <3>6
    <2> QED
      BY <1>4, <2>2, <2>3, <2>4
  <1> QED
    BY <1>5, <1>6, <1>7 DEF r

\* Taking the first event and appending the last one keep the order.
LEMMA TailOrdered ==
  ASSUME ModelOK, NEW q \in Seq(Events), q # <<>>, TimeOrdered(q)
  PROVE  /\ TimeOrdered(Tail(q))
         /\ \A f \in ToSet(q) : Time(Head(q)) <= Time(f)
  <1>1. /\ Tail(q) \in Seq(Events) /\ Len(Tail(q)) = Len(q) - 1 /\ Head(q) = q[1]
        /\ \A i \in 1..Len(Tail(q)) : Tail(q)[i] = q[i + 1]
        /\ Len(q) \in Nat \ {0}
    BY HeadTailProperties, EmptySeq
  <1>2. \A i, j \in 1..Len(q) : i <= j => Time(q[i]) <= Time(q[j])
    BY TimesOf
  <1>3. \A i \in 1..Len(Tail(q)) : i + 1 \in 1..Len(q)
    BY <1>1
  <1>4. TimeOrdered(Tail(q))
    <2> SUFFICES ASSUME NEW i \in 1..Len(Tail(q)), NEW j \in 1..Len(Tail(q)), i < j
                 PROVE  Time(Tail(q)[i]) <= Time(Tail(q)[j])
      BY <1>1, Elements DEF TimeOrdered
    <2>1. i + 1 <= j + 1
      BY <1>1
    <2> QED
      BY <1>1, <1>2, <1>3, <2>1
  <1>5. \A f \in ToSet(q) : Time(Head(q)) <= Time(f)
    <2> SUFFICES ASSUME NEW f \in ToSet(q) PROVE Time(Head(q)) <= Time(f)
      OBVIOUS
    <2>1. PICK i \in 1..Len(q) : f = q[i]
      BY Elements
    <2>2. 1 \in 1..Len(q) /\ 1 <= i
      BY <1>1
    <2> QED
      BY <1>1, <1>2, <2>1, <2>2
  <1> QED
    BY <1>4, <1>5

LEMMA AppendOrdered ==
  ASSUME ModelOK, NEW q \in Seq(Events), TimeOrdered(q), NEW e \in Events,
         \A f \in ToSet(q) : Time(f) <= Time(e)
  PROVE  TimeOrdered(Append(q, e))
  <1> DEFINE r == Append(q, e)
  <1>1. /\ r \in Seq(Events) /\ Len(r) = Len(q) + 1 /\ Len(q) \in Nat
        /\ \A i \in 1..Len(q) : r[i] = q[i]
        /\ r[Len(q) + 1] = e
    BY AppendProperties, Elements
  <1> HIDE DEF r
  <1>2. \A i, j \in 1..Len(q) : i <= j => Time(q[i]) <= Time(q[j])
    BY TimesOf
  <1>3. \A i \in 1..Len(q) : Time(q[i]) <= Time(e)
    BY Elements
  <1> SUFFICES ASSUME NEW i \in 1..Len(r), NEW j \in 1..Len(r), i < j
               PROVE  Time(r[i]) <= Time(r[j])
    BY <1>1, Elements DEF TimeOrdered, r
  <1>4. i \in 1..Len(q) /\ (j \in 1..Len(q) \/ j = Len(q) + 1)
    BY <1>1
  <1> QED
    BY <1>1, <1>2, <1>3, <1>4

LEMMA RemovedAt ==
  ASSUME NEW S, NEW q \in Seq(S), NEW n \in 1..Len(q)
  PROVE  LET r == RemoveAt(q, n)
         IN  /\ r \in Seq(S) /\ Len(r) = Len(q) - 1
             /\ \A i \in 1..(Len(q) - 1) : r[i] = q[IF i < n THEN i ELSE i + 1]
  <1> DEFINE a == SubSeq(q, 1, n - 1)
             b == SubSeq(q, n + 1, Len(q))
             r == RemoveAt(q, n)
  <1>q. Len(q) \in Nat /\ n \in Nat \ {0} /\ n <= Len(q)
    OBVIOUS
  <1>1. a \in Seq(S) /\ Len(a) = n - 1 /\ \A i \in 1..(n - 1) : a[i] = q[i]
    <2> DEFINE m == n - 1
    <2>1. m \in 0..Len(q) /\ m \in Nat /\ 1 \in Nat \ {0} /\ 1 <= m + 1
      BY <1>q
    <2> HIDE DEF m
    <2>2. /\ SubSeq(q, 1, m) \in Seq(S) /\ Len(SubSeq(q, 1, m)) = (m - 1) + 1
          /\ \A i \in 1..((m - 1) + 1) : SubSeq(q, 1, m)[i] = q[(1 + i) - 1]
      BY <2>1, Sublist
    <2>3. /\ SubSeq(q, 1, m) \in Seq(S) /\ Len(SubSeq(q, 1, m)) = m
          /\ \A i \in 1..m : SubSeq(q, 1, m)[i] = q[i]
      BY <2>1, <2>2
    <2> QED
      BY <2>3 DEF m
  <1>2. b \in Seq(S) /\ Len(b) = Len(q) - n /\ \A i \in 1..(Len(q) - n) : b[i] = q[n + i]
    <2>1. /\ b \in Seq(S) /\ Len(b) = (Len(q) - (n + 1)) + 1
          /\ \A i \in 1..((Len(q) - (n + 1)) + 1) : b[i] = q[((n + 1) + i) - 1]
      <3> HIDE DEF b
      <3>1. n + 1 \in Nat \ {0} /\ Len(q) \in 0..Len(q) /\ n + 1 <= Len(q) + 1
        BY <1>q
      <3> QED
        BY <3>1, Sublist DEF b
    <2> HIDE DEF b
    <2>2. /\ (Len(q) - (n + 1)) + 1 = Len(q) - n
          /\ \A i \in 1..(Len(q) - n) : ((n + 1) + i) - 1 = n + i
      BY <1>q
    <2> QED
      BY <2>1, <2>2
  <1>3. r = a \o b
    BY DEF RemoveAt
  <1> HIDE DEF a, b, r
  <1>4. /\ r \in Seq(S) /\ Len(r) = Len(a) + Len(b)
        /\ \A i \in 1..(Len(a) + Len(b)) : r[i] = IF i <= Len(a) THEN a[i] ELSE b[i - Len(a)]
    BY <1>1, <1>2, <1>3, ConcatProperties
  <1>5. Len(r) = Len(q) - 1 /\ Len(a) + Len(b) = Len(q) - 1
    BY <1>1, <1>2, <1>4, <1>q
  <1>6. ASSUME NEW i \in 1..(Len(q) - 1) PROVE r[i] = q[IF i < n THEN i ELSE i + 1]
    <2>1. CASE i < n
      <3>1. i <= Len(a) /\ i \in 1..(n - 1)
        BY <1>1, <1>q, <2>1
      <3> QED
        BY <1>1, <1>4, <1>5, <2>1, <3>1
    <2>2. CASE ~(i < n)
      <3>1. ~(i <= Len(a)) /\ i - Len(a) \in 1..(Len(q) - n) /\ n + (i - Len(a)) = i + 1
        BY <1>1, <1>q, <2>2
      <3> QED
        BY <1>2, <1>4, <1>5, <2>2, <3>1
    <2> QED
      BY <2>1, <2>2
  <1> QED
    BY <1>4, <1>5, <1>6 DEF r

\* Without unlinks the event, nothing else, and keeps the order.
LEMMA Unlinked ==
  ASSUME ModelOK, NEW q \in Seq(Events), NEW e
  PROVE  /\ ToSet(Without(q, e)) \subseteq ToSet(q)
         /\ ToSet(q) \subseteq ToSet(Without(q, e)) \cup {e}
         /\ TimeOrdered(q) => TimeOrdered(Without(q, e))
  <1>1. CASE \E i \in DOMAIN q : q[i] = e
    <2> DEFINE n == CHOOSE i \in DOMAIN q : q[i] = e
               r == RemoveAt(q, n)
    <2>1. n \in 1..Len(q) /\ q[n] = e /\ Without(q, e) = r
      BY <1>1 DEF Without
    <2> HIDE DEF n
    <2>2. /\ r \in Seq(Events) /\ Len(r) = Len(q) - 1 /\ Len(q) \in Nat
          /\ \A i \in 1..(Len(q) - 1) : r[i] = q[IF i < n THEN i ELSE i + 1]
      <3>1. Len(q) \in Nat
        BY Elements
      <3>2. /\ r \in Seq(Events) /\ Len(r) = Len(q) - 1
            /\ \A i \in 1..(Len(q) - 1) : r[i] = q[IF i < n THEN i ELSE i + 1]
        BY <2>1, RemovedAt
      <3> QED
        BY <3>1, <3>2
    <2> HIDE DEF r
    <2>3. ToSet(r) \subseteq ToSet(q)
      <3> SUFFICES ASSUME NEW x \in ToSet(r) PROVE x \in ToSet(q)
        OBVIOUS
      <3>1. PICK i \in 1..Len(r) : x = r[i]
        BY <2>2, Elements
      <3>2. i \in 1..Len(q) /\ i + 1 \in 1..Len(q)
        BY <2>2
      <3> QED
        BY <2>2, <3>1, <3>2, Elements
    <2>4. ToSet(q) \subseteq ToSet(r) \cup {e}
      <3> SUFFICES ASSUME NEW x \in ToSet(q), x # e PROVE x \in ToSet(r)
        OBVIOUS
      <3>1. PICK i \in 1..Len(q) : x = q[i]
        BY Elements
      <3>2. CASE i < n
        <4>1. i \in 1..Len(r)
          BY <2>1, <2>2, <3>2
        <4> QED
          BY <2>2, <3>1, <3>2, <4>1, Elements
      <3>3. CASE i > n
        <4>1. i - 1 \in 1..Len(r) /\ ~(i - 1 < n) /\ (i - 1) + 1 = i
          BY <2>1, <2>2, <3>3
        <4> QED
          BY <2>2, <3>1, <4>1, Elements
      <3> QED
        BY <2>1, <3>1, <3>2, <3>3
    <2>5. ASSUME TimeOrdered(q) PROVE TimeOrdered(r)
      <3>1. \A i, j \in 1..Len(q) : i <= j => Time(q[i]) <= Time(q[j])
        BY <2>5, TimesOf
      <3> SUFFICES ASSUME NEW i \in 1..Len(r), NEW j \in 1..Len(r), i < j
                   PROVE  Time(r[i]) <= Time(r[j])
        BY <2>2, Elements DEF TimeOrdered
      <3>2. /\ (IF i < n THEN i ELSE i + 1) \in 1..Len(q)
            /\ (IF j < n THEN j ELSE j + 1) \in 1..Len(q)
            /\ (IF i < n THEN i ELSE i + 1) <= (IF j < n THEN j ELSE j + 1)
        BY <2>1, <2>2
      <3> QED
        BY <2>2, <3>1, <3>2
    <2> QED
      BY <2>1, <2>3, <2>4, <2>5
  <1>2. CASE ~\E i \in DOMAIN q : q[i] = e
    BY <1>2 DEF Without
  <1> QED
    BY <1>1, <1>2

\* InTimeOrder orders the events of a list by time, and loses none.
LEMMA Ordered ==
  ASSUME ModelOK, NEW q \in Seq(Events)
  PROVE  /\ TimeOrdered(InTimeOrder(q))
         /\ ToSet(InTimeOrder(q)) = ToSet(q)
  <1> DEFINE r == InTimeOrder(q)
             at(n) == CHOOSE i \in DOMAIN q : Rank(q, i) = n
  <1>1. /\ Len(q) \in Nat /\ DOMAIN q = 1..Len(q)
        /\ \A i \in 1..Len(q) : q[i] \in Events /\ Time(q[i]) \in Nat
    BY TimesOf
  <1>2. /\ \A i \in DOMAIN q : Rank(q, i) \in DOMAIN q
        /\ \A i, j \in DOMAIN q : Rank(q, i) = Rank(q, j) => i = j
        /\ \A n \in DOMAIN q : \E i \in DOMAIN q : Rank(q, i) = n
    BY RankIsPermutation
  <1>3. \A n \in DOMAIN q : at(n) \in DOMAIN q /\ Rank(q, at(n)) = n /\ r[n] = q[at(n)]
    BY <1>2 DEF InTimeOrder
  <1>4. DOMAIN r = DOMAIN q
    BY DEF InTimeOrder
  <1> HIDE DEF at, r
  <1>5. TimeOrdered(r)
    <2> SUFFICES ASSUME NEW m \in DOMAIN q, NEW n \in DOMAIN q, m < n,
                        Time(r[n]) < Time(r[m])
                 PROVE  FALSE
      BY <1>1, <1>3, <1>4 DEF TimeOrdered
    <2> DEFINE i == at(m)
               j == at(n)
    <2>1. /\ i \in DOMAIN q /\ j \in DOMAIN q /\ Time(q[j]) < Time(q[i])
          /\ Rank(q, i) = m /\ Rank(q, j) = n
      BY <1>3
    <2>2. NotAfter(q, j) \in SUBSET NotAfter(q, i)
      <3> SUFFICES ASSUME NEW k \in NotAfter(q, j) PROVE k \in NotAfter(q, i)
        OBVIOUS
      <3>1. k \in DOMAIN q /\ Time(q[k]) <= Time(q[j])
        BY <1>1, <2>1 DEF NotAfter
      <3> QED
        BY <1>1, <2>1, <3>1 DEF NotAfter
    <2>3. IsFiniteSet(NotAfter(q, i))
      <3>1. NotAfter(q, i) \in SUBSET DOMAIN q
        BY DEF NotAfter
      <3> QED
        BY <3>1, CountOfIndexes
    <2>4. n <= m
      BY <2>1, <2>2, <2>3, FS_Subset DEF Rank
    <2> QED
      BY <1>1, <2>4
  <1>6. ToSet(r) = ToSet(q)
    <2>1. \A n \in DOMAIN q : \E i \in DOMAIN q : r[n] = q[i]
      BY <1>3
    <2>2. \A i \in DOMAIN q : \E n \in DOMAIN q : r[n] = q[i]
      <3> SUFFICES ASSUME NEW i \in DOMAIN q PROVE \E n \in DOMAIN q : r[n] = q[i]
        OBVIOUS
      <3>1. Rank(q, i) \in DOMAIN q /\ at(Rank(q, i)) = i
        BY <1>2, <1>3
      <3> QED
        BY <1>3, <3>1
    <2> QED
      BY <1>4, <2>1, <2>2 DEF ToSet
  <1> QED
    BY <1>5, <1>6 DEF r

LEMMA ConcatElements ==
  ASSUME NEW S, NEW p \in Seq(S), NEW q \in Seq(S)
  PROVE  p \o q \in Seq(S) /\ ToSet(p \o q) = ToSet(p) \cup ToSet(q)
  <1> DEFINE r == p \o q
  <1>1. /\ r \in Seq(S) /\ Len(r) = Len(p) + Len(q) /\ Len(p) \in Nat /\ Len(q) \in Nat
        /\ \A i \in 1..(Len(p) + Len(q)) : r[i] = IF i <= Len(p) THEN p[i] ELSE q[i - Len(p)]
    BY ConcatProperties, Elements
  <1> HIDE DEF r
  <1>2. ToSet(r) \subseteq ToSet(p) \cup ToSet(q)
    <2> SUFFICES ASSUME NEW x \in ToSet(r) PROVE x \in ToSet(p) \cup ToSet(q)
      OBVIOUS
    <2>1. PICK i \in 1..Len(r) : x = r[i]
      BY <1>1, Elements
    <2>2. i <= Len(p) => i \in 1..Len(p)
      BY <1>1
    <2>3. ~(i <= Len(p)) => i - Len(p) \in 1..Len(q)
      BY <1>1
    <2> QED
      BY <1>1, <2>1, <2>2, <2>3, Elements
  <1>3. ToSet(p) \subseteq ToSet(r)
    <2>1. \A i \in 1..Len(p) : i \in 1..Len(r) /\ i <= Len(p)
      BY <1>1
    <2> QED
      BY <1>1, <2>1, Elements
  <1>4. ToSet(q) \subseteq ToSet(r)
    <2> SUFFICES ASSUME NEW x \in ToSet(q) PROVE x \in ToSet(r)
      OBVIOUS
    <2>1. PICK i \in 1..Len(q) : x = q[i]
      BY Elements
    <2>2. i + Len(p) \in 1..Len(r) /\ ~(i + Len(p) <= Len(p)) /\ (i + Len(p)) - Len(p) = i
      BY <1>1
    <2> QED
      BY <1>1, <2>1, <2>2, Elements
  <1> QED
    BY <1>1, <1>2, <1>3, <1>4 DEF r

-----------------------------------------------------------------------------
(* The order of the lists of an object *)

\* A standing rollback has the time of an event of the run.
Standing(o) ==
    speculation[o].standing_rollback
        => \E k \in Kinds : speculation[o].causality_violation_time = model.time[k]

\* The input queue of the object is ordered, and each event is in its slot.
InputInOrder(o) ==
    \A s \in Slots :
        /\ TimeOrdered(queue[o][s])
        /\ \A e \in ToSet(queue[o][s]) : Dest(e) = o /\ SlotOf(e) = s

\* What the object has executed belongs to the slot of the epoch, is ordered,
\* is not ahead of the object's clock, and is not later than what comes next.
ExecutedInOrder(o) ==
    /\ TimeOrdered(retractable_queue[o])
    /\ \A e \in ToSet(retractable_queue[o]) : Dest(e) = o /\ SlotOf(e) = current_index
    /\ ~RollingBack(o) =>
          \A e \in ToSet(retractable_queue[o]) : Time(e) <= speculation[o].current_time
    /\ Settled(o) =>
          \A e \in ToSet(retractable_queue[o]), f \in ToSet(queue[o][current_index]) :
              Time(e) <= Time(f)

InOrder(o) == Standing(o) /\ InputInOrder(o) /\ ExecutedInOrder(o)

Order == \A o \in Objects : InOrder(o)

LEMMA SameTimes ==
  ASSUME model' = model
  PROVE  \A e : Time(e)' = Time(e) /\ Dest(e)' = Dest(e) /\ SlotOf(e)' = SlotOf(e)
  BY DEF Time, Dest, SlotOf

\* An object that a step leaves alone.
LEMMA StandingStays ==
  ASSUME NEW o \in Objects, Standing(o), model' = model,
         speculation'[o].standing_rollback => speculation[o].standing_rollback,
         speculation'[o].causality_violation_time = speculation[o].causality_violation_time
  PROVE  Standing(o)'
  BY DEF Standing

LEMMA InputStays ==
  ASSUME NEW o \in Objects, InputInOrder(o), model' = model, queue'[o] = queue[o]
  PROVE  InputInOrder(o)'
  BY DEF InputInOrder, TimeOrdered, Time, Dest, SlotOf

LEMMA ExecutedStays ==
  ASSUME NEW o \in Objects, ExecutedInOrder(o), UNCHANGED <<model, epochs>>,
         queue'[o][current_index] = queue[o][current_index],
         retractable_queue'[o] = retractable_queue[o],
         speculation'[o].standing_rollback <=> speculation[o].standing_rollback,
         speculation'[o].current_time = speculation[o].current_time,
         RollingBack(o)' <=> RollingBack(o)
  PROVE  ExecutedInOrder(o)'
  <1>1. Settled(o)' <=> Settled(o)
    BY DEF Settled
  <1>2. current_index' = current_index
    BY DEF current_index
  <1> QED
    BY <1>1, <1>2 DEF ExecutedInOrder, TimeOrdered, Time, Dest, SlotOf

LEMMA InOrderStays ==
  ASSUME NEW o \in Objects, InOrder(o), UNCHANGED <<model, epochs>>,
         queue'[o] = queue[o],
         retractable_queue'[o] = retractable_queue[o],
         speculation'[o].standing_rollback = speculation[o].standing_rollback,
         speculation'[o].causality_violation_time = speculation[o].causality_violation_time,
         speculation'[o].current_time = speculation[o].current_time,
         RollingBack(o)' <=> RollingBack(o)
  PROVE  InOrder(o)'
  BY StandingStays, InputStays, ExecutedStays DEF InOrder

\* An object that has nothing to retract.
LEMMA NothingExecuted ==
  ASSUME NEW o \in Objects, retractable_queue'[o] = <<>>
  PROVE  ExecutedInOrder(o)'
  BY EmptyElements DEF ExecutedInOrder, TimeOrdered

LEMMA RollingStays ==
  ASSUME NEW t \in Threads, OthersStay(t),
         \/ pc[t] \notin {"restore", "undo"} /\ pc'[t] \notin {"restore", "undo"}
         \/ /\ pc[t] \in {"restore", "undo"} /\ pc'[t] \in {"restore", "undo"}
            /\ target'[t] = target[t]
  PROVE  \A o \in Objects : RollingBack(o)' <=> RollingBack(o)
  BY DEF RollingBack, OthersStay

\* The thread that runs an object is not rolling it back at other points.
LEMMA NotRollingBack ==
  ASSUME IInv, NEW t \in Threads, NEW o \in Objects, Runs(t, o), pc[t] \notin {"restore", "undo"}
  PROVE  ~RollingBack(o)
  BY DEF IInv, RunnerOwns, RollingBack, Runs

\* Steps that change no list of events and no status that the order depends on.
LEMMA OrderUnmoved ==
  ASSUME IInv, Order, NEW t \in Threads,
         \/ InitObject(t) \/ InitDone(t) \/ Dispense(t) \/ GetEvent(t) \/ Finish(t)
         \/ TakenByOther(t) \/ Restore(t) \/ Keep(t) \/ Redo(t) \/ Process(t) \/ ReadFreed(t)
         \/ SendFiltered(t) \/ SendLater(t) \/ Checkpoint(t) \/ FlushDone(t) \/ FallbackDone(t)
  PROVE  Order'
  <1>1. UNCHANGED <<model, epochs, queue, retractable_queue, speculation>> /\ Step(t)
    BY DEF InitObject, InitDone, Dispense, GetEvent, Finish, TakenByOther, Restore, Keep, Redo,
           Process, ReadFreed, SendFiltered, SendLater, Checkpoint, FlushDone, FallbackDone, Step,
           queues, objects
  <1>2. OthersStay(t)
    BY <1>1, OneMoves
  <1>3. CASE Restore(t)
    <2>1. pc[t] = "restore" /\ pc'[t] = "undo" /\ target'[t] = target[t]
      BY <1>3 DEF Restore, IInv, ThreadTypes, Goto, locals
    <2> QED
      BY <1>1, <1>2, <2>1, RollingStays, InOrderStays DEF Order
  <1>4. CASE Process(t) \/ SendFiltered(t) \/ SendLater(t)
    <2>1. pc[t] \notin {"restore", "undo"} /\ pc'[t] \notin {"restore", "undo"}
      BY <1>4, SendMoves
    <2> QED
      BY <1>1, <1>2, <2>1, RollingStays, InOrderStays DEF Order
  <1>5. CASE ~(Restore(t) \/ Process(t) \/ SendFiltered(t) \/ SendLater(t))
    <2>1. pc[t] \notin {"restore", "undo"} /\ pc'[t] \notin {"restore", "undo"}
      BY <1>5, ResumeStack
         DEF InitObject, InitDone, Dispense, GetEvent, Finish, TakenByOther, Keep, Redo, ReadFreed,
             Checkpoint, FlushDone, FallbackDone, IInv, ThreadTypes, Goto, Labels, locals
    <2> QED
      BY <1>1, <1>2, <2>1, RollingStays, InOrderStays DEF Order
  <1> QED
    BY <1>3, <1>4, <1>5

\* Taking an object over: a standing rollback begins, any other step finds the
\* lists as they are.
LEMMA OrderTake ==
  ASSUME IInv, Order, NEW t \in Threads, Take(t)
  PROVE  Order'
  <1>1. PICK o \in Objects :
        /\ UNCHANGED <<model, epochs, queue, retractable_queue, target>> /\ pc[t] = "take"
        /\ o = target[t] /\ \A p \in Objects \ {o} : speculation'[p] = speculation[p]
        /\ ~speculation'[o].standing_rollback
        /\ \/ /\ ~speculation[o].standing_rollback /\ pc'[t] = "check"
              /\ speculation'[o].current_time = speculation[o].current_time
           \/ /\ speculation[o].standing_rollback
              /\ pc'[t] = IF speculation[o].causality_violation_time > 0 THEN "restore" ELSE "check"
    BY TakeStatus DEF Take, queues
  <1>2. OthersStay(t)
    BY OneMoves DEF Step
  <1>3. ASSUME NEW p \in Objects \ {o} PROVE InOrder(p)'
    <2>1. RollingBack(p)' <=> RollingBack(p)
      BY <1>1, <1>2 DEF RollingBack, OthersStay
    <2> QED
      BY <1>1, <2>1, InOrderStays DEF Order
  <1>4. InOrder(o)'
    <2>1. Standing(o)' /\ InputInOrder(o)' /\ ExecutedInOrder(o)
      BY <1>1, InputStays DEF Standing, Order, InOrder
    <2>2. CASE speculation[o].standing_rollback
      <3>1. speculation[o].causality_violation_time > 0
        BY <1>1, <2>2, ModelTypes DEF Order, InOrder, Standing, IInv, Lists
      <3>2. RollingBack(o)'
        BY <1>1, <2>2, <3>1 DEF RollingBack
      <3>3. current_index' = current_index
        BY <1>1 DEF current_index
      <3>4. TimeOrdered(retractable_queue[o])'
        BY <1>1, <2>1 DEF ExecutedInOrder, TimeOrdered, Time
      <3> QED
        BY <1>1, <2>1, <3>2, <3>3, <3>4, SameTimes DEF InOrder, ExecutedInOrder, Settled
    <2>3. CASE ~speculation[o].standing_rollback
      <3>1. RollingBack(o)' <=> RollingBack(o)
        BY <1>1, <1>2, <2>3 DEF RollingBack, OthersStay
      <3>2. ExecutedInOrder(o)'
        BY <1>1, <2>1, <2>3, <3>1, ExecutedStays
      <3> QED
        BY <2>1, <3>2 DEF InOrder
    <2> QED
      BY <2>2, <2>3
  <1> QED
    BY <1>3, <1>4 DEF Order

LEMMA OrderRelease ==
  ASSUME IInv, Order, NEW t \in Threads, Release(t)
  PROVE  Order'
  <1> DEFINE o == target[t]
  <1>1. /\ UNCHANGED <<model, epochs, queue, retractable_queue>> /\ pc[t] = "check"
        /\ o \in Objects /\ speculation[o] \in Statuses
        /\ speculation' = [speculation EXCEPT ![o] = Released(speculation[o])]
        /\ pc'[t] \in {"take", "dispense"}
    BY ResumeStack DEF Release, queues, IInv, Held, Holds, ObjectTypes, Labels
  <1>2. \A p \in Objects :
            /\ speculation'[p].standing_rollback = speculation[p].standing_rollback
            /\ speculation'[p].causality_violation_time = speculation[p].causality_violation_time
            /\ speculation'[p].current_time = speculation[p].current_time
    BY <1>1 DEF Released, Statuses, IInv, ObjectTypes
  <1>3. OthersStay(t)
    BY OneMoves DEF Step
  <1>4. \A p \in Objects : RollingBack(p)' <=> RollingBack(p)
    BY <1>1, <1>3, RollingStays
  <1> QED
    BY <1>1, <1>2, <1>4, InOrderStays DEF Order

\* What is annihilated leaves the lists of the receiver, which must roll back.
LEMMA OrderAnnihilate ==
  ASSUME IInv, Order, NEW t \in Threads, Annihilate(t)
  PROVE  Order'
  <1>1. PICK e \in Events, d \in Objects, n \in Slots :
        /\ d = Dest(e) /\ n = SlotOf(e)
        /\ \A p \in Objects \ {d} : speculation'[p] = speculation[p]
        /\ speculation'[d].standing_rollback
        /\ \/ speculation'[d].causality_violation_time = Time(e)
           \/ /\ speculation[d].standing_rollback
              /\ speculation'[d].causality_violation_time = speculation[d].causality_violation_time
        /\ speculation'[d].current_time = speculation[d].current_time
        /\ queue' = [queue EXCEPT ![d][n] = Without(queue[d][n], e)]
        /\ retractable_queue' = [retractable_queue EXCEPT ![d] = Without(retractable_queue[d], e)]
    <2> DEFINE e == Last(log_queue[target[t]]).event
               d == Dest(e)
    <2>1. /\ e \in Events /\ d \in Objects /\ SlotOf(e) \in Slots
          /\ \A p \in Objects \ {d} : speculation'[p] = speculation[p]
          /\ speculation'[d].standing_rollback
          /\ \/ speculation'[d].causality_violation_time = Time(e)
             \/ /\ speculation[d].standing_rollback
                /\ speculation'[d].causality_violation_time = speculation[d].causality_violation_time
          /\ speculation'[d].current_time = speculation[d].current_time
          /\ queue' = [queue EXCEPT ![d][SlotOf(e)] = Without(queue[d][SlotOf(e)], e)]
          /\ retractable_queue' = [retractable_queue EXCEPT ![d] = Without(retractable_queue[d], e)]
      BY AnnihilateEffect
    <2> HIDE DEF e
    <2> QED
      BY <2>1
  <1>2. UNCHANGED <<model, epochs, pc, target>>
    BY DEF Annihilate
  <1>3. \A p \in Objects : RollingBack(p)' <=> RollingBack(p)
    BY <1>2 DEF RollingBack
  <1>4. /\ queue \in [Objects -> [Slots -> Seq(Events)]] /\ retractable_queue \in [Objects -> Seq(Events)]
        /\ ModelOK /\ e.kind \in Kinds
    BY <1>1, EventTypes DEF IInv, Lists, QueueTypes
  <1>5. ASSUME NEW p \in Objects \ {d} PROVE InOrder(p)'
    <2>1. queue'[p] = queue[p] /\ retractable_queue'[p] = retractable_queue[p]
      BY <1>1, <1>4
    <2> QED
      BY <1>1, <1>2, <1>3, <2>1, InOrderStays DEF Order
  <1>6. Standing(d)'
    BY <1>1, <1>2, <1>4 DEF Standing, Order, InOrder, Time
  <1>7. InputInOrder(d)'
    <2> SUFFICES ASSUME NEW s \in Slots
                 PROVE  /\ TimeOrdered(queue'[d][s])
                        /\ \A f \in ToSet(queue'[d][s]) : Dest(f) = d /\ SlotOf(f) = s
      BY <1>2 DEF InputInOrder, TimeOrdered, Time, Dest, SlotOf
    <2>1. queue'[d][s] = IF s = n THEN Without(queue[d][s], e) ELSE queue[d][s]
      BY <1>1, <1>4
    <2>2. /\ ToSet(Without(queue[d][s], e)) \subseteq ToSet(queue[d][s])
          /\ TimeOrdered(queue[d][s]) => TimeOrdered(Without(queue[d][s], e))
      BY <1>1, <1>4, Unlinked
    <2> QED
      BY <1>1, <2>1, <2>2 DEF Order, InOrder, InputInOrder
  <1>8. ExecutedInOrder(d)'
    <2>1. retractable_queue'[d] = Without(retractable_queue[d], e)
      BY <1>1, <1>4
    <2>2. /\ ToSet(retractable_queue'[d]) \subseteq ToSet(retractable_queue[d])
          /\ TimeOrdered(retractable_queue[d]) => TimeOrdered(retractable_queue'[d])
      BY <1>1, <1>4, <2>1, Unlinked
    <2>3. TimeOrdered(retractable_queue[d])'
      BY <1>1, <1>2, <2>2 DEF Order, InOrder, ExecutedInOrder, TimeOrdered, Time
    <2>4. current_index' = current_index
      BY <1>2 DEF current_index
    <2> QED
      BY <1>1, <1>2, <1>3, <2>2, <2>3, <2>4, SameTimes DEF Order, InOrder, ExecutedInOrder, Settled
  <1> QED
    BY <1>5, <1>6, <1>7, <1>8 DEF Order, InOrder

\* What was executed goes back to its slot.
LEMMA OrderReinsert ==
  ASSUME IInv, Order, NEW t \in Threads, Reinsert(t)
  PROVE  Order'
  <1>1. PICK o \in Objects, n \in Slots :
        /\ o = target[t] /\ n = current_index
        /\ UNCHANGED <<model, epochs, target, speculation>> /\ pc[t] = "undo"
        /\ queue' = [queue EXCEPT ![o][n] = InTimeOrder(queue[o][n] \o retractable_queue[o])]
        /\ retractable_queue' = [retractable_queue EXCEPT ![o] = <<>>]
    BY TimeTypes DEF Reinsert, IInv, Held, Holds, objects
  <1>2. OthersStay(t) /\ pc'[t] = "check"
    BY OneMoves DEF Step, Reinsert, Goto, IInv, ThreadTypes
  <1>3. /\ queue \in [Objects -> [Slots -> Seq(Events)]] /\ retractable_queue \in [Objects -> Seq(Events)]
        /\ ModelOK
    BY DEF IInv, Lists, QueueTypes
  <1>4. ASSUME NEW p \in Objects \ {o} PROVE InOrder(p)'
    <2>1. queue'[p] = queue[p] /\ retractable_queue'[p] = retractable_queue[p]
      BY <1>1, <1>3
    <2>2. RollingBack(p)' <=> RollingBack(p)
      BY <1>1, <1>2 DEF RollingBack, OthersStay
    <2> QED
      BY <1>1, <2>1, <2>2, InOrderStays DEF Order
  <1>5. PICK q :
        /\ q = queue[o][n] \o retractable_queue[o]
        /\ ToSet(q) = ToSet(queue[o][n]) \cup ToSet(retractable_queue[o])
        /\ TimeOrdered(InTimeOrder(q)) /\ ToSet(InTimeOrder(q)) = ToSet(q)
    <2> DEFINE q == queue[o][n] \o retractable_queue[o]
    <2>1. q \in Seq(Events) /\ ToSet(q) = ToSet(queue[o][n]) \cup ToSet(retractable_queue[o])
      BY <1>1, <1>3, ConcatElements
    <2>2. TimeOrdered(InTimeOrder(q)) /\ ToSet(InTimeOrder(q)) = ToSet(q)
      <3> HIDE DEF q
      <3> QED
        BY <1>3, <2>1, Ordered
    <2> QED
      BY <2>1, <2>2
  <1>6. InputInOrder(o)'
    <2> SUFFICES ASSUME NEW s \in Slots
                 PROVE  /\ TimeOrdered(queue'[o][s])
                        /\ \A f \in ToSet(queue'[o][s]) : Dest(f) = o /\ SlotOf(f) = s
      BY <1>1 DEF InputInOrder, TimeOrdered, Time, Dest, SlotOf
    <2>1. queue'[o][s] = IF s = n THEN InTimeOrder(q) ELSE queue[o][s]
      BY <1>1, <1>3, <1>5
    <2> QED
      BY <1>1, <1>5, <2>1 DEF Order, InOrder, InputInOrder, ExecutedInOrder
  <1>7. ExecutedInOrder(o)'
    <2>1. retractable_queue'[o] = <<>>
      BY <1>1, <1>3
    <2> QED
      BY <2>1, EmptyElements DEF ExecutedInOrder, TimeOrdered
  <1>8. Standing(o)'
    BY <1>1, StandingStays DEF Order, InOrder
  <1> QED
    BY <1>4, <1>6, <1>7, <1>8 DEF Order, InOrder

\* An event that is inserted keeps the order of its slot.
LEMMA InsertInto ==
  ASSUME IInv, NEW e \in Events, Insert(e), model' = model
  PROVE  /\ Dest(e) \in Objects
         /\ \A p \in Objects \ {Dest(e)} : queue'[p] = queue[p]
         /\ \A s \in Slots \ {SlotOf(e)} : queue'[Dest(e)][s] = queue[Dest(e)][s]
         /\ ToSet(queue'[Dest(e)][SlotOf(e)]) = ToSet(queue[Dest(e)][SlotOf(e)]) \cup {e}
         /\ \A p \in Objects : InputInOrder(p) => InputInOrder(p)'
  <1>1. PICK d \in Objects, n \in Slots :
            /\ d = Dest(e) /\ n = SlotOf(e)
            /\ queue' = [queue EXCEPT ![d][n] = InsertInOrder(queue[d][n], e)]
    BY EventTypes, SlotTypes DEF IInv, Lists, Insert
  <1>2. queue \in [Objects -> [Slots -> Seq(Events)]] /\ ModelOK
    BY DEF IInv, Lists, QueueTypes
  <1>3. /\ \A p \in Objects \ {d} : queue'[p] = queue[p]
        /\ \A s \in Slots \ {n} : queue'[d][s] = queue[d][s]
        /\ queue'[d][n] = InsertInOrder(queue[d][n], e)
    BY <1>1, <1>2
  <1>4. /\ ToSet(queue'[d][n]) = ToSet(queue[d][n]) \cup {e}
        /\ TimeOrdered(queue[d][n]) => TimeOrdered(queue'[d][n])
    BY <1>2, <1>3, Inserted
  <1>5. ASSUME InputInOrder(d) PROVE InputInOrder(d)'
    <2> SUFFICES ASSUME NEW s \in Slots
                 PROVE  /\ TimeOrdered(queue'[d][s])
                        /\ \A f \in ToSet(queue'[d][s]) : Dest(f) = d /\ SlotOf(f) = s
      BY DEF InputInOrder, TimeOrdered, Time, Dest, SlotOf
    <2> QED
      BY <1>1, <1>3, <1>4, <1>5 DEF InputInOrder
  <1>6. \A p \in Objects : InputInOrder(p) => InputInOrder(p)'
    BY <1>3, <1>5, InputStays
  <1> QED
    BY <1>1, <1>3, <1>4, <1>6

\* Outside an epoch nothing is retractable: an insertion disturbs nothing.
LEMMA OrderInsert ==
  ASSUME IInv, Ownership, Cleanup, Order, NEW t \in Threads,
         InitSend(t) \/ Commit(t) \/ FallbackInsert(t)
  PROVE  Order'
  <1>1. UNCHANGED <<model, retractable_queue, speculation>>
    BY DEF InitSend, Commit, FallbackInsert, objects
  <1>2. \A p \in Objects : retractable_queue[p] = <<>>
    <2>1. CASE InitSend(t) \/ FallbackInsert(t)
      <3>1. pc[t] \in Starting \cup Crossing
        BY <2>1 DEF InitSend, FallbackInsert, Starting, Crossing
      <3> QED
        BY <3>1, OnePhase DEF Cleanup, Fresh
    <2>2. CASE Commit(t)
      <3>1. AllIn(Closing) /\ retractable_object_identifiers = OBJECTS
        BY <2>2, OnePhase DEF Commit, Closing, Cleanup, Counted
      <3> QED
        BY <3>1, ConstantsAssumption DEF Cleanup, Retracted, Objects
    <2> QED
      BY <2>1, <2>2
  <1>3. \/ UNCHANGED queue
        \/ \E e \in Events : Insert(e)
    <2>1. CASE InitSend(t)
      <3>1. Head(outbox[t]) \in Kinds
        BY <2>1, EndsType DEF InitSend, IInv, ThreadTypes
      <3> QED
        BY <2>1, <3>1 DEF InitSend, QueueInsert, Events
    <2>2. CASE Commit(t)
      <3>1. speculation_queue[target[t]] \in Seq(Sends) /\ speculation_queue[target[t]] # <<>>
        BY <2>2 DEF Commit, IInv, Held, Holds, Lists, QueueTypes
      <3>2. Head(speculation_queue[target[t]]) \in Sends
        BY <3>1, EndsType
      <3>3. Head(speculation_queue[target[t]]).event \in Events
        BY <3>2 DEF Sends
      <3> QED
        BY <2>2, <3>3 DEF Commit, QueueInsert
    <2>3. CASE FallbackInsert(t)
      <3>1. \A i \in DOMAIN fallback_queue[t] : fallback_queue[t][i] \in Events
        BY DEF IInv, Lists, QueueTypes
      <3> QED
        BY <2>3, <3>1 DEF FallbackInsert, Due
    <2> QED
      BY <2>1, <2>2, <2>3
  <1>4. \A p \in Objects : InputInOrder(p)'
    BY <1>1, <1>3, InsertInto, InputStays DEF Order, InOrder
  <1>5. \A p \in Objects : Standing(p)' /\ ExecutedInOrder(p)'
    BY <1>1, <1>2, StandingStays, NothingExecuted DEF Order, InOrder
  <1> QED
    BY <1>4, <1>5 DEF Order, InOrder

\* A send into the epoch: either the receiver has not come this far, or it must
\* roll back.
LEMMA OrderSendNow ==
  ASSUME IInv, Order, NEW t \in Threads, SendNow(t)
  PROVE  Order'
  <1>1. PICK e \in Events, d \in Objects :
        /\ d = Dest(e) /\ Insert(e)
        /\ \A p \in Objects \ {d} : speculation'[p] = speculation[p]
        /\ speculation'[d].current_time = speculation[d].current_time
        /\ IF speculation[d].current_time >= Time(e)
           THEN /\ speculation'[d].standing_rollback
                /\ \/ speculation'[d].causality_violation_time = Time(e)
                   \/ /\ speculation[d].standing_rollback
                      /\ speculation'[d].causality_violation_time
                           = speculation[d].causality_violation_time
           ELSE /\ speculation'[d].standing_rollback = speculation[d].standing_rollback
                /\ speculation'[d].causality_violation_time = speculation[d].causality_violation_time
    <2> DEFINE d == model.dest[NextSend(t)]
               time == model.time[NextSend(t)]
    <2>1. PICK c \in Copies :
              [kind |-> NextSend(t), copy |-> c] \in Events /\ Insert([kind |-> NextSend(t), copy |-> c])
      BY SendNowEffect
    <2>2. /\ d = Dest([kind |-> NextSend(t), copy |-> c])
          /\ time = Time([kind |-> NextSend(t), copy |-> c])
      BY DEF Dest, Time
    <2>3. /\ d \in Objects
          /\ \A p \in Objects \ {d} : speculation'[p] = speculation[p]
          /\ speculation'[d].current_time = speculation[d].current_time
          /\ IF speculation[d].current_time >= time
             THEN /\ speculation'[d].standing_rollback
                  /\ \/ speculation'[d].causality_violation_time = time
                     \/ /\ speculation[d].standing_rollback
                        /\ speculation'[d].causality_violation_time
                             = speculation[d].causality_violation_time
             ELSE /\ speculation'[d].standing_rollback = speculation[d].standing_rollback
                  /\ speculation'[d].causality_violation_time
                       = speculation[d].causality_violation_time
      BY SendNowEffect DEF IsStraggler
    <2> HIDE DEF d, time
    <2> QED
      BY <2>1, <2>2, <2>3
  <1>2. UNCHANGED <<model, epochs, retractable_queue>> /\ pc[t] = "process"
    BY DEF SendNow
  <1>3. \A p \in Objects : RollingBack(p)' <=> RollingBack(p)
    <2>1. OthersStay(t) /\ pc'[t] \notin {"restore", "undo"}
      BY OneMoves, SendMoves DEF Step
    <2> QED
      BY <1>2, <2>1, RollingStays
  <1>4. /\ \A p \in Objects \ {d} : queue'[p] = queue[p]
        /\ \A s \in Slots : ToSet(queue'[d][s]) \subseteq ToSet(queue[d][s]) \cup {e}
        /\ \A p \in Objects : InputInOrder(p)'
    BY <1>1, <1>2, InsertInto DEF Order, InOrder
  <1>5. ASSUME NEW p \in Objects \ {d} PROVE InOrder(p)'
    BY <1>1, <1>2, <1>3, <1>4, InOrderStays DEF Order
  <1>6. Standing(d)'
    <2>1. e.kind \in Kinds
      BY DEF Events
    <2> QED
      BY <1>1, <1>2, <2>1 DEF Order, InOrder, Standing, Time
  <1>7. ExecutedInOrder(d)'
    <2>1. /\ Time(e) \in Nat /\ speculation[d].current_time \in Nat
          /\ \A f \in ToSet(retractable_queue[d]) : Time(f) \in Nat
      <3>1. retractable_queue[d] \in Seq(Events) /\ speculation[d] \in Statuses /\ ModelOK
        BY DEF IInv, Lists, QueueTypes, ObjectTypes
      <3> QED
        BY <3>1, EventTypes, Elements DEF Statuses
    <2>2. TimeOrdered(retractable_queue[d])'
      BY <1>2 DEF Order, InOrder, ExecutedInOrder, TimeOrdered, Time
    <2>3. current_index' = current_index /\ current_index \in Slots
      BY <1>2, TimeTypes DEF current_index, IInv
    <2>4. ASSUME Settled(d)', NEW f \in ToSet(retractable_queue[d]),
                 NEW g \in ToSet(queue'[d][current_index])
          PROVE  Time(f) <= Time(g)
      <3>1. ~(speculation[d].current_time >= Time(e)) /\ Settled(d)
        BY <1>1, <1>3, <2>4 DEF Settled
      <3>2. CASE g \in ToSet(queue[d][current_index])
        BY <3>1, <3>2 DEF Order, InOrder, ExecutedInOrder
      <3>3. CASE g = e
        <4>1. Time(f) <= speculation[d].current_time
          BY <3>1 DEF Order, InOrder, ExecutedInOrder, Settled
        <4> QED
          BY <2>1, <3>1, <3>3, <4>1
      <3> QED
        BY <1>4, <2>3, <3>2, <3>3
    <2> QED
      BY <1>1, <1>2, <1>3, <2>2, <2>3, <2>4, SameTimes DEF Order, InOrder, ExecutedInOrder
  <1> QED
    BY <1>4, <1>5, <1>6, <1>7 DEF Order, InOrder

\* The first event of the slot is executed next, and is not earlier than what
\* has been executed.
LEMMA OrderExtract ==
  ASSUME IInv, Order, NEW t \in Threads, Extract(t)
  PROVE  Order'
  <1>1. PICK o \in Objects, n \in Slots, e \in Events :
        /\ o = target[t] /\ n = current_index /\ e = Head(queue[o][n]) /\ pc[t] = "extract"
        /\ ~speculation[o].standing_rollback /\ queue[o][n] # <<>>
        /\ queue' = [queue EXCEPT ![o][n] = Tail(queue[o][n])]
        /\ retractable_queue' = [retractable_queue EXCEPT ![o] = Append(retractable_queue[o], e)]
        /\ speculation' = [speculation EXCEPT ![o].current_time = Time(e)]
    <2>1. target[t] \in Objects /\ current_index \in Slots
      BY TimeTypes DEF Extract, IInv, Held, Holds
    <2>2. Head(queue[target[t]][current_index]) \in Events
      BY <2>1, EndsType DEF Extract, HasWork, IInv, Lists, QueueTypes
    <2> QED
      BY <2>1, <2>2 DEF Extract, HasWork
  <1>2. UNCHANGED <<model, epochs>>
    BY DEF Extract
  <1>3. /\ queue \in [Objects -> [Slots -> Seq(Events)]] /\ retractable_queue \in [Objects -> Seq(Events)]
        /\ speculation \in [Objects -> Statuses] /\ ModelOK
    BY DEF IInv, Lists, QueueTypes, ObjectTypes
  <1>4. /\ \A p \in Objects \ {o} : /\ queue'[p] = queue[p] /\ speculation'[p] = speculation[p]
                                    /\ retractable_queue'[p] = retractable_queue[p]
        /\ \A s \in Slots : queue'[o][s] = IF s = n THEN Tail(queue[o][s]) ELSE queue[o][s]
        /\ retractable_queue'[o] = Append(retractable_queue[o], e)
        /\ speculation'[o].current_time = Time(e)
        /\ speculation'[o].standing_rollback = speculation[o].standing_rollback
    BY <1>1, <1>3 DEF Statuses
  <1>5. \A p \in Objects : RollingBack(p)' <=> RollingBack(p)
    <2>1. OthersStay(t) /\ pc'[t] = "copy"
      BY OneMoves DEF Step, Extract, Goto, IInv, ThreadTypes
    <2> QED
      BY <1>1, <2>1, RollingStays
  <1>6. \A p \in Objects \ {o} : InOrder(p)'
    BY <1>2, <1>4, <1>5, InOrderStays DEF Order
  <1>7. /\ ToSet(queue[o][n]) = {e} \cup ToSet(Tail(queue[o][n]))
        /\ TimeOrdered(queue[o][n])
        /\ TimeOrdered(Tail(queue[o][n])) /\ \A f \in ToSet(queue[o][n]) : Time(e) <= Time(f)
    <2>1. queue[o][n] \in Seq(Events) /\ TimeOrdered(queue[o][n])
      BY <1>3 DEF Order, InOrder, InputInOrder
    <2> QED
      BY <1>1, <1>3, <2>1, EndsElements, TailOrdered
  <1>8. ToSet(retractable_queue'[o]) = ToSet(retractable_queue[o]) \cup {e}
    BY <1>3, <1>4, AppendElements
  <1>9. /\ \A f \in ToSet(retractable_queue[o]), g \in ToSet(queue[o][n]) : Time(f) <= Time(g)
        /\ Dest(e) = o /\ SlotOf(e) = n
    <2>1. Settled(o)
      BY <1>1, NotRollingBack DEF Runs, Settled
    <2> QED
      BY <1>1, <1>7, <2>1 DEF Order, InOrder, InputInOrder, ExecutedInOrder
  <1>10. InputInOrder(o)'
    <2> SUFFICES ASSUME NEW s \in Slots
                 PROVE  /\ TimeOrdered(queue'[o][s])
                        /\ \A f \in ToSet(queue'[o][s]) : Dest(f) = o /\ SlotOf(f) = s
      BY <1>2 DEF InputInOrder, TimeOrdered, Time, Dest, SlotOf
    <2> QED
      BY <1>4, <1>7 DEF Order, InOrder, InputInOrder
  <1>11. ExecutedInOrder(o)'
    <2>1. TimeOrdered(retractable_queue'[o])
      <3>1. retractable_queue[o] \in Seq(Events) /\ TimeOrdered(retractable_queue[o])
        BY <1>3 DEF Order, InOrder, ExecutedInOrder
      <3>2. \A f \in ToSet(retractable_queue[o]) : Time(f) <= Time(e)
        BY <1>7, <1>9
      <3> QED
        BY <1>3, <1>4, <3>1, <3>2, AppendOrdered
    <2>2. TimeOrdered(retractable_queue[o])'
      BY <1>2, <2>1 DEF TimeOrdered, Time
    <2>3. current_index' = n /\ Time(e) <= Time(e)
      BY <1>1, <1>2, <1>3, EventTypes DEF current_index
    <2>4. \A f \in ToSet(retractable_queue'[o]) :
              /\ Dest(f) = o /\ SlotOf(f) = n /\ Time(f) <= Time(e)
              /\ \A g \in ToSet(queue'[o][n]) : Time(f) <= Time(g)
      BY <1>1, <1>4, <1>7, <1>8, <1>9, <2>3 DEF Order, InOrder, ExecutedInOrder
    <2> QED
      BY <1>2, <1>4, <2>2, <2>3, <2>4, SameTimes DEF ExecutedInOrder
  <1>12. Standing(o)'
    BY <1>1, <1>4 DEF Standing
  <1> QED
    BY <1>6, <1>10, <1>11, <1>12 DEF Order, InOrder

\* The end of an epoch: nothing is retractable any more when the rollbacks are
\* forgotten and the slots move on.
LEMMA OrderClose ==
  ASSUME IInv, Ownership, Cleanup, Order, NEW t \in Threads,
         Retract(t) \/ Flush(t) \/ UpdateTiming(t)
  PROVE  Order'
  <1>1. UNCHANGED <<model, queue>>
    BY DEF Retract, Flush, UpdateTiming, queues
  <1>2. \A p \in Objects : InputInOrder(p)'
    BY <1>1, InputStays DEF Order, InOrder
  <1>3. CASE Retract(t)
    <2>1. /\ UNCHANGED <<epochs, speculation>> /\ pc[t] = "retract" /\ OthersStay(t)
          /\ pc'[t] \in {"retract", "flush"}
      BY <1>3, OneMoves DEF Retract, Step, Goto, IInv, ThreadTypes, objects
    <2>2. \A p \in Objects : RollingBack(p)' <=> RollingBack(p)
      BY <2>1, RollingStays
    <2>3. \A p \in Objects : retractable_queue'[p] = retractable_queue[p] \/ retractable_queue'[p] = <<>>
      BY <1>3 DEF Retract, IInv, Lists, QueueTypes
    <2> QED
      BY <1>1, <1>2, <2>1, <2>2, <2>3, ExecutedStays, NothingExecuted, StandingStays
         DEF Order, InOrder
  <1>4. CASE Flush(t)
    <2>1. AllIn(Closing) /\ retractable_object_identifiers = OBJECTS
      BY <1>4, OnePhase DEF Flush, Closing, Cleanup, Counted
    <2>2. \A p \in Objects : retractable_queue'[p] = <<>>
      BY <1>4, <2>1, ConstantsAssumption DEF Flush, Cleanup, Retracted, Objects
    <2>3. shadow_object_identifiers \in Objects
      BY <1>4, ConstantsAssumption DEF Flush, IInv, CounterTypes, Objects
    <2>4. \A p \in Objects : \/ speculation'[p] = speculation[p]
                             \/ ~speculation'[p].standing_rollback
      BY <1>4, <2>3 DEF Flush, Released, IInv, ObjectTypes, Statuses
    <2> QED
      BY <1>1, <1>2, <2>2, <2>4, NothingExecuted DEF Order, InOrder, Standing
  <1>5. CASE UpdateTiming(t)
    <2>1. UNCHANGED <<speculation, retractable_queue>> /\ AllIn(Turning)
      BY <1>5, OnePhase DEF UpdateTiming, objects, queues, Turning
    <2>2. \A p \in Objects : retractable_queue'[p] = <<>>
      BY <2>1 DEF Cleanup, Fresh
    <2> QED
      BY <1>1, <1>2, <2>1, <2>2, NothingExecuted, StandingStays DEF Order, InOrder
  <1> QED
    BY <1>3, <1>4, <1>5

LEMMA OrderBarriers ==
  ASSUME IInv, Order, Barriers
  PROVE  Order'
  <1>1. UNCHANGED <<model, epochs, queue, retractable_queue, speculation>>
    BY DEF Barriers, queues, objects
  <1>2. \A p \in Objects : ~RollingBack(p) /\ ~RollingBack(p)'
    BY DEF Barriers, Barrier, RollingBack
  <1> QED
    BY <1>1, <1>2, InOrderStays DEF Order

LEMMA OrderStep ==
  ASSUME IInv, Ownership, Cleanup, Order, NEW t \in Threads, Step(t)
  PROVE  Order'
  BY OrderUnmoved, OrderTake, OrderRelease, OrderAnnihilate, OrderReinsert, OrderInsert,
     OrderSendNow, OrderExtract, OrderClose DEF Step

LEMMA OrderUnchanged ==
  ASSUME Order, UNCHANGED vars
  PROVE  Order'
  <1>1. \A p \in Objects : RollingBack(p)' <=> RollingBack(p)
    BY DEF RollingBack, vars, locals
  <1> QED
    BY <1>1, InOrderStays DEF Order, vars, queues, objects

LEMMA OrderAtFirst == Init => Order
  BY EmptyElements DEF Init, Order, InOrder, Standing, InputInOrder, ExecutedInOrder, TimeOrdered

LEMMA AlwaysOrder == Spec => [](IInv /\ Ownership /\ Cleanup /\ Order)
  <1>1. IInv /\ Ownership /\ Cleanup /\ [Next]_vars => Cleanup'
    BY CleanupBarriers, CleanupStep, CleanupUnchanged DEF Next
  <1>2. IInv /\ Ownership /\ Cleanup /\ Order /\ [Next]_vars => Order'
    BY OrderBarriers, OrderStep, OrderUnchanged DEF Next
  <1> QED
    BY <1>1, <1>2, CleanupAtFirst, OrderAtFirst, AlwaysOwnership, PTL DEF Spec

\* ScheduleNewEvent, the reinsertion of retracted events, annihilation and the
\* fallback queue keep the input queue and the retractable queue of each object
\* in timestamp order, and every event in the slot of its timestamp, although
\* several threads insert and unlink between two steps of the owner.
THEOREM QueuesStayInOrder == Spec => []QueuesInOrder
  <1>1. Order => QueuesInOrder
    BY DEF Order, InOrder, InputInOrder, ExecutedInOrder, QueuesInOrder
  <1> QED
    BY <1>1, AlwaysOrder, PTL

\* An object without a rollback to make has executed nothing later than what it
\* still has to execute in the epoch: each straggler, inserted by whichever
\* thread, leaves a standing rollback or is put in after all that was executed
\* (the check "causality violation order" of queue_extract).
THEOREM CausalityIsKept == Spec => []CausalOrder
  <1>1. Order => CausalOrder
    BY DEF Order, InOrder, ExecutedInOrder, CausalOrder
  <1> QED
    BY <1>1, AlwaysOrder, PTL

-----------------------------------------------------------------------------
(* The state of an object is its checkpoint plus its retractable queue *)

KindsOf(q) == [i \in DOMAIN q |-> q[i].kind]

Copying(t, o) == pc[t] = "copy" /\ target[t] = o

\* Between Extract and Process the last event of the retractable queue is the
\* one that is being executed, and is not in the history yet.
Recorded(o) ==
    AllIn(Running) /\ Settled(o) =>
        /\ ~Executing(o) => history[o] = KindsOf(retractable_queue[o])
        /\ \A t \in Threads : Copying(t, o) =>
              /\ retractable_queue[o] # <<>>
              /\ event[t][1] = Last(retractable_queue[o])
              /\ history[o] = KindsOf(Front(retractable_queue[o]))

\* An object whose events are being retracted is at its checkpoint.
Restored == \A t \in Threads : pc[t] = "undo" => history[target[t]] = <<>>

HistoryInv == Restored /\ \A o \in Objects : Recorded(o)

LEMMA KindsOfAppend ==
  ASSUME NEW q \in Seq(Events), q # <<>>
  PROVE  Append(KindsOf(Front(q)), Last(q).kind) = KindsOf(q)
  <1> DEFINE n == Len(q) - 1
             p == Front(q)
  <1>1. /\ Len(q) \in Nat \ {0} /\ DOMAIN q = 1..Len(q) /\ Last(q) = q[Len(q)]
        /\ p \in Seq(Events) /\ Len(p) = n /\ DOMAIN p = 1..n /\ \A i \in 1..n : p[i] = q[i]
    <2>1. Len(q) \in Nat \ {0} /\ DOMAIN q = 1..Len(q) /\ Last(q) = q[Len(q)]
      BY Elements, EmptySeq DEF Last
    <2>2. n \in 0..Len(q) /\ 1 \in Nat \ {0} /\ 1 <= n + 1 /\ p = SubSeq(q, 1, n)
      BY <2>1 DEF Front
    <2> HIDE DEF n, p
    <2>3. p \in Seq(Events) /\ Len(p) = (n - 1) + 1 /\ \A i \in 1..((n - 1) + 1) : p[i] = q[(1 + i) - 1]
      BY <2>2, Sublist
    <2>4. (n - 1) + 1 = n /\ \A i \in 1..n : (1 + i) - 1 = i
      BY <2>2
    <2>5. DOMAIN p = 1..n
      BY <2>3, <2>4, Elements
    <2> QED
      BY <2>1, <2>3, <2>4, <2>5
  <1>2. n \in Nat /\ Len(q) = n + 1
    BY <1>1
  <1> HIDE DEF n, p
  <1>3. \A i \in 1..(n + 1) : q[i].kind \in Kinds
    <2>1. \A i \in 1..(n + 1) : q[i] \in Events
      BY <1>1, <1>2, Elements
    <2> QED
      BY <2>1 DEF Events
  <1>4. KindsOf(p) = [i \in 1..n |-> q[i].kind]
    BY <1>1 DEF KindsOf
  <1>5. [i \in 1..n |-> q[i].kind] \in Seq(Kinds) /\ Len([i \in 1..n |-> q[i].kind]) = n
    BY <1>2, <1>3
  <1>6. Append([i \in 1..n |-> q[i].kind], q[n + 1].kind) = [i \in 1..(n + 1) |-> q[i].kind]
    <2> DEFINE a == [i \in 1..n |-> q[i].kind]
               b == Append(a, q[n + 1].kind)
    <2>1. b \in Seq(Kinds) /\ Len(b) = n + 1 /\ b[n + 1] = q[n + 1].kind /\ \A i \in 1..n : b[i] = a[i]
      <3> HIDE DEF a
      <3> QED
        BY <1>2, <1>3, <1>5, AppendProperties DEF a
    <2>2. DOMAIN b = 1..(n + 1)
      <3> HIDE DEF b
      <3> QED
        BY <2>1, Elements
    <2> HIDE DEF b
    <2>3. \A i \in 1..(n + 1) : b[i] = q[i].kind
      BY <1>2, <2>1
    <2>4. b = [i \in DOMAIN b |-> b[i]]
      BY <2>1
    <2> QED
      BY <2>2, <2>3, <2>4 DEF b
  <1> QED
    BY <1>1, <1>2, <1>4, <1>6 DEF KindsOf, p

\* Appending an event.
LEMMA EndsOfAppend ==
  ASSUME NEW q \in Seq(Events), NEW e \in Events
  PROVE  Append(q, e) # <<>> /\ Last(Append(q, e)) = e /\ Front(Append(q, e)) = q
  BY DEF Last, Front

LEMMA RecordedStays ==
  ASSUME NEW o \in Objects, Recorded(o), AllIn(Running)' => AllIn(Running),
         Settled(o)' => Settled(o),
         history'[o] = history[o], retractable_queue'[o] = retractable_queue[o],
         \A u \in Threads : /\ Copying(u, o)' <=> Copying(u, o)
                            /\ Copying(u, o) => event'[u] = event[u]
  PROVE  Recorded(o)'
  <1>1. Executing(o)' <=> Executing(o)
    BY DEF Executing, Copying
  <1> QED
    BY <1>1 DEF Recorded, KindsOf

\* A step of a thread at a point where it executes no event.
LEMMA CopyingStays ==
  ASSUME NEW t \in Threads, OthersStay(t), pc[t] # "copy", pc'[t] # "copy"
  PROVE  \A o \in Objects, u \in Threads : /\ Copying(u, o)' <=> Copying(u, o)
                                           /\ Copying(u, o) => event'[u] = event[u]
  BY DEF OthersStay, Copying

LEMMA RestoredStays ==
  ASSUME NEW t \in Threads, OthersStay(t), Restored, history' = history,
         pc'[t] # "undo" \/ (pc[t] = "undo" /\ target'[t] = target[t])
  PROVE  Restored'
  BY DEF Restored, OthersStay

LEMMA RunningStays ==
  ASSUME IInv, Ownership, NEW t \in Threads, Step(t)
  PROVE  AllIn(Running)' => AllIn(Running)
  BY OneMoves, PhaseKept DEF Ownership, PhasesStay

\* Nobody else copies the event of an object that a thread runs.
LEMMA NotCopying ==
  ASSUME IInv, NEW t \in Threads, NEW o \in Objects, Runs(t, o)
  PROVE  \A u \in Threads \ {t} : ~Copying(u, o) /\ ~(pc[u] \in {"restore", "undo"} /\ target[u] = o)
  BY DEF IInv, RunnerOwns, Copying, Runs

\* Outside an epoch there is nothing to show.
LEMMA HistoryOutside ==
  ASSUME IInv, Ownership, HistoryInv, NEW t \in Threads, Step(t), pc[t] \notin Running
  PROVE  HistoryInv'
  <1>1. ~AllIn(Running)
    BY DEF AllIn
  <1>2. ~AllIn(Running)'
    BY <1>1, RunningStays
  <1>3. \A u \in Threads : pc'[u] \notin Running
    <2>1. Together'
      BY OneMoves, PhaseKept DEF Ownership
    <2> QED
      BY <1>2, <2>1 DEF Together, AllIn, Starting, Running, Closing, Turning, Crossing
  <1> QED
    BY <1>2, <1>3 DEF HistoryInv, Restored, Recorded, Running

\* Steps that touch neither history, nor what is retractable, nor a rollback.
LEMMA HistoryUnmoved ==
  ASSUME IInv, Ownership, HistoryInv, NEW t \in Threads,
         \/ GetEvent(t) \/ Dispense(t) \/ Finish(t) \/ TakenByOther(t) \/ Release(t) \/ Keep(t)
         \/ Redo(t) \/ ReadFreed(t) \/ SendFiltered(t) \/ SendLater(t) \/ SendNow(t)
  PROVE  HistoryInv'
  <1>1. OthersStay(t) /\ (AllIn(Running)' => AllIn(Running))
    BY OneMoves, RunningStays DEF Step
  <1>2. UNCHANGED <<history, retractable_queue>>
    BY DEF GetEvent, Dispense, Finish, TakenByOther, Release, Keep, Redo, ReadFreed, SendFiltered,
           SendLater, SendNow, queues, objects
  <1>3. /\ pc[t] \notin {"copy", "restore", "undo"} /\ pc'[t] \notin {"copy", "restore", "undo"}
        \/ ReadFreed(t)
    <2>1. CASE SendFiltered(t) \/ SendLater(t) \/ SendNow(t)
      <3>1. ~Process(t)
        BY <2>1 DEF SendFiltered, SendLater, SendNow, Process
      <3> QED
        BY <2>1, <3>1, SendMoves
    <2>2. CASE GetEvent(t) \/ Dispense(t) \/ Release(t)
      BY <2>2, ResumeStack DEF GetEvent, Dispense, Release, IInv, ThreadTypes, Goto, Labels
    <2>3. CASE Finish(t) \/ TakenByOther(t) \/ Keep(t) \/ Redo(t)
      BY <2>3 DEF Finish, TakenByOther, Keep, Redo, IInv, ThreadTypes, Goto
    <2> QED
      BY <2>1, <2>2, <2>3
  <1>4. \A o \in Objects : speculation[o].standing_rollback => speculation'[o].standing_rollback
    <2>1. CASE SendNow(t)
      BY <2>1, SendNowEffect
    <2>2. CASE Release(t)
      BY <2>2 DEF Release, Released, IInv, Held, Holds, ObjectTypes, Statuses
    <2>3. CASE ~SendNow(t) /\ ~Release(t)
      BY <2>3 DEF GetEvent, Dispense, Finish, TakenByOther, Keep, Redo, ReadFreed, SendFiltered,
                  SendLater, objects
    <2> QED
      BY <2>1, <2>2, <2>3
  <1>5. CASE ReadFreed(t)
    BY <1>5 DEF ReadFreed, HistoryInv, Restored, Recorded, Executing, Copying, KindsOf, Settled,
                RollingBack, AllIn, queues, objects, locals
  <1>6. CASE ~ReadFreed(t)
    <2>1. \A o \in Objects : Settled(o)' => Settled(o)
      BY <1>1, <1>3, <1>4, <1>6, RollingStays DEF Settled
    <2>2. \A o \in Objects : Recorded(o)'
      BY <1>1, <1>2, <1>3, <1>6, <2>1, CopyingStays, RecordedStays DEF HistoryInv
    <2>3. Restored'
      BY <1>1, <1>2, <1>3, <1>6, RestoredStays DEF HistoryInv
    <2> QED
      BY <2>2, <2>3 DEF HistoryInv
  <1> QED
    BY <1>5, <1>6

\* What a step of thread t does to the objects it does not work on.
LEMMA HistoryElsewhere ==
  ASSUME IInv, Ownership, HistoryInv, NEW t \in Threads, Step(t), NEW o \in Objects,
         \A p \in Objects \ {o} :
            /\ history'[p] = history[p] /\ retractable_queue'[p] = retractable_queue[p]
            /\ speculation[p].standing_rollback => speculation'[p].standing_rollback,
         pc[t] \in {"take", "restore", "undo", "extract", "copy"} => target[t] = o,
         pc'[t] \in {"take", "restore", "undo", "extract", "copy"} => target'[t] = o,
         \/ pc[t] \in {"take", "restore", "undo", "extract", "copy"}
         \/ pc'[t] \in {"take", "restore", "undo", "extract", "copy"}
  PROVE  \A p \in Objects \ {o} : Recorded(p)'
  <1> SUFFICES ASSUME NEW p \in Objects \ {o} PROVE Recorded(p)'
    OBVIOUS
  <1>1. OthersStay(t) /\ (AllIn(Running)' => AllIn(Running))
    BY OneMoves, RunningStays
  <1>2. RollingBack(p)' <=> RollingBack(p)
    BY <1>1 DEF RollingBack, OthersStay
  <1>3. \A u \in Threads : /\ Copying(u, p)' <=> Copying(u, p)
                           /\ Copying(u, p) => event'[u] = event[u]
    BY <1>1 DEF OthersStay, Copying
  <1> QED
    BY <1>1, <1>2, <1>3, RecordedStays DEF Settled, HistoryInv

LEMMA HistoryTake ==
  ASSUME IInv, Ownership, Order, HistoryInv, NEW t \in Threads, Take(t)
  PROVE  HistoryInv'
  <1>1. PICK o \in Objects :
        /\ o = target[t] /\ UNCHANGED <<retractable_queue, history, target, event>> /\ pc[t] = "take"
        /\ \A p \in Objects \ {o} : speculation'[p] = speculation[p]
        /\ \/ /\ ~speculation[o].standing_rollback /\ pc'[t] = "check"
           \/ /\ speculation[o].standing_rollback
              /\ pc'[t] = IF speculation[o].causality_violation_time > 0 THEN "restore" ELSE "check"
    BY TakeStatus DEF Take, queues
  <1>2. OthersStay(t) /\ (AllIn(Running)' => AllIn(Running)) /\ Step(t)
    BY OneMoves, RunningStays DEF Step
  <1>3. Restored'
    BY <1>1, <1>2, RestoredStays DEF HistoryInv
  <1>4. \A p \in Objects \ {o} : Recorded(p)'
    BY <1>1, <1>2, HistoryElsewhere
  <1>5. Recorded(o)'
    <2>1. CASE speculation[o].standing_rollback
      <3>1. speculation[o].causality_violation_time > 0
        BY <1>1, <2>1, ModelTypes DEF Order, InOrder, Standing, IInv, Lists
      <3>2. RollingBack(o)'
        BY <1>1, <2>1, <3>1 DEF RollingBack
      <3> QED
        BY <3>2 DEF Recorded, Settled
    <2>2. CASE ~speculation[o].standing_rollback
      <3>1. pc'[t] = "check" /\ (RollingBack(o)' <=> RollingBack(o))
        BY <1>1, <1>2, <2>2, RollingStays
      <3>2. Settled(o)' => Settled(o)
        BY <2>2, <3>1 DEF Settled
      <3> QED
        BY <1>1, <1>2, <3>1, <3>2, CopyingStays, RecordedStays DEF HistoryInv
    <2> QED
      BY <2>1, <2>2
  <1> QED
    BY <1>3, <1>4, <1>5 DEF HistoryInv

LEMMA HistoryRestore ==
  ASSUME IInv, Ownership, HistoryInv, NEW t \in Threads, Restore(t)
  PROVE  HistoryInv'
  <1>1. PICK o \in Objects :
        /\ o = target[t] /\ UNCHANGED <<retractable_queue, speculation, target>> /\ pc[t] = "restore"
        /\ history' = [history EXCEPT ![o] = <<>>] /\ pc'[t] = "undo"
    BY DEF Restore, locals, IInv, Held, Holds, ThreadTypes, Goto
  <1>2. OthersStay(t) /\ Step(t)
    BY OneMoves DEF Step
  <1>3. \A p \in Objects : history'[p] = IF p = o THEN <<>> ELSE history[p]
    BY <1>1 DEF IInv, ObjectTypes
  <1>4. Restored'
    <2> SUFFICES ASSUME NEW u \in Threads, pc'[u] = "undo" PROVE history'[target'[u]] = <<>>
      BY DEF Restored
    <2>1. target'[u] = target[u] /\ (u = t \/ pc[u] = "undo")
      BY <1>1, <1>2 DEF OthersStay
    <2>2. target[u] \in Objects
      BY <1>1, <2>1 DEF IInv, Held, Holds
    <2> QED
      BY <1>1, <1>3, <2>1, <2>2 DEF HistoryInv, Restored
  <1>5. \A p \in Objects \ {o} : Recorded(p)'
    BY <1>1, <1>2, <1>3, HistoryElsewhere
  <1>6. RollingBack(o)'
    BY <1>1 DEF RollingBack
  <1> QED
    BY <1>4, <1>5, <1>6 DEF HistoryInv, Recorded, Settled

LEMMA HistoryAnnihilate ==
  ASSUME IInv, Ownership, HistoryInv, NEW t \in Threads, Annihilate(t)
  PROVE  HistoryInv'
  <1>1. PICK e \in Events, d \in Objects :
        /\ \A p \in Objects \ {d} : speculation'[p] = speculation[p]
        /\ speculation'[d].standing_rollback
        /\ retractable_queue' = [retractable_queue EXCEPT ![d] = Without(retractable_queue[d], e)]
    <2> DEFINE e == Last(log_queue[target[t]]).event
               d == Dest(e)
    <2>1. /\ e \in Events /\ d \in Objects
          /\ \A p \in Objects \ {d} : speculation'[p] = speculation[p]
          /\ speculation'[d].standing_rollback
          /\ retractable_queue' = [retractable_queue EXCEPT ![d] = Without(retractable_queue[d], e)]
      BY AnnihilateEffect
    <2> HIDE DEF e, d
    <2> QED
      BY <2>1
  <1>2. UNCHANGED <<history, pc, target, event>> /\ pc[t] = "undo"
    BY DEF Annihilate
  <1>3. \A p \in Objects \ {d} : retractable_queue'[p] = retractable_queue[p]
    BY <1>1 DEF IInv, Lists, QueueTypes
  <1>4. \A p \in Objects : RollingBack(p)' <=> RollingBack(p)
    BY <1>2 DEF RollingBack
  <1>5. \A p \in Objects \ {d} : Recorded(p)'
    <2>1. AllIn(Running)' => AllIn(Running)
      BY <1>2 DEF AllIn
    <2>2. \A p \in Objects, u \in Threads : /\ Copying(u, p)' <=> Copying(u, p)
                                            /\ Copying(u, p) => event'[u] = event[u]
      BY <1>2 DEF Copying
    <2> QED
      BY <1>1, <1>2, <1>3, <1>4, <2>1, <2>2, RecordedStays DEF HistoryInv, Settled
  <1>6. Recorded(d)'
    BY <1>1 DEF Recorded, Settled
  <1>7. Restored'
    BY <1>2 DEF HistoryInv, Restored
  <1> QED
    BY <1>5, <1>6, <1>7 DEF HistoryInv

LEMMA HistoryReinsert ==
  ASSUME IInv, Ownership, HistoryInv, NEW t \in Threads, Reinsert(t)
  PROVE  HistoryInv'
  <1>1. PICK o \in Objects :
        /\ o = target[t] /\ UNCHANGED <<history, speculation, target>> /\ pc[t] = "undo"
        /\ retractable_queue' = [retractable_queue EXCEPT ![o] = <<>>] /\ pc'[t] = "check"
    BY DEF Reinsert, objects, IInv, Held, Holds, ThreadTypes, Goto
  <1>2. OthersStay(t) /\ Step(t)
    BY OneMoves DEF Step
  <1>3. \A p \in Objects : retractable_queue'[p] = IF p = o THEN <<>> ELSE retractable_queue[p]
    BY <1>1 DEF IInv, Lists, QueueTypes
  <1>4. Restored'
    BY <1>1, <1>2, RestoredStays DEF HistoryInv
  <1>5. \A p \in Objects \ {o} : Recorded(p)'
    BY <1>1, <1>2, <1>3, HistoryElsewhere
  <1>6. \A u \in Threads : ~Copying(u, o)'
    <2>1. Runs(t, o)
      BY <1>1 DEF Runs
    <2>2. \A u \in Threads \ {t} : ~Copying(u, o)
      BY <2>1, NotCopying
    <2> QED
      BY <1>1, <1>2, <2>2 DEF Copying, OthersStay
  <1>7. history'[o] = KindsOf(retractable_queue'[o])
    BY <1>1, <1>3 DEF HistoryInv, Restored, KindsOf
  <1> QED
    BY <1>4, <1>5, <1>6, <1>7 DEF HistoryInv, Recorded, KindsOf

LEMMA HistoryExtract ==
  ASSUME IInv, Ownership, HistoryInv, NEW t \in Threads, Extract(t)
  PROVE  HistoryInv'
  <1>1. PICK o \in Objects, e \in Events :
        /\ o = target[t] /\ UNCHANGED <<history, target>> /\ pc[t] = "extract" /\ pc'[t] = "copy"
        /\ ~speculation[o].standing_rollback
        /\ retractable_queue' = [retractable_queue EXCEPT ![o] = Append(retractable_queue[o], e)]
        /\ speculation' = [speculation EXCEPT ![o].current_time = Time(e)]
        /\ event' = [event EXCEPT ![t] = <<e>>]
    <2>1. target[t] \in Objects /\ current_index \in Slots
      BY TimeTypes DEF Extract, IInv, Held, Holds
    <2>2. Head(queue[target[t]][current_index]) \in Events
      BY <2>1, EndsType DEF Extract, HasWork, IInv, Lists, QueueTypes
    <2>3. pc'[t] = "copy"
      BY DEF Extract, Goto, IInv, ThreadTypes
    <2> QED
      BY <2>1, <2>2, <2>3 DEF Extract
  <1>2. OthersStay(t) /\ Step(t) /\ (AllIn(Running)' => AllIn(Running))
    BY OneMoves, RunningStays DEF Step
  <1>3. /\ retractable_queue \in [Objects -> Seq(Events)] /\ speculation \in [Objects -> Statuses]
        /\ event \in [Threads -> Seq(Events)]
    BY DEF IInv, Lists, QueueTypes, ObjectTypes, ThreadTypes
  <1>4. /\ \A p \in Objects \ {o} : /\ speculation'[p] = speculation[p]
                                    /\ retractable_queue'[p] = retractable_queue[p]
        /\ retractable_queue'[o] = Append(retractable_queue[o], e)
        /\ event'[t][1] = e
    BY <1>1, <1>3
  <1>5. Restored'
    BY <1>1, <1>2, RestoredStays DEF HistoryInv
  <1>6. \A p \in Objects \ {o} : Recorded(p)'
    BY <1>1, <1>2, <1>4, HistoryElsewhere
  <1>7. Recorded(o)'
    <2>1. Runs(t, o)
      BY <1>1 DEF Runs
    <2>2. \A u \in Threads \ {t} : ~Copying(u, o)
      BY <2>1, NotCopying
    <2>3. Settled(o) /\ ~Executing(o)
      BY <1>1, <2>1, <2>2, NotRollingBack DEF Settled, Executing, Copying
    <2>4. AllIn(Running)' => history[o] = KindsOf(retractable_queue[o])
      BY <1>2, <2>3 DEF HistoryInv, Recorded
    <2>5. \A u \in Threads \ {t} : ~Copying(u, o)'
      BY <1>2, <2>2 DEF OthersStay, Copying
    <2>6. Copying(t, o)' /\ Executing(o)'
      BY <1>1 DEF Copying, Executing
    <2>7. /\ retractable_queue'[o] # <<>> /\ Last(retractable_queue'[o]) = e
          /\ Front(retractable_queue'[o]) = retractable_queue[o]
      BY <1>3, <1>4, EndsOfAppend
    <2> QED
      BY <1>1, <1>4, <2>4, <2>5, <2>6, <2>7 DEF Recorded, KindsOf
  <1> QED
    BY <1>5, <1>6, <1>7 DEF HistoryInv

LEMMA HistoryProcess ==
  ASSUME IInv, Ownership, HistoryInv, NEW t \in Threads, Process(t)
  PROVE  HistoryInv'
  <1>1. PICK o \in Objects, e \in Events :
        /\ o = target[t] /\ e = event[t][1] /\ pc[t] = "copy"
        /\ UNCHANGED <<retractable_queue, target, speculation>>
        /\ history' = [history EXCEPT ![o] = Append(history[o], e.kind)]
    <2>1. pc[t] = "copy"
      BY DEF Process
    <2>2. event[t][1] \in Events /\ Dest(event[t][1]) \in Objects /\ target[t] = Dest(event[t][1])
      BY <2>1, Executes
    <2> QED
      BY <2>1, <2>2 DEF Process, queues
  <1>2. OthersStay(t) /\ Step(t) /\ (AllIn(Running)' => AllIn(Running))
    BY OneMoves, RunningStays DEF Step
  <1>3. pc'[t] \in {"idle", "process"}
    BY SendMoves
  <1>4. \A p \in Objects \ {o} : history'[p] = history[p]
    BY <1>1 DEF IInv, ObjectTypes
  <1>5. Runs(t, o)
    BY <1>1 DEF Runs
  <1>6. \A u \in Threads \ {t} : ~Copying(u, o) /\ ~(pc[u] \in {"restore", "undo"} /\ target[u] = o)
    BY <1>5, NotCopying
  <1>7. Restored'
    <2> SUFFICES ASSUME NEW u \in Threads, pc'[u] = "undo" PROVE history'[target'[u]] = <<>>
      BY DEF Restored
    <2>1. u # t /\ target'[u] = target[u] /\ pc[u] = "undo"
      BY <1>2, <1>3 DEF OthersStay
    <2>2. target[u] \in Objects \ {o}
      BY <1>6, <2>1 DEF IInv, Held, Holds
    <2> QED
      BY <1>4, <2>1, <2>2 DEF HistoryInv, Restored
  <1>8. \A p \in Objects \ {o} : Recorded(p)'
    BY <1>1, <1>2, <1>3, <1>4, HistoryElsewhere
  <1>9. Recorded(o)'
    <2>1. ~Executing(o)' /\ \A u \in Threads : ~Copying(u, o)'
      BY <1>2, <1>3, <1>6 DEF OthersStay, Copying, Executing
    <2>2. RollingBack(o)' <=> RollingBack(o)
      BY <1>1, <1>2, <1>3, RollingStays
    <2>3. ASSUME AllIn(Running)', Settled(o)'
          PROVE  history'[o] = KindsOf(retractable_queue[o])
      <3>1. AllIn(Running) /\ Settled(o) /\ Copying(t, o)
        BY <1>1, <1>2, <2>2, <2>3 DEF Settled, Copying
      <3>2. /\ retractable_queue[o] # <<>> /\ e = Last(retractable_queue[o])
            /\ history[o] = KindsOf(Front(retractable_queue[o]))
        BY <1>1, <3>1 DEF HistoryInv, Recorded
      <3>3. history'[o] = Append(KindsOf(Front(retractable_queue[o])), Last(retractable_queue[o]).kind)
        BY <1>1, <3>2 DEF IInv, ObjectTypes
      <3> QED
        BY <3>2, <3>3, KindsOfAppend DEF IInv, Lists, QueueTypes
    <2> QED
      BY <1>1, <2>1, <2>3 DEF Recorded, KindsOf
  <1> QED
    BY <1>7, <1>8, <1>9 DEF HistoryInv

\* An epoch begins with empty lists and checkpoints.
LEMMA HistoryBarriers ==
  ASSUME IInv, Ownership, Cleanup, HistoryInv, Barriers
  PROVE  HistoryInv'
  <1>1. UNCHANGED <<history, retractable_queue>>
    BY DEF Barriers, queues, objects
  <1>2. \A u \in Threads : pc'[u] \notin {"undo", "copy"}
    BY DEF Barriers, Barrier
  <1>3. ASSUME AllIn(Running)'
        PROVE  \A o \in Objects : history[o] = <<>> /\ retractable_queue[o] = <<>>
    <2>1. Threads # {}
      BY ConstantsAssumption, ConstantTypes
    <2>2. AllIn({"started"}) \/ AllIn({"ready"})
      BY <1>3, <2>1 DEF Barriers, Barrier, AllIn, Running
    <2>3. AllIn(Starting) \/ AllIn(Crossing)
      BY <2>2 DEF AllIn, Starting, Crossing
    <2> QED
      BY <2>3 DEF Cleanup, Fresh
  <1> QED
    BY <1>1, <1>2, <1>3 DEF HistoryInv, Restored, Recorded, Copying, KindsOf

LEMMA HistoryStep ==
  ASSUME IInv, Ownership, Order, HistoryInv, NEW t \in Threads, Step(t)
  PROVE  HistoryInv'
  <1>1. CASE pc[t] \notin Running
    BY <1>1, HistoryOutside
  <1>2. CASE pc[t] \in Running
    <2>1. \/ GetEvent(t) \/ Dispense(t) \/ Finish(t) \/ Take(t) \/ TakenByOther(t)
          \/ Restore(t) \/ Annihilate(t) \/ Reinsert(t)
          \/ Release(t) \/ Keep(t) \/ Redo(t) \/ Extract(t)
          \/ Process(t) \/ ReadFreed(t) \/ SendFiltered(t) \/ SendLater(t) \/ SendNow(t)
      BY <1>2 DEF Step, Running, InitObject, InitSend, InitDone, Retract, Flush, Commit, Checkpoint,
                  FlushDone, UpdateTiming, FallbackInsert, FallbackDone
    <2> QED
      BY <2>1, HistoryUnmoved, HistoryTake, HistoryRestore, HistoryAnnihilate, HistoryReinsert,
         HistoryExtract, HistoryProcess
  <1> QED
    BY <1>1, <1>2

LEMMA HistoryUnchanged ==
  ASSUME HistoryInv, UNCHANGED vars
  PROVE  HistoryInv'
  BY DEF HistoryInv, Restored, Recorded, Executing, Copying, KindsOf, Settled, RollingBack, AllIn,
         vars, queues, objects, locals

LEMMA HistoryAtFirst == Init => HistoryInv
  BY DEF Init, HistoryInv, Restored, Recorded, Copying, KindsOf

\* What a rollback puts back into the input queue, the retractable queue, is just
\* what its restored checkpoint loses, at all times at which the object has no
\* rollback to make and no event half executed: none is executed twice on the
\* same state, and none is left out.
THEOREM HistoryMatchesRetractable == Spec => []HistoryIsRetractable
  <1>1. IInv /\ Ownership /\ Cleanup /\ Order /\ HistoryInv /\ [Next]_vars => HistoryInv'
    BY HistoryBarriers, HistoryStep, HistoryUnchanged DEF Next
  <1>2. Ownership /\ HistoryInv => HistoryIsRetractable
    <2> SUFFICES ASSUME Ownership, HistoryInv, InEpoch, NEW o \in Objects, Settled(o), ~Executing(o)
                 PROVE  history[o] = KindsOf(retractable_queue[o])
      BY DEF HistoryIsRetractable, KindsOf
    <2>1. AllIn(Running)
      BY OnePhase DEF InEpoch, Running
    <2> QED
      BY <2>1 DEF HistoryInv, Recorded
  <1> QED
    BY <1>1, <1>2, HistoryAtFirst, AlwaysOrder, PTL DEF Spec

-----------------------------------------------------------------------------
(* The send logs *)

\* The event is where an annihilation looks for it.
Listed(e) ==
    e \in ToSet(queue[Dest(e)][current_index]) \cup ToSet(retractable_queue[Dest(e)])

Alive ==
    AllIn(Running) =>
        \A o \in Objects : \A i \in DOMAIN log_queue[o] : Listed(log_queue[o][i].event)

LoggedOnce ==
    \A o, p \in Objects : \A i \in DOMAIN log_queue[o], j \in DOMAIN log_queue[p] :
        log_queue[o][i].event = log_queue[p][j].event => o = p /\ i = j

LogSorted ==
    \A o \in Objects : \A i, j \in DOMAIN log_queue[o] :
        i <= j => log_queue[o][i].send_time <= log_queue[o][j].send_time

\* Every send has been made at the time of an event.
SendTimes ==
    \A o \in Objects : \A i \in DOMAIN log_queue[o] :
        \E k \in Kinds : log_queue[o][i].send_time = model.time[k]

Logs == Alive /\ LoggedOnce /\ LogSorted /\ SendTimes

\* A logged send lies before the filter, or the object has come as far as it;
\* and what has been sent by a settled object has been sent by an event that is
\* still in its retractable queue.
LogTimed(o) ==
    AllIn(Running) /\ ~RollingBack(o) =>
        \A i \in DOMAIN log_queue[o] :
            LET time == log_queue[o][i].send_time
            IN  /\ time <= filter_message[o] \/ time <= speculation[o].current_time
                /\ Settled(o) => \/ time <= filter_message[o]
                                 \/ \E e \in ToSet(retractable_queue[o]) : time <= Time(e)

Working(t, o) ==
    \/ pc[t] = "copy" /\ target[t] = o
    \/ pc[t] = "process" /\ current[t] = o

Undoing(t, o) == pc[t] \in {"restore", "undo"} /\ target[t] = o

\* The clock of an object is at the event that is being executed.
AtTime(o) ==
    \A t \in Threads : Working(t, o) =>
        /\ speculation[o].current_time = Time(event[t][1])
        /\ Settled(o) => event[t][1] \in ToSet(retractable_queue[o])

\* The filter of an object that is rolled back is at the time of the rollback.
FilterSet(o) ==
    \A t \in Threads : Undoing(t, o) =>
        /\ filter_message[o] = rollback_time[t] - Epsilon
        /\ \E k \in Kinds : rollback_time[t] = model.time[k]

Clocked(o) == LogTimed(o) /\ AtTime(o) /\ FilterSet(o)

Clocks == \A o \in Objects : Clocked(o)

LEMMA LogTypes ==
  ASSUME IInv, NEW o \in Objects
  PROVE  /\ log_queue[o] \in Seq(Sends) /\ DOMAIN log_queue[o] = 1..Len(log_queue[o])
         /\ Len(log_queue[o]) \in Nat
         /\ \A i \in DOMAIN log_queue[o] : /\ log_queue[o][i] \in Sends
                                           /\ log_queue[o][i].event \in Events
                                           /\ log_queue[o][i].send_time \in Nat
         /\ filter_message[o] \in Int /\ speculation[o].current_time \in Nat
         /\ speculation[o] \in Statuses
  <1>1. log_queue[o] \in Seq(Sends) /\ speculation[o] \in Statuses /\ filter_message[o] \in Int
    BY DEF IInv, Lists, QueueTypes, ObjectTypes
  <1>2. /\ DOMAIN log_queue[o] = 1..Len(log_queue[o]) /\ Len(log_queue[o]) \in Nat
        /\ \A i \in DOMAIN log_queue[o] : log_queue[o][i] \in Sends
    BY <1>1, Elements
  <1>3. \A x \in Sends : x.event \in Events /\ x.send_time \in Nat
    BY DEF Sends
  <1>4. speculation[o].current_time \in Nat
    BY <1>1 DEF Statuses
  <1> QED
    BY <1>1, <1>2, <1>3, <1>4

LEMMA ClockStays ==
  ASSUME NEW o \in Objects, Clocked(o), model' = model, AllIn(Running)' => AllIn(Running),
         log_queue'[o] = log_queue[o], filter_message'[o] = filter_message[o],
         retractable_queue'[o] = retractable_queue[o],
         speculation'[o].current_time = speculation[o].current_time,
         speculation[o].standing_rollback => speculation'[o].standing_rollback,
         \A u \in Threads : /\ Working(u, o)' => Working(u, o) /\ event'[u] = event[u]
                            /\ Undoing(u, o)' <=> Undoing(u, o)
                            /\ Undoing(u, o) => rollback_time'[u] = rollback_time[u]
  PROVE  Clocked(o)'
  <1>1. RollingBack(o)' <=> RollingBack(o)
    BY DEF RollingBack, Undoing
  <1>2. Settled(o)' => Settled(o)
    BY <1>1 DEF Settled
  <1>3. LogTimed(o)'
    BY <1>1, <1>2, SameTimes DEF Clocked, LogTimed
  <1>4. AtTime(o)'
    BY <1>2, SameTimes DEF Clocked, AtTime, Time
  <1>5. FilterSet(o)'
    BY DEF Clocked, FilterSet
  <1> QED
    BY <1>3, <1>4, <1>5 DEF Clocked

LEMMA LogsStay ==
  ASSUME Logs, AllIn(Running)' => AllIn(Running),
         UNCHANGED <<model, log_queue, queue, retractable_queue, epochs>>
  PROVE  Logs'
  <1>1. \A e : Listed(e)' <=> Listed(e)
    BY DEF Listed, current_index, Dest
  <1>2. Alive'
    BY <1>1 DEF Logs, Alive
  <1>3. LoggedOnce' /\ LogSorted' /\ SendTimes'
    BY DEF Logs, LoggedOnce, LogSorted, SendTimes
  <1> QED
    BY <1>2, <1>3 DEF Logs

\* A thread outside Take and Reinsert, which begin and end a rollback.
LEMMA ClocksUnmoved ==
  ASSUME IInv, Ownership, Logs, Clocks, NEW t \in Threads,
         \/ GetEvent(t) \/ Dispense(t) \/ Finish(t) \/ TakenByOther(t) \/ Release(t) \/ Keep(t)
         \/ Redo(t) \/ ReadFreed(t) \/ SendFiltered(t) \/ SendLater(t) \/ Restore(t) \/ Process(t)
  PROVE  Logs' /\ Clocks'
  <1>1. OthersStay(t) /\ (AllIn(Running)' => AllIn(Running))
    BY OneMoves, RunningStays DEF Step
  <1>2. UNCHANGED <<model, log_queue, queue, retractable_queue, epochs, filter_message, rollback_time>>
    BY DEF GetEvent, Dispense, Finish, TakenByOther, Release, Keep, Redo, ReadFreed, SendFiltered,
           SendLater, Restore, Process, queues, objects, locals
  <1>3. Logs'
    BY <1>1, <1>2, LogsStay
  <1>4. \A o \in Objects : /\ speculation'[o].current_time = speculation[o].current_time
                           /\ speculation'[o].standing_rollback = speculation[o].standing_rollback
    <2>1. CASE Release(t)
      BY <2>1 DEF Release, Released, IInv, Held, Holds, ObjectTypes, Statuses
    <2>2. CASE ~Release(t)
      BY <2>2 DEF GetEvent, Dispense, Finish, TakenByOther, Keep, Redo, ReadFreed, SendFiltered,
                  SendLater, Restore, Process, objects
    <2> QED
      BY <2>1, <2>2
  <1>5. \A o \in Objects : /\ Working(t, o)' => Working(t, o) /\ event'[t] = event[t]
                           /\ Undoing(t, o)' <=> Undoing(t, o)
    <2>1. CASE Process(t) \/ SendFiltered(t) \/ SendLater(t)
      <3>1. pc[t] \in {"copy", "process"}
        BY <2>1 DEF Process, SendFiltered, SendLater
      <3>2. /\ pc[t] = "copy" => target[t] = Dest(event[t][1])
            /\ pc[t] = "process" => current[t] = Dest(event[t][1])
        BY <3>1, Executes
      <3>3. \/ pc'[t] = "idle"
            \/ pc'[t] = "process" /\ current'[t] = Dest(event[t][1]) /\ event'[t] = event[t]
        BY <2>1, SendMoves
      <3> QED
        BY <3>1, <3>2, <3>3 DEF Working, Undoing
    <2>2. CASE Restore(t)
      BY <2>2 DEF Restore, locals, IInv, ThreadTypes, Goto, Working, Undoing
    <2>3. CASE ReadFreed(t)
      BY <2>3 DEF ReadFreed, locals, Working, Undoing
    <2>4. CASE GetEvent(t) \/ Dispense(t) \/ Release(t)
      <3>1. /\ pc[t] \notin {"copy", "process", "restore", "undo"}
            /\ pc'[t] \notin {"copy", "process", "restore", "undo"}
        BY <2>4, ResumeStack DEF GetEvent, Dispense, Release, IInv, ThreadTypes, Goto, Labels
      <3> QED
        BY <3>1 DEF Working, Undoing
    <2>5. CASE Finish(t) \/ TakenByOther(t) \/ Keep(t) \/ Redo(t)
      BY <2>5 DEF Finish, TakenByOther, Keep, Redo, IInv, ThreadTypes, Goto, Working, Undoing
    <2> QED
      BY <2>1, <2>2, <2>3, <2>4, <2>5
  <1>6. \A o \in Objects, u \in Threads : /\ Working(u, o)' => Working(u, o) /\ event'[u] = event[u]
                                          /\ Undoing(u, o)' <=> Undoing(u, o)
    BY <1>1, <1>5 DEF OthersStay, Working, Undoing
  <1>7. Clocks'
    BY <1>1, <1>2, <1>4, <1>6, ClockStays DEF Clocks
  <1> QED
    BY <1>3, <1>7

\* An object that a step of thread t leaves alone.
LEMMA ClockElsewhere ==
  ASSUME IInv, Ownership, NEW t \in Threads, Step(t), NEW o \in Objects, Clocked(o),
         log_queue'[o] = log_queue[o], filter_message'[o] = filter_message[o],
         retractable_queue'[o] = retractable_queue[o],
         speculation'[o].current_time = speculation[o].current_time,
         speculation[o].standing_rollback => speculation'[o].standing_rollback,
         \A u \in Threads \ {t} : rollback_time'[u] = rollback_time[u],
         ~Working(t, o), ~Working(t, o)', ~Undoing(t, o), ~Undoing(t, o)'
  PROVE  Clocked(o)'
  <1>1. OthersStay(t) /\ (AllIn(Running)' => AllIn(Running))
    BY OneMoves, RunningStays
  <1>2. \A u \in Threads : /\ Working(u, o)' => Working(u, o) /\ event'[u] = event[u]
                           /\ Undoing(u, o)' <=> Undoing(u, o)
                           /\ Undoing(u, o) => rollback_time'[u] = rollback_time[u]
    BY <1>1 DEF OthersStay, Working, Undoing
  <1> QED
    BY <1>1, <1>2, ClockStays DEF OthersStay

\* The thread that runs an object is the only one that works on it.
LEMMA OnlyRunner ==
  ASSUME IInv, NEW t \in Threads, NEW o \in Objects, Runs(t, o)
  PROVE  \A u \in Threads \ {t} : ~Working(u, o) /\ ~Undoing(u, o)
  BY DEF IInv, RunnerOwns, Working, Undoing, Runs

\* A rollback begins at the time of the violation: from here on the filter of
\* the object says so, and nothing is known of its clock.
LEMMA LogTake ==
  ASSUME IInv, Ownership, Order, Logs, Clocks, NEW t \in Threads, Take(t)
  PROVE  Logs' /\ Clocks'
  <1>1. PICK o \in Objects :
        /\ o = target[t] /\ UNCHANGED <<model, queue, retractable_queue, log_queue, epochs, target>>
        /\ pc[t] = "take" /\ Mine(t, o)
        /\ \A p \in Objects \ {o} : speculation'[p] = speculation[p]
        /\ \/ /\ ~speculation[o].standing_rollback /\ pc'[t] = "check"
              /\ speculation'[o].current_time = speculation[o].current_time
              /\ UNCHANGED filter_message
           \/ /\ speculation[o].standing_rollback
              /\ pc'[t] = IF speculation[o].causality_violation_time > 0 THEN "restore" ELSE "check"
              /\ rollback_time'[t] = speculation[o].causality_violation_time
              /\ filter_message' = [filter_message EXCEPT ![o] =
                                      speculation[o].causality_violation_time - Epsilon]
    BY TakeStatus DEF Take, queues
  <1>2. OthersStay(t) /\ (AllIn(Running)' => AllIn(Running)) /\ Step(t)
    BY OneMoves, RunningStays DEF Step
  <1>3. Logs'
    BY <1>1, <1>2, LogsStay
  <1>4. \A u \in Threads \ {t} : rollback_time'[u] = rollback_time[u]
    BY DEF Take, IInv, ThreadTypes
  <1>5. \A p \in Objects : ~Working(t, p) /\ ~Working(t, p)' /\ ~Undoing(t, p)
                           /\ (p # o => ~Undoing(t, p)')
    BY <1>1 DEF Working, Undoing
  <1>6. ASSUME NEW p \in Objects \ {o} PROVE Clocked(p)'
    <2>1. filter_message'[p] = filter_message[p]
      BY <1>1 DEF IInv, ObjectTypes
    <2> QED
      BY <1>1, <1>2, <1>4, <1>5, <2>1, ClockElsewhere DEF Clocks
  <1>7. \A u \in Threads \ {t} : ~Working(u, o) /\ ~Undoing(u, o)
    BY <1>1 DEF Mine, IInv, RunnerOwns, Working, Undoing, Runs
  <1>8. CASE speculation[o].standing_rollback
    <2>1. /\ speculation[o].causality_violation_time > 0
          /\ \E k \in Kinds : speculation[o].causality_violation_time = model.time[k]
      BY <1>1, <1>8, ModelTypes DEF Order, InOrder, Standing, IInv, Lists
    <2>2. /\ pc'[t] = "restore" /\ rollback_time'[t] = speculation[o].causality_violation_time
          /\ filter_message'[o] = speculation[o].causality_violation_time - Epsilon
      BY <1>1, <1>8, <2>1 DEF IInv, ObjectTypes
    <2>3. \A u \in Threads : ~Working(u, o)' /\ (u # t => ~Undoing(u, o)')
      BY <1>2, <1>5, <1>7 DEF OthersStay, Working, Undoing
    <2>4. RollingBack(o)'
      BY <1>1, <2>2 DEF RollingBack
    <2>5. Clocked(o)'
      BY <1>1, <2>1, <2>2, <2>3, <2>4 DEF Clocked, LogTimed, AtTime, FilterSet
    <2> QED
      BY <1>3, <1>6, <2>5 DEF Clocks
  <1>9. CASE ~speculation[o].standing_rollback
    <2>1. ~Undoing(t, o)'
      BY <1>1, <1>9 DEF Undoing
    <2>2. Clocked(o)'
      BY <1>1, <1>2, <1>4, <1>5, <1>9, <2>1, ClockElsewhere DEF Clocks
    <2> QED
      BY <1>3, <1>6, <2>2 DEF Clocks
  <1> QED
    BY <1>8, <1>9

\* A rollback ends when the sends that are left lie before its time, and so
\* before the filter.
LEMMA LogReinsert ==
  ASSUME TimesApart, IInv, Ownership, Order, Logs, Clocks, NEW t \in Threads, Reinsert(t)
  PROVE  Logs' /\ Clocks'
  <1>1. PICK o \in Objects, n \in Slots :
        /\ o = target[t] /\ n = current_index
        /\ UNCHANGED <<model, log_queue, epochs, target, speculation, filter_message>> /\ pc[t] = "undo"
        /\ queue' = [queue EXCEPT ![o][n] = InTimeOrder(queue[o][n] \o retractable_queue[o])]
        /\ retractable_queue' = [retractable_queue EXCEPT ![o] = <<>>]
        /\ ~MustUndo(t) /\ pc'[t] = "check"
    BY TimeTypes DEF Reinsert, IInv, Held, Holds, objects, Goto, ThreadTypes
  <1>2. OthersStay(t) /\ (AllIn(Running)' => AllIn(Running)) /\ Step(t)
    BY OneMoves, RunningStays DEF Step
  <1>3. /\ queue \in [Objects -> [Slots -> Seq(Events)]] /\ retractable_queue \in [Objects -> Seq(Events)]
        /\ ModelOK
    BY DEF IInv, Lists, QueueTypes
  <1>4. ToSet(queue'[o][n]) = ToSet(queue[o][n]) \cup ToSet(retractable_queue[o])
    <2> DEFINE q == queue[o][n] \o retractable_queue[o]
    <2>1. q \in Seq(Events) /\ ToSet(q) = ToSet(queue[o][n]) \cup ToSet(retractable_queue[o])
      BY <1>1, <1>3, ConcatElements
    <2>2. ToSet(InTimeOrder(q)) = ToSet(q)
      <3> HIDE DEF q
      <3> QED
        BY <1>3, <2>1, Ordered
    <2>3. queue'[o][n] = InTimeOrder(q)
      BY <1>1, <1>3
    <2> QED
      BY <2>1, <2>2, <2>3
  <1>5. Logs'
    <2>1. \A p \in Objects \ {o} : queue'[p] = queue[p] /\ retractable_queue'[p] = retractable_queue[p]
      BY <1>1, <1>3
    <2>2. current_index' = current_index
      BY <1>1 DEF current_index
    <2>3. ASSUME NEW e \in Events, Listed(e) PROVE Listed(e)'
      <3>1. Dest(e) \in Objects /\ Dest(e)' = Dest(e)
        BY <1>1, <1>3, EventTypes, SameTimes
      <3> QED
        BY <1>1, <1>4, <2>1, <2>2, <2>3, <3>1 DEF Listed
    <2>4. Alive'
      BY <1>1, <1>2, <2>3, LogTypes DEF Logs, Alive
    <2> QED
      BY <1>1, <2>4 DEF Logs, LoggedOnce, LogSorted, SendTimes
  <1>6. \A u \in Threads \ {t} : rollback_time'[u] = rollback_time[u]
    BY DEF Reinsert, IInv, ThreadTypes
  <1>7. \A p \in Objects : ~Working(t, p) /\ ~Working(t, p)' /\ ~Undoing(t, p)'
                           /\ (p # o => ~Undoing(t, p))
    BY <1>1 DEF Working, Undoing
  <1>8. ASSUME NEW p \in Objects \ {o} PROVE Clocked(p)'
    <2>1. retractable_queue'[p] = retractable_queue[p]
      BY <1>1, <1>3
    <2> QED
      BY <1>1, <1>2, <1>6, <1>7, <2>1, ClockElsewhere DEF Clocks
  <1>9. \A u \in Threads : ~Working(u, o)' /\ ~Undoing(u, o)'
    <2>1. \A u \in Threads \ {t} : ~Working(u, o) /\ ~Undoing(u, o)
      BY <1>1, OnlyRunner DEF Runs
    <2> QED
      BY <1>2, <1>7, <2>1 DEF OthersStay, Working, Undoing
  <1>10. ASSUME NEW i \in DOMAIN log_queue[o] PROVE log_queue[o][i].send_time <= filter_message[o]
    <2> DEFINE x == log_queue[o][i].send_time
               r == rollback_time[t]
    <2>1. PICK k \in Kinds : x = model.time[k]
      BY DEF Logs, SendTimes
    <2>2. /\ filter_message[o] = r - Epsilon
          /\ \E l \in Kinds : r = model.time[l]
      BY <1>1 DEF Clocks, Clocked, FilterSet, Undoing
    <2>3. PICK l \in Kinds : r = model.time[l]
      BY <2>2
    <2>4. x < r
      <3>1. Len(log_queue[o]) \in DOMAIN log_queue[o] /\ i <= Len(log_queue[o]) /\ log_queue[o] # <<>>
        BY LogTypes
      <3>2. Last(log_queue[o]).send_time = log_queue[o][Len(log_queue[o])].send_time
        BY DEF Last
      <3>3. x <= Last(log_queue[o]).send_time
        BY <3>1, <3>2 DEF Logs, LogSorted
      <3>4. ~(Last(log_queue[o]).send_time >= r)
        BY <1>1, <3>1 DEF MustUndo
      <3>5. x \in Nat /\ Last(log_queue[o]).send_time \in Nat /\ r \in Nat
        BY <3>1, <3>2, LogTypes DEF IInv, ThreadTypes
      <3> QED
        BY <3>3, <3>4, <3>5
    <2>5. x <= r - Epsilon
      BY <1>3, <2>1, <2>3, <2>4 DEF TimesApart, ModelOK
    <2> QED
      BY <2>2, <2>5
  <1>11. Clocked(o)'
    BY <1>1, <1>9, <1>10 DEF Clocked, LogTimed, AtTime, FilterSet
  <1> QED
    BY <1>5, <1>8, <1>11 DEF Clocks

\* The object comes as far as the event that it executes next.
LEMMA LogExtract ==
  ASSUME IInv, Ownership, Order, Logs, Clocks, NEW t \in Threads, Extract(t)
  PROVE  Logs' /\ Clocks'
  <1>1. PICK o \in Objects, n \in Slots, e \in Events :
        /\ o = target[t] /\ n = current_index /\ e = Head(queue[o][n]) /\ pc[t] = "extract"
        /\ ~speculation[o].standing_rollback /\ queue[o][n] # <<>>
        /\ queue' = [queue EXCEPT ![o][n] = Tail(queue[o][n])]
        /\ retractable_queue' = [retractable_queue EXCEPT ![o] = Append(retractable_queue[o], e)]
        /\ speculation' = [speculation EXCEPT ![o].current_time = Time(e)]
        /\ event' = [event EXCEPT ![t] = <<e>>]
    <2>1. target[t] \in Objects /\ current_index \in Slots
      BY TimeTypes DEF Extract, IInv, Held, Holds
    <2>2. Head(queue[target[t]][current_index]) \in Events
      BY <2>1, EndsType DEF Extract, HasWork, IInv, Lists, QueueTypes
    <2> QED
      BY <2>1, <2>2 DEF Extract, HasWork
  <1>2. /\ UNCHANGED <<model, epochs, log_queue, filter_message, rollback_time, target>>
        /\ pc'[t] = "copy"
    BY DEF Extract, Goto, IInv, ThreadTypes
  <1>3. OthersStay(t) /\ (AllIn(Running)' => AllIn(Running)) /\ Step(t)
    BY OneMoves, RunningStays DEF Step
  <1>4. /\ queue \in [Objects -> [Slots -> Seq(Events)]] /\ retractable_queue \in [Objects -> Seq(Events)]
        /\ speculation \in [Objects -> Statuses] /\ event \in [Threads -> Seq(Events)] /\ ModelOK
    BY DEF IInv, Lists, QueueTypes, ObjectTypes, ThreadTypes
  <1>5. /\ \A p \in Objects \ {o} : /\ queue'[p] = queue[p] /\ speculation'[p] = speculation[p]
                                    /\ retractable_queue'[p] = retractable_queue[p]
        /\ queue'[o][n] = Tail(queue[o][n])
        /\ retractable_queue'[o] = Append(retractable_queue[o], e)
        /\ speculation'[o].current_time = Time(e)
        /\ event'[t][1] = e
    BY <1>1, <1>4 DEF Statuses
  <1>6. /\ ToSet(queue[o][n]) = {e} \cup ToSet(queue'[o][n])
        /\ ToSet(retractable_queue'[o]) = ToSet(retractable_queue[o]) \cup {e}
    BY <1>1, <1>4, <1>5, EndsElements, AppendElements
  <1>7. Logs'
    <2>1. current_index' = current_index
      BY <1>2 DEF current_index
    <2>2. ASSUME NEW f \in Events, Listed(f) PROVE Listed(f)'
      <3>1. Dest(f) \in Objects /\ Dest(f)' = Dest(f)
        BY <1>2, <1>4, EventTypes, SameTimes
      <3>2. CASE Dest(f) = o
        <4>1. f \in ToSet(queue[o][n]) \/ f \in ToSet(retractable_queue[o])
          BY <1>1, <2>2, <3>2 DEF Listed
        <4>2. f \in ToSet(queue'[o][n]) \/ f \in ToSet(retractable_queue'[o])
          BY <1>6, <4>1
        <4> QED
          BY <1>1, <2>1, <3>1, <3>2, <4>2 DEF Listed
      <3>3. CASE Dest(f) # o
        BY <1>5, <2>1, <2>2, <3>1, <3>3 DEF Listed
      <3> QED
        BY <3>2, <3>3
    <2>3. Alive'
      BY <1>2, <1>3, <2>2, LogTypes DEF Logs, Alive
    <2> QED
      BY <1>2, <2>3 DEF Logs, LoggedOnce, LogSorted, SendTimes
  <1>8. \A p \in Objects : ~Working(t, p) /\ ~Undoing(t, p)' /\ ~Undoing(t, p)
                           /\ (p # o => ~Working(t, p)')
    BY <1>1, <1>2 DEF Working, Undoing
  <1>9. \A p \in Objects \ {o} : Clocked(p)'
    BY <1>2, <1>3, <1>5, <1>8, ClockElsewhere DEF Clocks
  <1>10. Settled(o) /\ \A f \in ToSet(retractable_queue[o]) : Time(f) <= Time(e)
    <2>1. Settled(o)
      BY <1>1, NotRollingBack DEF Runs, Settled
    <2> QED
      BY <1>1, <1>6, <2>1 DEF Order, InOrder, ExecutedInOrder
  <1>11. \A u \in Threads \ {t} : ~Working(u, o)' /\ ~Undoing(u, o)'
    <2>1. \A u \in Threads \ {t} : ~Working(u, o) /\ ~Undoing(u, o)
      BY <1>1, OnlyRunner DEF Runs
    <2> QED
      BY <1>3, <2>1 DEF OthersStay, Working, Undoing
  <1>12. LogTimed(o)'
    <2>1. ASSUME AllIn(Running)', NEW i \in DOMAIN log_queue[o]
          PROVE  LET x == log_queue[o][i].send_time
                 IN  /\ x <= filter_message[o] \/ x <= Time(e)
                     /\ x <= filter_message[o] \/ \E f \in ToSet(retractable_queue'[o]) : x <= Time(f)
      <3> DEFINE x == log_queue[o][i].send_time
      <3>1. x <= filter_message[o] \/ \E f \in ToSet(retractable_queue[o]) : x <= Time(f)
        BY <1>3, <1>10, <2>1 DEF Clocks, Clocked, LogTimed, Settled
      <3>2. x \in Nat /\ Time(e) \in Nat /\ \A f \in ToSet(retractable_queue[o]) : Time(f) \in Nat
        BY <1>4, EventTypes, Elements, LogTypes
      <3> QED
        BY <1>6, <1>10, <3>1, <3>2
    <2> QED
      BY <1>2, <1>5, <2>1, SameTimes DEF LogTimed
  <1>13. AtTime(o)'
    BY <1>2, <1>5, <1>6, <1>11, SameTimes DEF AtTime
  <1>14. FilterSet(o)'
    BY <1>8, <1>11 DEF FilterSet
  <1> QED
    BY <1>7, <1>9, <1>12, <1>13, <1>14 DEF Clocks, Clocked

LEMMA FrontEntries ==
  ASSUME NEW S, NEW q \in Seq(S), q # <<>>
  PROVE  /\ DOMAIN q = 1..Len(q) /\ Len(q) \in Nat \ {0} /\ Last(q) = q[Len(q)]
         /\ DOMAIN Front(q) = 1..(Len(q) - 1)
         /\ \A i \in 1..(Len(q) - 1) : Front(q)[i] = q[i]
  <1> DEFINE n == Len(q) - 1
             p == Front(q)
  <1>1. Len(q) \in Nat \ {0} /\ DOMAIN q = 1..Len(q) /\ Last(q) = q[Len(q)]
    BY Elements, EmptySeq DEF Last
  <1>2. n \in 0..Len(q) /\ 1 \in Nat \ {0} /\ 1 <= n + 1 /\ p = SubSeq(q, 1, n)
    BY <1>1 DEF Front
  <1> HIDE DEF n, p
  <1>3. p \in Seq(S) /\ Len(p) = (n - 1) + 1 /\ \A i \in 1..((n - 1) + 1) : p[i] = q[(1 + i) - 1]
    BY <1>2, Sublist
  <1>4. (n - 1) + 1 = n /\ \A i \in 1..n : (1 + i) - 1 = i
    BY <1>2
  <1>5. DOMAIN p = 1..n
    BY <1>3, <1>4, Elements
  <1> QED
    BY <1>1, <1>3, <1>4, <1>5 DEF n, p

\* An annihilation removes the last send of a log, and its event from the lists
\* where it is: no other entry points to it.
LEMMA LogAnnihilate ==
  ASSUME IInv, Ownership, Logs, Clocks, NEW t \in Threads, Annihilate(t)
  PROVE  Logs' /\ Clocks'
  <1>1. PICK o \in Objects, e \in Events, d \in Objects, n \in Slots :
        /\ o = target[t] /\ e = Last(log_queue[o]).event /\ d = Dest(e) /\ n = SlotOf(e)
        /\ log_queue[o] # <<>>
        /\ log_queue' = [log_queue EXCEPT ![o] = Front(log_queue[o])]
        /\ \A p \in Objects \ {d} : speculation'[p] = speculation[p]
        /\ speculation'[d].standing_rollback
        /\ speculation'[d].current_time = speculation[d].current_time
        /\ queue' = [queue EXCEPT ![d][n] = Without(queue[d][n], e)]
        /\ retractable_queue' = [retractable_queue EXCEPT ![d] = Without(retractable_queue[d], e)]
    <2> DEFINE o == target[t]
               e == Last(log_queue[o]).event
               d == Dest(e)
    <2>1. /\ o \in Objects /\ e \in Events /\ d \in Objects /\ SlotOf(e) \in Slots
          /\ log_queue[o] # <<>>
          /\ log_queue' = [log_queue EXCEPT ![o] = Front(log_queue[o])]
          /\ \A p \in Objects \ {d} : speculation'[p] = speculation[p]
          /\ speculation'[d].standing_rollback
          /\ speculation'[d].current_time = speculation[d].current_time
          /\ queue' = [queue EXCEPT ![d][SlotOf(e)] = Without(queue[d][SlotOf(e)], e)]
          /\ retractable_queue' = [retractable_queue EXCEPT ![d] = Without(retractable_queue[d], e)]
      BY AnnihilateEffect
    <2>2. e = Last(log_queue[o]).event /\ d = Dest(e)
      OBVIOUS
    <2> HIDE DEF e, d
    <2> QED
      BY <2>1, <2>2
  <1>2. UNCHANGED <<model, epochs, pc, target, current, event, rollback_time, filter_message>>
    BY DEF Annihilate
  <1>3. /\ queue \in [Objects -> [Slots -> Seq(Events)]] /\ retractable_queue \in [Objects -> Seq(Events)]
        /\ log_queue \in [Objects -> Seq(Sends)] /\ ModelOK
    BY DEF IInv, Lists, QueueTypes
  <1>4. /\ DOMAIN log_queue[o] = 1..Len(log_queue[o]) /\ Len(log_queue[o]) \in Nat \ {0}
        /\ e = log_queue[o][Len(log_queue[o])].event
        /\ DOMAIN log_queue'[o] = 1..(Len(log_queue[o]) - 1)
        /\ \A i \in DOMAIN log_queue'[o] : log_queue'[o][i] = log_queue[o][i]
        /\ \A p \in Objects \ {o} : log_queue'[p] = log_queue[p]
    <2> DEFINE q == log_queue[o]
    <2>1. q \in Seq(Sends) /\ q # <<>> /\ log_queue'[o] = Front(q)
          /\ \A p \in Objects \ {o} : log_queue'[p] = log_queue[p]
      BY <1>1, <1>3
    <2>2. /\ DOMAIN q = 1..Len(q) /\ Len(q) \in Nat \ {0} /\ Last(q) = q[Len(q)]
          /\ DOMAIN Front(q) = 1..(Len(q) - 1)
          /\ \A i \in 1..(Len(q) - 1) : Front(q)[i] = q[i]
      <3> HIDE DEF q
      <3> QED
        BY <2>1, FrontEntries
    <2>3. e = Last(q).event
      BY <1>1
    <2> HIDE DEF q
    <2> QED
      BY <2>1, <2>2, <2>3 DEF q
  <1>5. \A p \in Objects : \A i \in DOMAIN log_queue'[p] :
            i \in DOMAIN log_queue[p] /\ log_queue'[p][i] = log_queue[p][i]
    BY <1>4
  <1>6. LoggedOnce' /\ LogSorted' /\ SendTimes'
    BY <1>2, <1>5 DEF Logs, LoggedOnce, LogSorted, SendTimes
  <1>7. \A p \in Objects : \A i \in DOMAIN log_queue'[p] : log_queue[p][i].event # e
    <2> SUFFICES ASSUME NEW p \in Objects, NEW i \in DOMAIN log_queue'[p], log_queue[p][i].event = e
                 PROVE  FALSE
      OBVIOUS
    <2>1. i \in DOMAIN log_queue[p] /\ Len(log_queue[o]) \in DOMAIN log_queue[o]
      BY <1>4, <1>5
    <2>2. p = o /\ i = Len(log_queue[o])
      BY <1>4, <2>1 DEF Logs, LoggedOnce
    <2> QED
      BY <1>4, <2>2
  <1>8. ASSUME NEW f \in Events, f # e, Listed(f) PROVE Listed(f)'
    <2>1. Dest(f) \in Objects /\ Dest(f)' = Dest(f) /\ current_index' = current_index
          /\ current_index \in Slots
      BY <1>2, <1>3, EventTypes, SameTimes, TimeTypes DEF current_index, IInv
    <2>2. /\ ToSet(queue[d][n]) \subseteq ToSet(Without(queue[d][n], e)) \cup {e}
          /\ ToSet(retractable_queue[d]) \subseteq ToSet(Without(retractable_queue[d], e)) \cup {e}
      BY <1>3, Unlinked
    <2>3. /\ \A p \in Objects, s \in Slots : queue'[p][s] =
                IF p = d /\ s = n THEN Without(queue[d][n], e) ELSE queue[p][s]
          /\ \A p \in Objects : retractable_queue'[p] =
                IF p = d THEN Without(retractable_queue[d], e) ELSE retractable_queue[p]
      BY <1>1, <1>3
    <2> QED
      BY <1>8, <2>1, <2>2, <2>3 DEF Listed
  <1>9. Alive'
    <2> SUFFICES ASSUME AllIn(Running), NEW p \in Objects, NEW i \in DOMAIN log_queue'[p]
                 PROVE  Listed(log_queue[p][i].event)'
      BY <1>2, <1>5 DEF Alive, AllIn, Listed, Dest
    <2>1. log_queue[p][i].event \in Events /\ Listed(log_queue[p][i].event)
      BY <1>5, LogTypes DEF Logs, Alive
    <2>2. PICK f \in Events : f = log_queue[p][i].event
      BY <2>1
    <2>3. Listed(f)'
      BY <1>7, <1>8, <2>1, <2>2
    <2>4. f = log_queue'[p][i].event
      BY <1>5, <2>2
    <2> QED
      BY <1>5, <2>3, <2>4
  <1>10. \A p \in Objects : RollingBack(p)' <=> RollingBack(p)
    BY <1>2 DEF RollingBack
  <1>11. \A p \in Objects : speculation'[p].current_time = speculation[p].current_time
    BY <1>1
  <1>12. ASSUME NEW p \in Objects PROVE Clocked(p)'
    <2>1. Settled(p)' => Settled(p) /\ retractable_queue'[p] = retractable_queue[p]
      BY <1>1, <1>3, <1>10 DEF Settled
    <2>2. LogTimed(p)'
      BY <1>2, <1>5, <1>10, <1>11, <2>1, SameTimes DEF Clocks, Clocked, LogTimed, AllIn
    <2>3. AtTime(p)'
      BY <1>2, <1>11, <2>1, SameTimes DEF Clocks, Clocked, AtTime, Working, Time
    <2>4. FilterSet(p)'
      BY <1>2 DEF Clocks, Clocked, FilterSet, Undoing
    <2> QED
      BY <2>2, <2>3, <2>4 DEF Clocked
  <1> QED
    BY <1>6, <1>9, <1>12 DEF Logs, Clocks

\* A time within the epoch belongs to the slot of the epoch.
LEMMA SlotOfEpoch ==
  ASSUME epochs \in Nat, NEW e, Time(e) \in Nat, current_min_limit <= Time(e), Time(e) < EpochLimit
  PROVE  SlotOf(e) = current_index
  <1> DEFINE L == LOOKAHEAD
             k == Time(e) \div L
             r == Time(e) % L
  <1>1. L \in Nat \ {0}
    BY ConstantsAssumption
  <1>2. k \in Nat /\ r \in 0..(L - 1) /\ Time(e) = L * k + r
    BY <1>1
  <1>3. epochs * L <= Time(e) /\ Time(e) < epochs * L + L
    BY DEF current_min_limit, EpochLimit
  <1> HIDE DEF L, k, r
  <1>4. ~(k > epochs)
    <2> SUFFICES ASSUME k > epochs PROVE FALSE
      OBVIOUS
    <2>1. PICK a \in Nat : k = epochs + 1 + a
      <3>1. k - epochs - 1 \in Nat /\ k = epochs + 1 + (k - epochs - 1)
        BY <1>2
      <3> QED
        BY <3>1
    <2>2. L * k = epochs * L + L + L * a /\ L * a \in Nat /\ epochs * L \in Nat
      BY <1>1, <2>1
    <2> QED
      BY <1>1, <1>2, <1>3, <2>2
  <1>5. ~(k < epochs)
    <2> SUFFICES ASSUME k < epochs PROVE FALSE
      OBVIOUS
    <2>1. PICK a \in Nat : epochs = k + 1 + a
      <3>1. epochs - k - 1 \in Nat /\ epochs = k + 1 + (epochs - k - 1)
        BY <1>2
      <3> QED
        BY <3>1
    <2>2. epochs * L = L * k + L + L * a /\ L * a \in Nat /\ L * k \in Nat
      BY <1>1, <1>2, <2>1
    <2> QED
      BY <1>1, <1>2, <1>3, <2>2
  <1>6. k = epochs
    BY <1>2, <1>4, <1>5
  <1> QED
    BY <1>6 DEF k, L, SlotOf, current_index

\* A send is logged behind those that are not later, and its event is new.
LEMMA LogSendNow ==
  ASSUME IInv, Ownership, Order, Logs, Clocks, NEW t \in Threads, SendNow(t)
  PROVE  Logs' /\ Clocks'
  <1>1. PICK o \in Objects, e \in Events, f \in Events, d \in Objects :
        /\ o = current[t] /\ o = Dest(f) /\ f = event[t][1] /\ d = Dest(e) /\ pc[t] = "process"
        /\ IsFresh(e) /\ Insert(e)
        /\ log_queue' = [log_queue EXCEPT ![o] =
                           Append(log_queue[o], [event |-> e, send_time |-> Time(f)])]
        /\ \A p \in Objects \ {d} : speculation'[p] = speculation[p]
        /\ speculation'[d].current_time = speculation[d].current_time
        /\ speculation[d].standing_rollback => speculation'[d].standing_rollback
        /\ current_min_limit <= Time(e) /\ Time(e) < EpochLimit
        /\ ~(filter_message[o] >= Time(f))
    <2> DEFINE d == model.dest[NextSend(t)]
               time == model.time[NextSend(t)]
               new(c) == [kind |-> NextSend(t), copy |-> c]
    <2>1. PICK c \in Copies :
            /\ new(c) \in Events /\ IsFresh(new(c)) /\ Insert(new(c))
            /\ log_queue' = [log_queue EXCEPT ![current[t]] = Append(log_queue[current[t]],
                  [event |-> new(c), send_time |-> Time(event[t][1])])]
      BY SendNowEffect
    <2>2. d = Dest(new(c)) /\ time = Time(new(c))
      BY DEF Dest, Time
    <2>3. /\ pc[t] = "process" /\ current[t] = Dest(event[t][1]) /\ current[t] \in Objects /\ d \in Objects
          /\ \A p \in Objects \ {d} : speculation'[p] = speculation[p]
          /\ speculation'[d].current_time = speculation[d].current_time
          /\ speculation[d].standing_rollback => speculation'[d].standing_rollback
          /\ time \in Nat /\ ~Suppressed(t) /\ time < EpochLimit
      BY SendNowEffect
    <2>4. event[t][1] \in Events
      BY <2>3, Executes
    <2>5. ~(filter_message[current[t]] >= Time(event[t][1])) /\ current_min_limit <= time
      BY <2>3, TimeTypes DEF Suppressed, Filtered, IInv
    <2> HIDE DEF d, time, new
    <2> QED
      BY <2>1, <2>2, <2>3, <2>4, <2>5
  <1>2. UNCHANGED <<model, epochs, retractable_queue, filter_message, rollback_time>>
    BY DEF SendNow
  <1>3. OthersStay(t) /\ (AllIn(Running)' => AllIn(Running)) /\ Step(t)
    BY OneMoves, RunningStays DEF Step
  <1>4. \/ pc'[t] = "idle"
        \/ pc'[t] = "process" /\ current'[t] = o /\ event'[t] = event[t]
    BY <1>1, SendMoves
  <1>5. /\ Time(e) \in Nat /\ Time(f) \in Nat /\ f.kind \in Kinds /\ Time(f) = model.time[f.kind]
        /\ epochs \in Nat /\ current_index \in Slots /\ current_index' = current_index
        /\ [event |-> e, send_time |-> Time(f)] \in Sends
    BY <1>2, EventTypes, TimeTypes DEF IInv, Lists, Time, CounterTypes, current_index, Sends
  <1>6. SlotOf(e) = current_index
    BY <1>1, <1>5, SlotOfEpoch
  <1>7. AllIn(Running)
    BY <1>1, OnePhase DEF Running
  <1>8. /\ DOMAIN log_queue[o] = 1..Len(log_queue[o]) /\ Len(log_queue[o]) \in Nat
        /\ DOMAIN log_queue'[o] = 1..(Len(log_queue[o]) + 1)
        /\ \A i \in DOMAIN log_queue[o] : log_queue'[o][i] = log_queue[o][i]
        /\ log_queue'[o][Len(log_queue[o]) + 1] = [event |-> e, send_time |-> Time(f)]
        /\ \A p \in Objects \ {o} : log_queue'[p] = log_queue[p]
    <2> DEFINE q == log_queue[o]
               x == [event |-> e, send_time |-> Time(f)]
    <2>1. /\ q \in Seq(Sends) /\ x \in Sends /\ log_queue'[o] = Append(q, x)
          /\ \A p \in Objects \ {o} : log_queue'[p] = log_queue[p]
      BY <1>1, <1>5 DEF IInv, Lists, QueueTypes
    <2> HIDE DEF q, x
    <2>2. /\ DOMAIN q = 1..Len(q) /\ Len(q) \in Nat /\ DOMAIN Append(q, x) = 1..(Len(q) + 1)
          /\ \A i \in DOMAIN q : Append(q, x)[i] = q[i]
          /\ Append(q, x)[Len(q) + 1] = x
      BY <2>1, AppendProperties, Elements
    <2> QED
      BY <2>1, <2>2 DEF q, x
  <1>9. \A p \in Objects : \A i \in DOMAIN log_queue'[p] :
            \/ i \in DOMAIN log_queue[p] /\ log_queue'[p][i] = log_queue[p][i]
            \/ /\ p = o /\ i = Len(log_queue[o]) + 1 /\ \A j \in DOMAIN log_queue[o] : j < i
               /\ log_queue'[p][i].event = e /\ log_queue'[p][i].send_time = Time(f)
    BY <1>8
  <1>10. \A g : Listed(g) /\ Dest(g) \in Objects => g \in Allocated
    BY <1>5 DEF Listed, Allocated
  <1>11. \A p \in Objects : \A i \in DOMAIN log_queue[p] : log_queue[p][i].event # e
    <2> SUFFICES ASSUME NEW p \in Objects, NEW i \in DOMAIN log_queue[p], log_queue[p][i].event = e
                 PROVE  FALSE
      OBVIOUS
    <2>1. Listed(e)
      BY <1>7 DEF Logs, Alive
    <2> QED
      BY <1>1, <1>10, <2>1 DEF IsFresh
  <1>12. LoggedOnce'
    <2> SUFFICES ASSUME NEW p \in Objects, NEW q \in Objects,
                        NEW i \in DOMAIN log_queue'[p], NEW j \in DOMAIN log_queue'[q],
                        log_queue'[p][i].event = log_queue'[q][j].event
                 PROVE  p = q /\ i = j
      BY DEF LoggedOnce
    <2> QED
      BY <1>9, <1>11 DEF Logs, LoggedOnce
  <1>13. speculation[o].current_time = Time(f)
         /\ (Settled(o) => f \in ToSet(retractable_queue[o]))
    BY <1>1 DEF Clocks, Clocked, AtTime, Working
  <1>14. \A i \in DOMAIN log_queue[o] : log_queue[o][i].send_time <= Time(f)
    <2> SUFFICES ASSUME NEW i \in DOMAIN log_queue[o] PROVE log_queue[o][i].send_time <= Time(f)
      OBVIOUS
    <2>1. ~RollingBack(o)
      BY <1>1, NotRollingBack DEF Runs
    <2>2. \/ log_queue[o][i].send_time <= filter_message[o]
          \/ log_queue[o][i].send_time <= speculation[o].current_time
      BY <1>7, <2>1 DEF Clocks, Clocked, LogTimed
    <2>3. log_queue[o][i].send_time \in Nat /\ filter_message[o] \in Int
      BY LogTypes
    <2> QED
      BY <1>1, <1>5, <1>13, <2>2, <2>3
  <1>15. LogSorted'
    <2> SUFFICES ASSUME NEW p \in Objects, NEW i \in DOMAIN log_queue'[p], NEW j \in DOMAIN log_queue'[p],
                        i <= j
                 PROVE  log_queue'[p][i].send_time <= log_queue'[p][j].send_time
      BY DEF LogSorted
    <2>1. CASE j \in DOMAIN log_queue[p] /\ log_queue'[p][j] = log_queue[p][j]
      <3>1. i \in DOMAIN log_queue[p] /\ log_queue'[p][i] = log_queue[p][i]
        <4>1. i \in Nat /\ j \in Nat
          BY <1>8, LogTypes
        <4> QED
          BY <1>8, <1>9, <2>1, <4>1
      <3> QED
        BY <2>1, <3>1 DEF Logs, LogSorted
    <2>2. CASE p = o /\ log_queue'[p][j].send_time = Time(f)
      BY <1>5, <1>9, <1>14, <2>2
    <2> QED
      BY <1>9, <2>1, <2>2
  <1>16. SendTimes'
    BY <1>2, <1>5, <1>9 DEF Logs, SendTimes
  <1>17. /\ Listed(e)' /\ \A g \in Events : Listed(g) => Listed(g)'
    <2>1. /\ \A p \in Objects, s \in Slots : ToSet(queue[p][s]) \subseteq ToSet(queue'[p][s])
          /\ e \in ToSet(queue'[d][current_index])
      BY <1>1, <1>2, <1>5, <1>6, InsertInto
    <2>2. \A g \in Events : Dest(g) \in Objects /\ Dest(g)' = Dest(g)
      BY <1>2, EventTypes, SameTimes DEF IInv, Lists
    <2> QED
      BY <1>1, <1>2, <1>5, <2>1, <2>2 DEF Listed
  <1>18. Alive'
    <2>1. ASSUME NEW p \in Objects, NEW i \in DOMAIN log_queue'[p]
          PROVE  \E g \in Events : g = log_queue'[p][i].event /\ (g = e \/ Listed(g))
      BY <1>7, <1>9, LogTypes DEF Logs, Alive
    <2>2. \A g \in Events : g = e \/ Listed(g) => Listed(g)'
      BY <1>17
    <2>3. ASSUME NEW p \in Objects, NEW i \in DOMAIN log_queue'[p], NEW g \in Events,
                 g = log_queue'[p][i].event, Listed(g)'
          PROVE  LET h == log_queue'[p][i].event
                 IN  h \in ToSet(queue'[model'.dest[h.kind]][current_index'])
                            \cup ToSet(retractable_queue'[model'.dest[h.kind]])
      BY <2>3 DEF Listed, Dest
    <2>4. \A p \in Objects : \A i \in DOMAIN log_queue'[p] :
            LET h == log_queue'[p][i].event
            IN  h \in ToSet(queue'[model'.dest[h.kind]][current_index'])
                        \cup ToSet(retractable_queue'[model'.dest[h.kind]])
      BY <2>1, <2>2, <2>3 DEF Dest
    <2> QED
      BY <2>4 DEF Alive, Listed, Dest
  <1>19. \A p \in Objects : RollingBack(p)' <=> RollingBack(p)
    BY <1>1, <1>3, <1>4, RollingStays
  <1>20. \A p \in Objects : /\ speculation'[p].current_time = speculation[p].current_time
                            /\ Settled(p)' => Settled(p)
    BY <1>1, <1>19 DEF Settled
  <1>21. \A p \in Objects, u \in Threads : /\ Working(u, p)' => Working(u, p) /\ event'[u] = event[u]
                                           /\ Undoing(u, p)' <=> Undoing(u, p)
    BY <1>1, <1>3, <1>4 DEF OthersStay, Working, Undoing
  <1>22. ASSUME NEW p \in Objects PROVE Clocked(p)'
    <2>1. AtTime(p)'
      BY <1>2, <1>20, <1>21, SameTimes DEF Clocks, Clocked, AtTime, Time
    <2>2. FilterSet(p)'
      BY <1>2, <1>21 DEF Clocks, Clocked, FilterSet
    <2>3. ASSUME AllIn(Running)', ~RollingBack(p)', NEW i \in DOMAIN log_queue'[p]
          PROVE  LET time == log_queue'[p][i].send_time
                 IN  /\ time <= filter_message[p] \/ time <= speculation[p].current_time
                     /\ Settled(p)' => \/ time <= filter_message[p]
                                       \/ \E g \in ToSet(retractable_queue[p]) : time <= Time(g)
      <3>1. CASE i \in DOMAIN log_queue[p] /\ log_queue'[p][i] = log_queue[p][i]
        BY <1>7, <1>19, <1>20, <2>3, <3>1 DEF Clocks, Clocked, LogTimed
      <3>2. CASE p = o /\ log_queue'[p][i].send_time = Time(f)
        BY <1>5, <1>13, <1>20, <3>2
      <3> QED
        BY <1>9, <3>1, <3>2
    <2>4. LogTimed(p)'
      BY <1>2, <1>20, <2>3, SameTimes DEF LogTimed
    <2> QED
      BY <2>1, <2>2, <2>4 DEF Clocked
  <1> QED
    BY <1>12, <1>15, <1>16, <1>18, <1>22 DEF Logs, Clocks

\* At the end of an epoch the logs are emptied, otherwise they stay.
LEMMA LogOutside ==
  ASSUME IInv, Ownership, Logs, Clocks, NEW t \in Threads, Step(t), pc[t] \notin Running
  PROVE  Logs' /\ Clocks'
  <1>1. ~AllIn(Running)'
    BY RunningStays DEF AllIn
  <1>2. \A u \in Threads : pc'[u] \notin Running
    <2>1. Together'
      BY OneMoves, PhaseKept DEF Ownership
    <2> QED
      BY <1>1, <2>1 DEF Together, AllIn, Starting, Running, Closing, Turning, Crossing
  <1>3. \/ InitObject(t) \/ InitSend(t) \/ InitDone(t) \/ Retract(t) \/ Flush(t) \/ Commit(t)
        \/ Checkpoint(t) \/ FlushDone(t) \/ UpdateTiming(t) \/ FallbackInsert(t) \/ FallbackDone(t)
    BY DEF Step, Running, GetEvent, Dispense, Finish, Take, TakenByOther, Restore, Annihilate,
           Reinsert, Release, Keep, Redo, Extract, Process, ReadFreed, SendFiltered, SendLater, SendNow
  <1>4. /\ model' = model
        /\ \A o \in Objects : log_queue'[o] = log_queue[o] \/ log_queue'[o] = <<>>
    <2>1. CASE Flush(t)
      BY <2>1 DEF Flush, IInv, Lists, QueueTypes
    <2>2. CASE ~Flush(t)
      BY <1>3, <2>2 DEF InitObject, InitSend, InitDone, Retract, Commit, Checkpoint, FlushDone,
                        UpdateTiming, FallbackInsert, FallbackDone, queues
    <2> QED
      BY <2>1, <2>2
  <1>5. DOMAIN <<>> = {}
    OBVIOUS
  <1>6. \A o \in Objects : \A i \in DOMAIN log_queue'[o] :
            i \in DOMAIN log_queue[o] /\ log_queue'[o][i] = log_queue[o][i]
    BY <1>4, <1>5
  <1>7. Logs'
    BY <1>1, <1>4, <1>6 DEF Logs, Alive, LoggedOnce, LogSorted, SendTimes
  <1>8. Clocks'
    BY <1>1, <1>2 DEF Clocks, Clocked, LogTimed, AtTime, FilterSet, Working, Undoing, Running
  <1> QED
    BY <1>7, <1>8

LEMMA LogBarriers ==
  ASSUME IInv, Ownership, Cleanup, Logs, Clocks, Barriers
  PROVE  Logs' /\ Clocks'
  <1>1. UNCHANGED <<model, log_queue>>
    BY DEF Barriers, queues, objects
  <1>2. \A u \in Threads : pc'[u] \notin {"restore", "undo", "copy", "process"}
    BY DEF Barriers, Barrier
  <1>3. ASSUME AllIn(Running)' PROVE \A o \in Objects : DOMAIN log_queue[o] = {}
    <2>1. Threads # {}
      BY ConstantsAssumption, ConstantTypes
    <2>2. AllIn({"started"}) \/ AllIn({"ready"})
      BY <1>3, <2>1 DEF Barriers, Barrier, AllIn, Running
    <2>3. AllIn(Starting) \/ AllIn(Crossing)
      BY <2>2 DEF AllIn, Starting, Crossing
    <2> QED
      BY <2>3 DEF Cleanup, Fresh
  <1>4. Logs'
    BY <1>1, <1>3 DEF Logs, Alive, LoggedOnce, LogSorted, SendTimes
  <1>5. Clocks'
    BY <1>1, <1>2, <1>3 DEF Clocks, Clocked, LogTimed, AtTime, FilterSet, Working, Undoing
  <1> QED
    BY <1>4, <1>5

LEMMA LogStep ==
  ASSUME TimesApart, IInv, Ownership, Order, Logs, Clocks, NEW t \in Threads, Step(t)
  PROVE  Logs' /\ Clocks'
  <1>1. CASE pc[t] \notin Running
    BY <1>1, LogOutside
  <1>2. CASE pc[t] \in Running
    <2>1. \/ GetEvent(t) \/ Dispense(t) \/ Finish(t) \/ Take(t) \/ TakenByOther(t)
          \/ Restore(t) \/ Annihilate(t) \/ Reinsert(t)
          \/ Release(t) \/ Keep(t) \/ Redo(t) \/ Extract(t)
          \/ Process(t) \/ ReadFreed(t) \/ SendFiltered(t) \/ SendLater(t) \/ SendNow(t)
      BY <1>2 DEF Step, Running, InitObject, InitSend, InitDone, Retract, Flush, Commit, Checkpoint,
                  FlushDone, UpdateTiming, FallbackInsert, FallbackDone
    <2> QED
      BY <2>1, ClocksUnmoved, LogTake, LogAnnihilate, LogReinsert, LogExtract, LogSendNow
  <1> QED
    BY <1>1, <1>2

LEMMA LogUnchanged ==
  ASSUME Logs, Clocks, UNCHANGED vars
  PROVE  Logs' /\ Clocks'
  <1>1. UNCHANGED <<model, queue, retractable_queue, log_queue, epochs, filter_message, speculation,
                    pc, target, current, event, rollback_time>>
    BY DEF vars, queues, objects, locals
  <1>2. AllIn(Running)' => AllIn(Running)
    BY <1>1 DEF AllIn
  <1>3. \A o \in Objects, u \in Threads : /\ Working(u, o)' => Working(u, o) /\ event'[u] = event[u]
                                          /\ Undoing(u, o)' <=> Undoing(u, o)
    BY <1>1 DEF Working, Undoing
  <1> QED
    BY <1>1, <1>2, <1>3, LogsStay, ClockStays DEF Clocks

LEMMA LogAtFirst == Init => Logs /\ Clocks
  BY DEF Init, Logs, Alive, LoggedOnce, LogSorted, SendTimes, Clocks, Clocked, LogTimed, AtTime,
         FilterSet, Working, Undoing

\* Annihilation never follows a pointer of a send log to a freed event, and two
\* entries never point to the same one; undoing a log from its tail alone undoes
\* all that was sent from the rollback's time on. The events of a run have to be
\* epsilon apart: a send made less than epsilon before the rollback is neither
\* undone (queue.c:916) nor filtered (queue.c:441), and its repetition is logged
\* behind later ones.
THEOREM LogsStayLive ==
  ASSUME TimesApart
  PROVE  Spec => []LogsAreLive
  <1>1. IInv /\ Ownership /\ Cleanup /\ Order /\ Logs /\ Clocks /\ [Next]_vars => Logs' /\ Clocks'
    BY LogBarriers, LogStep, LogUnchanged DEF Next
  <1>2. IInv /\ Ownership /\ Logs => LogsAreLive
    <2> SUFFICES ASSUME IInv, Ownership, Logs, InEpoch,
                        NEW o \in Objects, NEW i \in DOMAIN log_queue[o]
                 PROVE  /\ Listed(log_queue[o][i].event)
                        /\ \A p \in Objects : \A j \in DOMAIN log_queue[p] :
                              log_queue[p][j].event = log_queue[o][i].event => p = o /\ i = j
                        /\ \A j \in DOMAIN log_queue[o] :
                              i < j => log_queue[o][i].send_time <= log_queue[o][j].send_time
      BY DEF LogsAreLive, Listed
    <2>1. AllIn(Running)
      BY OnePhase DEF InEpoch, Running
    <2>2. Listed(log_queue[o][i].event)
      BY <2>1 DEF Logs, Alive
    <2>3. \A p \in Objects : \A j \in DOMAIN log_queue[p] :
              log_queue[p][j].event = log_queue[o][i].event => p = o /\ i = j
      BY DEF Logs, LoggedOnce
    <2>4. \A j \in DOMAIN log_queue[o] : i < j => i <= j
      BY LogTypes
    <2>5. \A j \in DOMAIN log_queue[o] :
              i < j => log_queue[o][i].send_time <= log_queue[o][j].send_time
      BY <2>4 DEF Logs, LogSorted
    <2> QED
      BY <2>2, <2>3, <2>5
  <1> QED
    BY <1>1, <1>2, LogAtFirst, AlwaysOrder, PTL DEF Spec
=============================================================================
